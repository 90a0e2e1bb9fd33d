------------------------ MODULE AgentInputQueueCalm -------------------------
(***************************************************************************)
(* Proofs about sessions whose inputs all wait their turn (priority "next"):*)
(* consumed then means read, and what is in doubt or was stopped is not    *)
(* sent again. The invariant Calm is proved over LaneInv.                  *)
(***************************************************************************)
EXTENDS AgentInputQueueProofs
-----------------------------------------------------------------------------
(* Sessions without interrupting inputs *)

\* All inputs wait their turn: no "now" supersedes a turn or interrupts it.
Nexts(L) == \A i \in Inputs : L.priority[i] = "next"

\* A turn then prompts for the one input that started it.
Single(L) ==
  HasTurn(L) => ~L.active.superseded /\ ToSet(L.active.prompted) = {First(L)}

\* What may be said of an input whose delivery was ever unknown: it is not on
\* its way to the provider, and cannot come to be, unless its writes fail.
Doubtable(L, i) ==
  /\ L.dispatch[i] # "steering"
  /\ HasTurn(L) /\ L.active.stage = "sending" => i \notin ToSet(L.active.prompted)
  /\ i \notin L.broken =>
       /\ i \notin ToSet(L.queued) /\ L.dispatch[i] # "saving" /\ ~InFlight("queued", i)
       /\ InEarly(L) => i \notin ToSet(L.active.prompted)
       /\ i \in Ids \intersect Live(L) => L.provider = "remote"

\* Only a provider that retains messages gives one back.
GivesBack(L) ==
  \A i \in Inputs :
    /\ InFlight("queued", i) => L.provider = "local"
    /\ L.dispatch[i] = "delivered" /\ i \in ToSet(L.queued) => L.provider = "local"

\* An input that was never submitted has no history.
Fresh(L) ==
  \A i \in Inputs : L.state[i] = "new" =>
    L.priority[i] = "next" /\ i \notin L.stopped /\ i \notin L.doubtful

\* What is consumed was read by the model or answered without it.
Read(L) == \A i \in Inputs : L.state[i] = "consumed" => i \in ToSet(context) \union L.answered

\* What an explicitly stopped turn left unread is dropped: no turn carries it.
Dropped(L) == ~L.closed => L.stopped \intersect Live(L) = {}

\* No doubtful input can come to be sent, while the lane is open.
Doubt(L) == ~L.closed => GivesBack(L) /\ \A i \in L.doubtful : Doubtable(L, i)

\* What holds besides LaneInv, and all but the first of it only while every
\* input waits its turn.
Calm(L) == Fresh(L) /\ (Nexts(L) => Single(L) /\ Read(L) /\ Dropped(L) /\ Doubt(L))

\* From L to M the books gain nothing, and no input gets nearer to the provider
\* but along the way that its status was written for.
CalmTurn(L, M) ==
  HasTurn(M) => /\ HasTurn(L) /\ M.active.superseded = L.active.superseded
                /\ First(M) = First(L) /\ M.active.prompted = L.active.prompted

\* A prompt is sent only if the writes before it did not fail.
CalmStage(L, M) ==
  /\ InEarly(M) => InEarly(L)
  /\ HasTurn(M) /\ M.active.stage = "sending" =>
       \/ L.active.stage = "sending"
       \/ InEarly(L) /\ ToSet(L.active.prompted) \intersect L.broken = {}

\* A steer is sent only if its write did not fail, and an input returns to
\* the queue only from a dispatch or by the provider's word.
CalmInput(L, M, i) ==
  /\ M.dispatch[i] = "steering" =>
       L.dispatch[i] = "steering" \/ (L.dispatch[i] = "saving" /\ i \notin L.broken)
  /\ M.dispatch[i] = "saving" => L.dispatch[i] = "saving" \/ i \in ToSet(L.queued)
  /\ M.dispatch[i] = "delivered" =>
       L.dispatch[i] = "delivered" \/ i \notin ToSet(M.queued)
  /\ i \in ToSet(M.queued) =>
       \/ i \in ToSet(L.queued) \/ L.dispatch[i] = "steering" \/ InFlight("queued", i)
       \/ L.dispatch[i] = "saving" /\ i \notin L.broken

\* The books keep what they say, and only gain reads, answers and failed
\* writes.
CalmBooks(L, M) ==
  /\ M.priority = L.priority /\ M.provider = L.provider /\ (L.closed => M.closed)
  /\ L.answered \subseteq M.answered /\ L.broken \subseteq M.broken
  /\ M.stopped = L.stopped /\ M.doubtful = L.doubtful
  /\ \A i \in Inputs :
       /\ M.state[i] = "new" => L.state[i] = "new"
       /\ Nexts(L) /\ M.state[i] = "consumed" =>
            L.state[i] = "consumed" \/ i \in ToSet(context) \union M.answered

\* All of it, the last part only if the lane is open after the step.
Calmly(L, M) ==
  /\ CalmBooks(L, M) /\ CalmTurn(L, M)
  /\ ~M.closed => /\ Live(M) \subseteq Live(L) /\ CalmStage(L, M)
                  /\ \A i \in Inputs : CalmInput(L, M, i)

\* Such a step of the lane keeps it calm.
LEMMA CalmlyKeeps ==
  ASSUME NEW L \in Lane, NEW M \in Lane, Calm(L), Calmly(L, M)
  PROVE  Calm(M)
<1>1. Fresh(M)
  BY DEF Calm, Fresh, Calmly, CalmBooks
<1> SUFFICES ASSUME Nexts(M) PROVE Single(M) /\ Read(M) /\ Dropped(M) /\ Doubt(M)
  BY <1>1 DEF Calm
<1>2. Nexts(L) /\ Single(L) /\ Read(L) /\ Dropped(L) /\ Doubt(L)
  BY DEF Calm, Nexts, Calmly, CalmBooks
<1>3. Single(M)
  BY <1>2 DEF Single, Calmly, CalmTurn
<1>4. Read(M)
  BY <1>2 DEF Read, Calmly, CalmBooks
<1>5. Dropped(M)
  BY <1>2 DEF Dropped, Calmly, CalmBooks
<1>6. Doubt(M)
  <2> SUFFICES ASSUME ~M.closed PROVE GivesBack(M) /\ \A i \in M.doubtful : Doubtable(M, i)
    BY DEF Doubt
  <2>1. /\ ~L.closed /\ GivesBack(L) /\ \A i \in L.doubtful : Doubtable(L, i)
        /\ M.provider = L.provider /\ M.doubtful = L.doubtful /\ L.broken \subseteq M.broken
        /\ Live(M) \subseteq Live(L) /\ L.doubtful \subseteq Inputs
    BY <1>2, LaneIs DEF Doubt, Calmly, CalmBooks
  <2>2. GivesBack(M)
    <3> SUFFICES ASSUME NEW i \in Inputs, M.dispatch[i] = "delivered", i \in ToSet(M.queued)
                 PROVE  L.provider = "local"
      BY <2>1 DEF GivesBack
    <3>1. L.dispatch[i] = "delivered"
      BY DEF Calmly, CalmInput
    <3>2. i \in ToSet(L.queued) \/ InFlight("queued", i)
      BY <3>1 DEF Calmly, CalmInput
    <3> QED BY <2>1, <3>1, <3>2 DEF GivesBack
  <2>3. ASSUME NEW i \in M.doubtful PROVE Doubtable(M, i)
    <3>1. i \in Inputs /\ Doubtable(L, i) /\ CalmInput(L, M, i) /\ CalmStage(L, M) /\ CalmTurn(L, M)
      BY <2>1, <2>3 DEF Calmly
    <3>2. M.dispatch[i] # "steering"
      BY <3>1 DEF Doubtable, CalmInput
    <3>3. HasTurn(M) /\ M.active.stage = "sending" => i \notin ToSet(M.active.prompted)
      BY <3>1 DEF Doubtable, CalmStage, CalmTurn
    <3>4. i \notin M.broken => i \notin L.broken
      BY <2>1
    <3>5. i \notin M.broken => i \notin ToSet(M.queued) /\ M.dispatch[i] # "saving"
      BY <3>1, <3>4 DEF Doubtable, CalmInput
    <3>6. i \notin M.broken /\ InEarly(M) => i \notin ToSet(M.active.prompted)
      BY <3>1, <3>4 DEF Doubtable, CalmStage, CalmTurn, InEarly
    <3>7. i \notin M.broken => ~InFlight("queued", i)
      BY <3>1, <3>4 DEF Doubtable
    <3>8. i \notin M.broken /\ i \in Ids \intersect Live(M) => M.provider = "remote"
      BY <2>1, <3>1, <3>4 DEF Doubtable
    <3> QED BY <3>2, <3>3, <3>5, <3>6, <3>7, <3>8 DEF Doubtable
  <2> QED BY <2>2, <2>3
<1> QED BY <1>3, <1>4, <1>5, <1>6

\* The provider's books move on.
LEMMA CalmMoves ==
  ASSUME lane' \in Lane, Calm(lane'), ToSet(context) \subseteq ToSet(context'),
         Nexts(lane') /\ ~lane'.closed => \A i \in Inputs :
           /\ InFlight("queued", i)' =>
                \/ InFlight("queued", i)
                \/ lane'.provider = "local" /\ (i \in lane'.doubtful => i \in lane'.broken)
           /\ i \in Ids' => i \in Ids \/ i \notin lane'.doubtful
  PROVE  Calm(lane)'
<1>1. lane'.doubtful \subseteq Inputs
  BY LaneIs
<1>2. Fresh(lane)' /\ (Single(lane)' <=> Single(lane')) /\ (Nexts(lane)' <=> Nexts(lane'))
      /\ (Dropped(lane)' <=> Dropped(lane'))
  BY DEF Calm, Fresh, Single, Nexts, Dropped, HasTurn, First, Live, Ridden
<1> SUFFICES ASSUME Nexts(lane') PROVE Read(lane)' /\ Doubt(lane)'
  BY <1>2 DEF Calm
<1>3. Read(lane') /\ Doubt(lane')
  BY DEF Calm
<1>4. Read(lane)'
  BY <1>3 DEF Read
<1>5. Doubt(lane)'
  <2> SUFFICES ASSUME ~lane'.closed
               PROVE  GivesBack(lane)' /\ \A i \in lane'.doubtful : Doubtable(lane, i)'
    BY DEF Doubt
  <2>1. GivesBack(lane') /\ \A i \in lane'.doubtful : Doubtable(lane', i)
    BY <1>3 DEF Doubt
  <2>2. GivesBack(lane)'
    BY <2>1 DEF GivesBack
  <2>3. ASSUME NEW i \in lane'.doubtful PROVE Doubtable(lane, i)'
    <3>1. i \in Inputs /\ Doubtable(lane', i)
      BY <1>1, <2>1
    <3>2. i \notin lane'.broken => ~InFlight("queued", i)'
      BY <3>1 DEF Doubtable
    <3>3. i \in Ids' => i \in Ids
      BY <3>1
    <3> QED BY <3>1, <3>2, <3>3 DEF Doubtable
  <2> QED BY <2>2, <2>3
<1> QED BY <1>4, <1>5

\* A step of the lane after which the provider's books have not grown.
LEMMA CalmlyMoves ==
  ASSUME lane \in Lane, lane' \in Lane, Calm(lane), Calmly(lane, lane'),
         ToSet(context) \subseteq ToSet(context'), Ids' \subseteq Ids,
         \A i \in Inputs : InFlight("queued", i)' => InFlight("queued", i)
  PROVE  Calm(lane)'
<1>1. Calm(lane')
  BY CalmlyKeeps
<1> QED BY <1>1, CalmMoves

\* A step in which neither the loop nor the provider moves.
LEMMA CalmStill ==
  ASSUME lane' \in Lane, Calm(lane'), UNCHANGED <<loop, providerVars>>
  PROVE  Calm(lane)'
<1>1. \A i : (InFlight("queued", i)' <=> InFlight("queued", i)) /\ Ids' = Ids /\ context' = context
  BY DEF InFlight, Ids, providerVars
<1> QED BY <1>1, CalmMoves

\* flush(): what was queued is dispatched.
LEMMA CalmFlush == ASSUME NEW L \in Lane, Calm(L) PROVE Calm(Flush(L))
<1>1. L \in Lane /\ L.queued \in Seq(Inputs)
  BY LaneIs
<1>2. CASE ~MaySteer(L)
  BY <1>1, <1>2, FlushIs
<1>3. CASE MaySteer(L)
  <2> DEFINE F == Flush(L)
             q == L.queued
             s == L.active.steered
  <2>1. Flushed(L, F) /\ F \in Lane
    BY <1>1, <1>3, FlushIs DEF Flushed
  <2>2. q \in Seq(Inputs) /\ q # <<>> /\ HasTurn(L) /\ L.active.ready /\ s \in Seq(Inputs)
    BY <1>1, <1>3, LaneIs DEF MaySteer
  <2> HIDE DEF F, q, s
  <2>3. ToSet(q) = {Head(q)} \union ToSet(Tail(q)) /\ Head(q) \in Inputs
    BY <2>2, TailIs
  <2>4. ToSet(F.active.steered) = ToSet(s) \union {Head(q)}
    <3>1. F.active.steered = Append(s, Head(q))
      BY <2>1 DEF Flushed, s, q
    <3> QED BY <2>2, <2>3, <3>1, AppendIs
  <2>5. Live(F) = Live(L)
    BY <2>1, <2>2, <2>3, <2>4 DEF Live, Ridden, Flushed, q, s
  <2>6. CalmBooks(L, F) /\ CalmTurn(L, F) /\ CalmStage(L, F)
    BY <2>1, <2>2 DEF CalmBooks, CalmTurn, CalmStage, Flushed, First, InEarly
  <2>7. \A i \in Inputs : CalmInput(L, F, i)
    BY <2>1, <2>3 DEF CalmInput, Flushed, q
  <2>8. Calmly(L, F)
    BY <2>5, <2>6, <2>7 DEF Calmly
  <2> QED BY <1>1, <2>1, <2>8, CalmlyKeeps DEF F
<1> QED BY <1>2, <1>3
-----------------------------------------------------------------------------
\* What finish() does to the books, and the turn it starts in a calm session.
Closes(L, F) ==
  /\ F \in Lane /\ F.priority = L.priority /\ F.provider = L.provider
  /\ F.closed = L.closed /\ F.dispatch = L.dispatch
  /\ F.answered = L.answered /\ F.broken = L.broken
  /\ F.stopped = L.stopped \union {i \in ToSet(All(L)) : L.active.stopped /\ Unread(L, i)}
  /\ F.doubtful = IF L.active.superseded THEN L.doubtful ELSE L.doubtful \union Unsure(L)
  /\ \A i \in Inputs : /\ F.state[i] = "consumed" => L.state[i] = "consumed"
                       /\ F.state[i] = "new" => L.state[i] = "new"
  /\ ~L.active.superseded /\ Nexts(L) =>
       /\ ToSet(F.queued) \subseteq ToSet(L.queued) /\ ToSet(F.carried) = {}
       /\ HasTurn(F) =>
            /\ ~F.active.superseded /\ F.active.stage = "waiting" /\ F.active.steered = <<>>
            /\ First(F) \in ToSet(L.queued) /\ ToSet(F.active.prompted) = {First(F)}

\* finish() is of that form: it starts one queued input's turn, or none.
LEMMA FinishCloses ==
  ASSUME NEW L, Shape(L), HasTurn(L), L.closed \/ Quiet(L)
  PROVE  Closes(L, Finish(L))
<1> DEFINE E == Ended(L)
           F == Finish(L)
           q == L.queued
<1>1. L \in Lane /\ QueueShape(L) /\ q \in Seq(Inputs) /\ L.carried = <<>>
  BY LaneIs DEF Shape, QueueShape
<1>2. EndedAs(L, E) /\ F = StartNext(E) /\ E \in Lane /\ ~HasTurn(E)
  BY <1>1, EndedIs DEF EndedAs
<1>3. Finished(L, F) /\ F \in Lane
  BY FinishShape DEF Shape
<1> HIDE DEF E, F
<1>4. \A i \in Inputs : E.state[i] = "consumed" => L.state[i] = "consumed"
  BY <1>2 DEF EndedAs
<1>5. \A i \in Inputs : F.state[i] = "new" => L.state[i] = "new"
  BY <1>3 DEF Finished
<1>6. ~L.active.superseded => E.carried = <<>> /\ E.queued = q
  BY <1>1, <1>2 DEF EndedAs, q
<1>7. CASE F = E
  <2>1. ToSet(<<>>) = {}
    BY NoneIs
  <2> QED BY <1>2, <1>3, <1>4, <1>5, <1>6, <1>7, <2>1 DEF EndedAs, Closes, F, q, Finished
<1>8. CASE F # E
  <2>1. ~E.closed /\ (E.queued # <<>> \/ E.carried # <<>>)
    BY <1>2, <1>8, StartNextIs
  <2>2. E.queued = q /\ q # <<>>
    <3>1. HasTurn(F) => q # <<>>
      BY <1>3, <2>1 DEF Finished, q
    <3>2. E.queued = q /\ E.closed = L.closed
      BY <1>2 DEF EndedAs, q
    <3>3. ~HasTurn(F) => F.queued = <<>> /\ F.carried = <<>> /\ q = <<>>
      BY <1>3, <2>1, <3>2 DEF Finished, q
    <3>4. CASE q = <<>>
      <4>1. ~L.active.superseded
        BY <1>1, <2>1, <3>2, <3>4 DEF QueueShape, q
      <4> QED BY <1>6, <2>1, <3>4, <4>1
    <3> QED BY <3>2, <3>4
  <2> DEFINE e == Head(q)
  <2>3. PICK M \in Lane :
          /\ Started(M, e, F)
          /\ M.queued = Tail(q) /\ M.carried = E.carried
          /\ M.closed = E.closed /\ M.turns = E.turns /\ M.priority = E.priority
          /\ M.dispatch = E.dispatch /\ M.owner = E.owner /\ M.broken = E.broken
          /\ M.answered = E.answered /\ M.stopped = E.stopped
          /\ M.provider = E.provider /\ M.durable = E.durable
          /\ M.doubtful = E.doubtful /\ M.state = E.state
    <3>1. E.queued # <<>> /\ E.queued = q
      BY <2>2
    <3> QED BY <1>2, <2>1, <3>1, StartNextIs
  <2>4. e \in Inputs /\ ToSet(q) = {e} \union ToSet(Tail(q))
    <3> HIDE DEF q
    <3> QED BY <1>1, <2>2, TailIs
  <2> HIDE DEF e
  <2>5. \A i \in Inputs : F.state[i] = "consumed" => E.state[i] = "consumed"
    BY <2>3 DEF Started
  <2>6. F.stopped = E.stopped /\ F.doubtful = E.doubtful
    BY <2>3 DEF Started
  <2>7. ASSUME ~L.active.superseded, Nexts(L)
        PROVE  /\ ToSet(F.queued) \subseteq ToSet(q) /\ ToSet(F.carried) = {}
               /\ ~F.active.superseded /\ F.active.stage = "waiting" /\ F.active.steered = <<>>
               /\ First(F) \in ToSet(q) /\ ToSet(F.active.prompted) = {First(F)}
    <3>1. M.carried = <<>> /\ Urgent(M) = {}
      <4>1. M.priority = L.priority
        BY <1>2, <2>3 DEF EndedAs
      <4> QED BY <1>6, <2>3, <2>7, <4>1 DEF Urgent, Nexts
    <3>2. Absorbed(M, e) = <<>>
      BY <3>1 DEF Absorbed
    <3>3. ToSet(M.carried) = {} /\ ToSet(Absorbed(M, e)) = {}
      BY <3>1, <3>2, NoneIs
    <3>4. /\ ToSet(Prompt(M, e)) = {e} /\ ToSet(Rest(M, e)) = ToSet(Tail(q))
      <4>1. /\ ToSet(Prompt(M, e)) = ToSet(M.carried) \union {e} \union ToSet(Absorbed(M, e))
            /\ ToSet(Rest(M, e)) = ToSet(M.queued) \ ToSet(Absorbed(M, e))
        BY <2>4, PromptIs
      <4>2. ToSet(M.queued) = ToSet(Tail(q))
        BY <2>3
      <4> QED BY <3>3, <4>1, <4>2
    <3> QED BY <2>3, <2>4, <3>4, NoneIs DEF Started, First
  <2> QED BY <1>2, <1>3, <1>4, <1>5, <2>5, <2>6, <2>7 DEF EndedAs, Closes, F, q, Finished
<1> QED BY <1>7, <1>8 DEF F

\* finish() keeps a lane calm, once no event that queues an input is out.
LEMMA CalmFinish ==
  ASSUME NEW L, Shape(L), HasTurn(L), L.closed \/ Quiet(L), Calm(L),
         L.closed \/ \A i \in Inputs : ~InFlight("queued", i)
  PROVE  Calm(Finish(L))
<1> DEFINE F == Finish(L)
           t == L.active
<1>1. Closes(L, F)
  BY FinishCloses
<1>2. L \in Lane /\ F \in Lane /\ QueueShape(L) /\ StatusShape(L) /\ Finished(L, F)
  BY <1>1, FinishShape DEF Shape, Closes
<1> HIDE DEF F
<1>3. /\ ToSet(All(L)) = ToSet(t.prompted) \union ToSet(t.steered) /\ ToSet(All(L)) \subseteq Inputs
      /\ Unsure(L) \subseteq {i \in Inputs : L.state[i] \in {"accepted", "submitted"}}
      /\ F.doubtful \subseteq Inputs
  <2>1. t.pending \in Inputs \union {NoInput}
    BY <1>2, LaneIs
  <2> QED BY <1>2, <2>1, RemainingIs, LaneIs DEF Unsure
<1>4. Fresh(F)
  <2> SUFFICES ASSUME NEW i \in Inputs, F.state[i] = "new"
               PROVE  F.priority[i] = "next" /\ i \notin F.stopped /\ i \notin F.doubtful
    BY DEF Fresh
  <2>1. L.state[i] = "new" /\ F.priority = L.priority
    BY <1>1 DEF Closes
  <2>2. i \notin Live(L)
    BY <1>2, <2>1 DEF QueueShape
  <2>3. i \notin ToSet(All(L)) /\ i \notin Unsure(L)
    BY <1>3, <2>1, <2>2 DEF Live, Ridden
  <2>4. L.priority[i] = "next" /\ i \notin L.stopped /\ i \notin L.doubtful
    BY <2>1 DEF Calm, Fresh
  <2> QED BY <1>1, <2>1, <2>3, <2>4 DEF Closes
<1> SUFFICES ASSUME Nexts(F) PROVE Single(F) /\ Read(F) /\ Dropped(F) /\ Doubt(F)
  BY <1>4 DEF Calm, F
<1>5. /\ Nexts(L) /\ Single(L) /\ Read(L) /\ Dropped(L) /\ Doubt(L) /\ ~t.superseded
  BY <1>1 DEF Calm, Nexts, Closes, Single
<1>6. /\ ToSet(F.queued) \subseteq ToSet(L.queued) /\ ToSet(F.carried) = {}
      /\ HasTurn(F) =>
           /\ ~F.active.superseded /\ F.active.stage = "waiting" /\ F.active.steered = <<>>
           /\ First(F) \in ToSet(L.queued) /\ ToSet(F.active.prompted) = {First(F)}
  BY <1>1, <1>5 DEF Closes
<1>7. Single(F)
  BY <1>6 DEF Single
<1>8. Read(F)
  BY <1>1, <1>5 DEF Read, Closes
<1>9. Live(F) \subseteq ToSet(L.queued)
  BY <1>6, NoneIs DEF Live, Ridden
<1>10. Dropped(F)
  <2> SUFFICES ASSUME ~F.closed, NEW i \in F.stopped, i \in Live(F) PROVE FALSE
    BY DEF Dropped
  <2>1. i \in ToSet(L.queued) /\ ~L.closed
    BY <1>1, <1>9 DEF Closes
  <2>2. i \notin L.stopped
    BY <1>5, <2>1 DEF Dropped, Live
  <2>3. i \in {j \in ToSet(All(L)) : t.stopped /\ Unread(L, j)}
    BY <1>1, <2>2 DEF Closes
  <2> QED BY <2>1, <2>3 DEF Unread
<1>11. Doubt(F)
  <2> SUFFICES ASSUME ~F.closed PROVE GivesBack(F) /\ \A i \in F.doubtful : Doubtable(F, i)
    BY DEF Doubt
  <2>1. /\ ~L.closed /\ Quiet(L) /\ \A i \in Inputs : ~InFlight("queued", i)
        /\ GivesBack(L) /\ \A i \in L.doubtful : Doubtable(L, i)
        /\ F.dispatch = L.dispatch /\ F.broken = L.broken /\ F.provider = L.provider
    BY <1>1, <1>5 DEF Doubt, Closes
  <2>2. GivesBack(F)
    BY <1>6, <2>1 DEF GivesBack
  <2>3. ASSUME NEW i \in F.doubtful PROVE Doubtable(F, i)
    <3>1. i \in Inputs /\ F.dispatch[i] \notin {"steering", "saving"}
      BY <1>3, <2>1 DEF Quiet
    <3>2. i \in L.doubtful \/ i \in Unsure(L)
      BY <1>1, <1>5 DEF Closes
    <3>3. i \notin F.broken => i \notin ToSet(L.queued)
      <4>1. CASE i \in L.doubtful
        BY <2>1, <4>1 DEF Doubtable
      <4>2. CASE i \in Unsure(L)
        BY <1>2, <1>3, <2>1, <4>2 DEF StatusShape
      <4> QED BY <3>2, <4>1, <4>2
    <3>4. HasTurn(F) => F.active.stage # "sending"
      BY <1>6
    <3>5. i \notin F.broken => i \notin ToSet(F.queued) /\ ~InFlight("queued", i) /\ i \notin Live(F)
      BY <1>6, <1>9, <2>1, <3>1, <3>3
    <3>6. i \notin F.broken /\ InEarly(F) => i \notin ToSet(F.active.prompted)
      BY <1>6, <3>3 DEF InEarly
    <3> QED BY <3>1, <3>4, <3>5, <3>6 DEF Doubtable
  <2> QED BY <2>2, <2>3
<1> QED BY <1>7, <1>8, <1>10, <1>11

\* A step that finishes the turn and adds nothing to the provider's books.
LEMMA CalmEnds ==
  ASSUME NEW L, Shape(L), HasTurn(L), L.closed \/ Quiet(L), Calm(L), lane' = Finish(L),
         L.closed \/ \A i \in Inputs : ~InFlight("queued", i),
         ToSet(context) \subseteq ToSet(context'), Ids' \subseteq Ids,
         \A i \in Inputs : InFlight("queued", i)' => InFlight("queued", i)
  PROVE  Calm(lane)'
<1>1. Calm(lane') /\ lane' \in Lane
  BY CalmFinish, FinishShape DEF Shape
<1> QED BY <1>1, CalmMoves
-----------------------------------------------------------------------------
\* A step of the lane alone.
LEMMA CalmStep ==
  ASSUME lane \in Lane, lane' \in Lane, Calm(lane), Calmly(lane, lane'),
         UNCHANGED <<loop, providerVars>>
  PROVE  Calm(lane)'
<1>1. Calm(lane')
  BY CalmlyKeeps
<1> QED BY <1>1, CalmStill

\* Same queue, same turn but for its marks and its stage.
LEMMA StagedCalm ==
  ASSUME NEW L \in Lane, HasTurn(L), NEW s, NEW M, Staged(L, s, M), CalmBooks(L, M),
         s \in Early => InEarly(L),
         s = "sending" => L.active.stage = "sending"
                            \/ ToSet(L.active.prompted) \intersect L.broken = {}
  PROVE  Calmly(L, M)
<1>1. Live(M) = Live(L)
  BY DEF Staged, Live, Ridden
<1>2. CalmTurn(L, M)
  BY DEF Staged, CalmTurn, First
<1>3. CalmStage(L, M)
  <2>1. s = "sending" => InEarly(L)
    BY DEF Early
  <2> QED BY <2>1 DEF Staged, CalmStage, InEarly
<1>4. \A i \in Inputs : CalmInput(L, M, i)
  BY DEF Staged, CalmInput
<1> QED BY <1>1, <1>2, <1>3, <1>4 DEF Calmly

\* What update() does to the books, when it forgets nothing and doubts nothing.
LEMMA UpdateCalm ==
  ASSUME NEW L, NEW S, NEW st \in States \ {"new", "unknown"}, NEW U, Updated(L, S, st, U),
         st = "consumed" /\ Nexts(L) => S \subseteq ToSet(context) \union L.answered
  PROVE  CalmBooks(L, U)
BY DEF Updated, CalmBooks

\* The books but for those that the prover has to be told of.
Booked(L, M) ==
  /\ M.priority = L.priority /\ M.provider = L.provider /\ M.closed = L.closed
  /\ L.answered \subseteq M.answered /\ L.broken \subseteq M.broken
  /\ M.stopped = L.stopped /\ M.doubtful = L.doubtful /\ M.state = L.state

\* They gain nothing.
LEMMA BookedCalm == ASSUME NEW L, NEW M, Booked(L, M) PROVE CalmBooks(L, M)
BY DEF Booked, CalmBooks

\* Two such changes of the books make one.
LEMMA CalmTrans ==
  ASSUME NEW L, NEW M, NEW N, CalmBooks(L, M), CalmBooks(M, N)
  PROVE  CalmBooks(L, N)
BY DEF CalmBooks, Nexts

\* A stage of the turn is not in the books.
LEMMA StageBooked ==
  ASSUME NEW U \in Lane, HasTurn(U), NEW s \in Stages, NEW A
  PROVE  /\ Booked(U, [U EXCEPT !.active.stage = s])
         /\ A \subseteq Inputs => Booked(U, [U EXCEPT !.active.stage = s, !.answered = @ \union A])
<1>1. Booked(U, [U EXCEPT !.active.stage = s])
  BY DEF Booked, Lane
<1>2. ASSUME A \subseteq Inputs
      PROVE  Booked(U, [U EXCEPT !.active.stage = s, !.answered = @ \union A])
  BY <1>2 DEF Booked, Lane
<1> QED BY <1>1, <1>2
-----------------------------------------------------------------------------
(* The turn's steps in a calm session *)

\* Nor does it help an input that its write failed.
LEMMA BrokenCalm ==
  ASSUME NEW L \in Lane, Calm(L), NEW S \in SUBSET Inputs
  PROVE  Calm(Broken(L, S)) /\ Broken(L, S) \in Lane
<1> DEFINE B == Broken(L, S)
<1>1. B \in Lane /\ Booked(L, B)
  BY DEF Broken, Lane, Booked
<1>2. /\ B.active = L.active /\ B.queued = L.queued /\ B.carried = L.carried
      /\ B.dispatch = L.dispatch
  BY BooksAre
<1> HIDE DEF B
<1>3. CalmBooks(L, B)
  BY <1>1, BookedCalm
<1>4. Live(B) = Live(L)
  BY <1>2 DEF Live, Ridden, HasTurn
<1>5. CalmTurn(L, B) /\ CalmStage(L, B) /\ \A i \in Inputs : CalmInput(L, B, i)
  BY <1>2 DEF CalmTurn, CalmStage, CalmInput, HasTurn, First, InEarly
<1>6. Calmly(L, B)
  BY <1>3, <1>4, <1>5 DEF Calmly
<1>7. Calm(B)
  BY <1>1, <1>6, CalmlyKeeps
<1> QED BY <1>1, <1>7 DEF B

\* The prompt goes out: what it names was not doubtful and is now the
\* provider's.
LEMMA CalmSends == ASSUME Inv, Calm(lane), SendInput PROVE Calm(lane)'
<1>1. /\ lane \in Lane /\ EnvType /\ Shape(lane) /\ TurnShape(lane) /\ HasTurn(lane)
      /\ lane.active.stage = "sending" /\ ~lane.closed
      /\ lane' = [lane EXCEPT !.active.stage = "sent"]
  BY DEF Inv, Shape, SendInput, AtStage, Stage
<1>2. Staged(lane, "sent", lane') /\ Booked(lane, lane')
  BY <1>1, StageIs, StageBooked DEF Stages
<1>3. Calmly(lane, lane')
  BY <1>1, <1>2, BookedCalm, StagedCalm DEF Early
<1>4. Calm(lane') /\ lane' \in Lane
  BY <1>1, <1>2, <1>3, CalmlyKeeps DEF Staged
<1>5. ASSUME Nexts(lane') PROVE First(lane) \notin lane'.doubtful
  <2>1. Nexts(lane) /\ lane'.doubtful = lane.doubtful
    BY <1>2, <1>5 DEF Booked, Nexts
  <2>2. \A i \in lane.doubtful : i \notin ToSet(lane.active.prompted)
    BY <1>1, <2>1 DEF Calm, Doubt, Doubtable
  <2> QED BY <1>1, <2>1, <2>2 DEF TurnShape
<1>6. Ids' \subseteq Ids \union {First(lane)}
  <2>1. CASE First(lane) \in retained
    <3>1. inbox' = inbox
      BY <2>1 DEF SendInput
    <3> QED BY <3>1 DEF Ids
  <2>2. CASE First(lane) \notin retained
    <3> DEFINE m == [id |-> First(lane), parts |-> lane.active.prompted]
    <3>1. inbox' = Append(inbox, m) /\ inbox \in Seq(Message) /\ m \in Message /\ m.id = First(lane)
      BY <1>1, <2>2, EnvIs, LaneIs DEF SendInput, EnvType, Message
    <3> HIDE DEF m
    <3>2. Len(inbox') = Len(inbox) + 1 /\ Len(inbox) \in Nat /\ inbox'[Len(inbox) + 1] = m
          /\ \A k \in 1..Len(inbox) : inbox'[k] = inbox[k]
      BY <3>1
    <3>3. \A k \in 1..Len(inbox') : inbox'[k].id \in Ids \union {First(lane)}
      BY <3>1, <3>2 DEF Ids
    <3> QED BY <3>3 DEF Ids
  <2> QED BY <2>1, <2>2
<1>7. context' = context /\ stream' = stream /\ loop' = loop
  BY DEF SendInput
<1>8. \A i : InFlight("queued", i)' <=> InFlight("queued", i)
  BY <1>7 DEF InFlight
<1> QED BY <1>4, <1>5, <1>6, <1>7, <1>8, CalmMoves

\* The middleware answers in the provider's place.
LEMMA CalmAnswers ==
  ASSUME Inv, Calm(lane), NEW st \in {"consumed", "failed"}, MiddlewareAnswers(st)
  PROVE  Calm(lane)'
<1>1. /\ lane \in Lane /\ HasTurn(lane) /\ Shape(lane) /\ EnvType /\ TurnShape(lane)
      /\ lane.active.stage = "current"
      /\ lane' = [Update(lane, {First(lane)}, st)
                    EXCEPT !.active.stage = "answering",
                           !.answered = @ \union ToSet(lane.active.prompted)]
      /\ UNCHANGED <<loop, providerVars>>
  BY DEF Inv, Shape, MiddlewareAnswers, AtStage, Stage
<1> DEFINE U == Update(lane, {First(lane)}, st)
           a == ToSet(lane.active.prompted)
<1>2. {First(lane)} \subseteq Inputs /\ a \subseteq Inputs /\ First(lane) \in a /\ st \in States
  BY <1>1, EnvIs DEF States, Settled, TurnShape
<1>3. Updated(lane, {First(lane)}, st, U)
  BY <1>1, <1>2, UpdateIs
<1>4. lane' = [U EXCEPT !.active.stage = "answering", !.answered = @ \union a]
  BY <1>1
<1> HIDE DEF U, a
<1>5. U \in Lane /\ HasTurn(U)
  BY <1>1, <1>3 DEF Updated, HasTurn
<1>6. Staged(U, "answering", lane') /\ Booked(U, lane') /\ lane'.answered = U.answered \union a
  <2>1. lane'.answered = U.answered \union a
    BY <1>4, <1>5 DEF Lane
  <2> QED BY <1>2, <1>4, <1>5, <2>1, StageIs, StageBooked DEF Stages
<1>7. Staged(lane, "answering", lane')
  BY <1>3, <1>6 DEF Staged, Updated
<1>8. CalmBooks(lane, lane')
  BY <1>2, <1>3, <1>6 DEF Booked, CalmBooks, Updated
<1>9. InEarly(lane)
  BY <1>1 DEF InEarly, Early
<1>10. Calmly(lane, lane') /\ lane' \in Lane
  BY <1>1, <1>7, <1>8, <1>9, StagedCalm DEF Staged
<1> QED BY <1>1, <1>10, CalmStep

\* Its answer is written.
LEMMA CalmAnswerSaved == ASSUME Inv, Calm(lane), AnswerSaved PROVE Calm(lane)'
<1>1. /\ lane \in Lane /\ HasTurn(lane) /\ Shape(lane) /\ EnvType /\ QueueShape(lane)
      /\ TurnShape(lane) /\ lane.active.stage = "answering"
      /\ lane' = [Update(lane, Bound(lane), lane.state[First(lane)])
                    EXCEPT !.active.stage = "answered"]
      /\ UNCHANGED <<loop, providerVars>>
  BY DEF Inv, Shape, AnswerSaved, AtStage, Stage
<1> DEFINE st == lane.state[First(lane)]
           U == Update(lane, Bound(lane), st)
<1>2. Bound(lane) \subseteq Inputs /\ First(lane) \in Inputs /\ st \in States
  BY <1>1, EnvIs, LaneIs DEF Bound
<1>3. st # "new"
  BY <1>1 DEF TurnShape, QueueShape, Live, Ridden
<1>4. Nexts(lane) => Bound(lane) = {}
  BY <1>1 DEF Calm, Single, Bound
<1> HIDE DEF st
<1>5. Updated(lane, Bound(lane), st, U)
  BY <1>1, <1>2, UpdateIs
<1>6. lane' = [U EXCEPT !.active.stage = "answered"]
  BY <1>1 DEF st
<1> HIDE DEF U
<1>7. U \in Lane /\ HasTurn(U)
  BY <1>1, <1>5 DEF Updated, HasTurn
<1>8. Staged(U, "answered", lane') /\ Booked(U, lane')
  BY <1>6, <1>7, StageIs, StageBooked DEF Stages
<1>9. Staged(lane, "answered", lane')
  BY <1>5, <1>8 DEF Staged, Updated
<1>10. lane' \in Lane /\ InEarly(lane)
  BY <1>1, <1>9 DEF Staged, InEarly, Early
<1>11. CASE Nexts(lane)
  <2>1. CalmBooks(lane, lane')
    BY <1>3, <1>4, <1>5, <1>8, <1>11 DEF Updated, Booked, CalmBooks
  <2> QED BY <1>1, <1>9, <1>10, <2>1, StagedCalm, CalmStep
<1>12. CASE ~Nexts(lane)
  <2>1. \A i \in Bound(lane) : lane.state[i] # "new"
    BY <1>1 DEF Bound, QueueShape, Live, Ridden
  <2>2. Fresh(lane) /\ ~Nexts(lane')
    BY <1>5, <1>8, <1>12 DEF Calm, Nexts, Updated, Booked
  <2>3. Fresh(lane')
    <3> SUFFICES ASSUME NEW i \in Inputs, lane'.state[i] = "new"
                 PROVE  lane'.priority[i] = "next" /\ i \notin lane'.stopped /\ i \notin lane'.doubtful
      BY DEF Fresh
    <3>1. i \notin Bound(lane) /\ lane.state[i] = "new"
      BY <1>3, <1>5, <1>8 DEF Updated, Booked
    <3>2. lane.priority[i] = "next" /\ i \notin lane.stopped /\ i \notin lane.doubtful
      BY <2>2, <3>1 DEF Fresh
    <3>3. lane'.doubtful \subseteq lane.doubtful \union Bound(lane)
      BY <1>5, <1>8 DEF Updated, Booked
    <3> QED BY <1>5, <1>8, <3>1, <3>2, <3>3 DEF Updated, Booked
  <2>4. Calm(lane')
    BY <2>2, <2>3 DEF Calm
  <2> QED BY <1>1, <1>10, <2>4, CalmStill
<1> QED BY <1>11, <1>12

\* A turn that ends before its prompt went out.
LEMMA CalmEarly ==
  ASSUME Inv, NEW L, Shape(L), L.active = lane.active, L.closed = lane.closed,
         L.dispatch = lane.dispatch, L.state = lane.state, InEarly(lane), Calm(L),
         lane' = Finish(L), UNCHANGED <<loop, stream, context>>, Ids' \subseteq Ids
  PROVE  Calm(lane)'
<1>1. \A k, i : ~InFlight(k, i)
  BY EarlyIs DEF Inv
<1>2. HasTurn(L) /\ (L.closed \/ Quiet(L))
  <2>1. HasTurn(lane) /\ (lane.closed \/ Quiet(lane))
    BY EarlyIs DEF Inv
  <2> QED BY <2>1 DEF HasTurn, Quiet
<1>3. \A i : InFlight("queued", i)' <=> InFlight("queued", i)
  BY DEF InFlight
<1> QED BY <1>1, <1>2, <1>3, CalmEnds

\* A provider that got nothing knows of no more inputs.
LEMMA NoIds == ASSUME inbox' = <<>> \/ inbox' = inbox PROVE Ids' \subseteq Ids
<1>1. CASE inbox' = inbox
  BY <1>1 DEF Ids
<1>2. CASE inbox' = <<>>
  <2>1. 1..Len(inbox') = {}
    BY <1>2
  <2> QED BY <2>1 DEF Ids
<1> QED BY <1>1, <1>2

\* A turn that fails before its prompt went out.
LEMMA CalmFails == ASSUME Inv, Calm(lane), TurnFails PROVE Calm(lane)'
<1>1. /\ lane \in Lane /\ InEarly(lane) /\ HasTurn(lane) /\ Shape(lane) /\ EnvType
      /\ UNCHANGED <<loop, stream, context>> /\ (inbox' = <<>> \/ inbox' = inbox)
  BY DEF Inv, Shape, TurnFails, AtStage, InEarly, Early, Stage
<1>2. First(lane) \in Inputs /\ ToSet(lane.active.prompted) \subseteq Inputs /\ Ids' \subseteq Ids
  BY <1>1, EnvIs, NoIds
<1>3. lane' = Finish(lane) \/ \E i \in Inputs : lane' = Finish(Broken(lane, {i}))
  <2> DEFINE waited == IF Stage = "binding" THEN ToSet(lane.active.prompted)
                       ELSE IF Stage = "answering" THEN {First(lane)} ELSE {}
  <2>1. waited \subseteq Inputs
    BY <1>2
  <2>2. lane' = Finish(lane) \/ \E i \in waited : lane' = Finish(Broken(lane, {i}))
    BY DEF TurnFails
  <2> QED BY <2>1, <2>2
<1>4. CASE lane' = Finish(lane)
  BY <1>1, <1>2, <1>4, CalmEarly
<1>5. ASSUME NEW i \in Inputs, lane' = Finish(Broken(lane, {i})) PROVE Calm(lane)'
  <2>1. PICK B : B = Broken(lane, {i})
    OBVIOUS
  <2>2. /\ Shape(B) /\ B.active = lane.active /\ B.closed = lane.closed
        /\ B.state = lane.state /\ B.dispatch = lane.dispatch /\ B \in Lane
    BY <2>1, BrokenInv DEF Shape
  <2>3. Calm(B)
    BY <1>1, <2>1, BrokenCalm
  <2> QED BY <1>1, <1>2, <1>5, <2>1, <2>2, <2>3, CalmEarly
<1> QED BY <1>3, <1>4, <1>5
-----------------------------------------------------------------------------
\* A turn record with new marks.
LEMMA MarksCalm ==
  ASSUME NEW L \in Lane, HasTurn(L), NEW t \in Turn, NEW M, M = [L EXCEPT !.active = t],
         t.first = L.active.first, t.prompted = L.active.prompted,
         t.steered = L.active.steered, t.superseded = L.active.superseded,
         t.stage \in Early => InEarly(L),
         t.stage = "sending" => L.active.stage = "sending"
  PROVE  M \in Lane /\ Calmly(L, M)
<1>1. /\ M \in Lane /\ HasTurn(M) /\ M.active = t /\ M.queued = L.queued
      /\ M.carried = L.carried /\ M.dispatch = L.dispatch
  BY TurnedIs DEF Turned
<1>2. Booked(L, M)
  BY DEF Booked, Lane
<1>3. CalmBooks(L, M)
  BY <1>2, BookedCalm
<1>4. Live(M) = Live(L)
  BY <1>1 DEF Live, Ridden
<1>5. CalmTurn(L, M)
  BY <1>1 DEF CalmTurn, First
<1>6. CalmStage(L, M)
  BY <1>1 DEF CalmStage, InEarly
<1>7. \A i \in Inputs : CalmInput(L, M, i)
  BY <1>1 DEF CalmInput
<1> QED BY <1>1, <1>3, <1>4, <1>5, <1>6, <1>7 DEF Calmly

\* The native turn is ready, and takes what waited.
LEMMA CalmReady == ASSUME Inv, Calm(lane), Ready PROVE Calm(lane)'
<1> DEFINE t == [lane.active EXCEPT !.stage = "running", !.ready = TRUE]
           M == [lane EXCEPT !.active = t]
<1>1. /\ Shape(lane) /\ lane \in Lane /\ HasTurn(lane) /\ lane.active.stage = "sent"
      /\ lane.active \in Turn /\ lane' = Flush(M) /\ UNCHANGED <<loop, providerVars>>
  BY LaneIs DEF Inv, Shape, Ready, AtStage, Stage
<1>2. /\ t \in Turn /\ t.first = lane.active.first /\ t.prompted = lane.active.prompted
      /\ t.steered = lane.active.steered /\ t.superseded = lane.active.superseded
      /\ t.stage = "running"
  BY <1>1 DEF Turn, Stages
<1> HIDE DEF t
<1>3. M \in Lane /\ Calmly(lane, M)
  BY <1>1, <1>2, MarksCalm DEF Early
<1> HIDE DEF M
<1>4. Calm(M)
  BY <1>1, <1>3, CalmlyKeeps
<1>5. Calm(lane') /\ lane' \in Lane
  <2>1. MaySteer(M) => Flush(M) \in Lane
    BY <1>3, FlushIs DEF Flushed
  <2> QED BY <1>1, <1>3, <1>4, <2>1, CalmFlush, FlushIs
<1> QED BY <1>1, <1>5, CalmStill

\* So every step of the turn keeps the lane calm.
LEMMA CalmTurnStep == ASSUME Inv, Calm(lane), TurnStep PROVE Calm(lane)'
<1>1. /\ Shape(lane) /\ lane \in Lane /\ EnvType /\ Env(lane) /\ TurnShape(lane)
  BY DEF Inv, Shape
<1>2. CASE TakeMutex
  <2>1. HasTurn(lane) /\ InEarly(lane) /\ lane.active.stage = "waiting"
    BY <1>2 DEF TakeMutex, AtStage, Stage, InEarly, Early
  <2>2. \/ lane' = Finish(lane) /\ inbox' = <<>> /\ UNCHANGED <<loop, stream, context>>
        \/ lane' = [lane EXCEPT !.active.stage = "current"] /\ UNCHANGED <<loop, providerVars>>
    BY <1>2 DEF TakeMutex
  <2>3. CASE lane' = Finish(lane) /\ inbox' = <<>> /\ UNCHANGED <<loop, stream, context>>
    BY <1>1, <2>1, <2>3, NoIds, CalmEarly
  <2>4. CASE lane' = [lane EXCEPT !.active.stage = "current"] /\ UNCHANGED <<loop, providerVars>>
    <3>1. Staged(lane, "current", lane') /\ Booked(lane, lane')
      BY <1>1, <2>1, <2>4, StageIs, StageBooked DEF Stages
    <3>2. Calmly(lane, lane') /\ lane' \in Lane
      BY <1>1, <2>1, <3>1, BookedCalm, StagedCalm DEF Staged
    <3> QED BY <1>1, <2>4, <3>2, CalmStep
  <2> QED BY <2>2, <2>3, <2>4
<1>3. CASE SkipModel
  <2>1. HasTurn(lane) /\ InEarly(lane) /\ lane' = Finish(lane) /\ UNCHANGED <<loop, providerVars>>
    BY <1>3 DEF SkipModel, AtStage, Stage, InEarly, Early
  <2>2. UNCHANGED <<stream, context>> /\ inbox' = inbox
    BY <2>1 DEF providerVars
  <2> QED BY <1>1, <2>1, <2>2, NoIds, CalmEarly
<1>4. CASE BeforeSend
  <2>1. /\ HasTurn(lane) /\ lane.active.stage = "current" /\ InEarly(lane)
        /\ lane' = [Update(lane, ToSet(lane.active.prompted), "submitted")
                      EXCEPT !.active.stage = "binding"]
        /\ UNCHANGED <<loop, providerVars>>
    BY <1>4 DEF BeforeSend, AtStage, Stage, InEarly, Early
  <2> DEFINE p == ToSet(lane.active.prompted)
             U == Update(lane, p, "submitted")
  <2>2. p \in SUBSET Inputs /\ "submitted" \in States
    BY <1>1, <2>1, EnvIs DEF States
  <2>3. lane' = [U EXCEPT !.active.stage = "binding"]
    BY <2>1
  <2> HIDE DEF p
  <2>4. Updated(lane, p, "submitted", U)
    BY <1>1, <2>2, UpdateIs
  <2> HIDE DEF U
  <2>5. U \in Lane /\ HasTurn(U)
    BY <2>1, <2>4 DEF Updated, HasTurn
  <2>6. Staged(U, "binding", lane') /\ Booked(U, lane')
    BY <2>3, <2>5, StageIs, StageBooked DEF Stages
  <2>7. Staged(lane, "binding", lane')
    BY <2>4, <2>6 DEF Staged, Updated
  <2>8. CalmBooks(lane, lane')
    BY <2>2, <2>4, <2>6, UpdateCalm, BookedCalm, CalmTrans
  <2>9. Calmly(lane, lane') /\ lane' \in Lane
    BY <1>1, <2>1, <2>7, <2>8, StagedCalm DEF Staged
  <2> QED BY <1>1, <2>1, <2>9, CalmStep
<1>5. CASE BeforeSendSaved
  <2>1. /\ HasTurn(lane) /\ lane.active.stage = "binding" /\ InEarly(lane)
        /\ Written(ToSet(lane.active.prompted))
        /\ lane' = [Saved(lane, ToSet(lane.active.prompted)) EXCEPT !.active.stage = "sending"]
        /\ UNCHANGED <<loop, providerVars>>
    BY <1>5 DEF BeforeSendSaved, AtStage, Stage, InEarly, Early
  <2> DEFINE p == ToSet(lane.active.prompted)
             V == Saved(lane, p)
  <2>2. p \in SUBSET Inputs /\ p \intersect lane.broken = {}
    BY <1>1, <2>1, EnvIs DEF Written
  <2>3. lane' = [V EXCEPT !.active.stage = "sending"]
    BY <2>1
  <2> HIDE DEF p
  <2>4. V \in Lane /\ V.active = lane.active /\ V.queued = lane.queued /\ V.carried = lane.carried
        /\ V.closed = lane.closed /\ V.turns = lane.turns /\ V.owner = lane.owner
        /\ V.dispatch = lane.dispatch
    BY <1>1, <2>2, BooksAre
  <2>5. Booked(lane, V)
    BY <1>1 DEF Booked, Saved, Lane
  <2> HIDE DEF V
  <2>6. Staged(V, "sending", lane') /\ Booked(V, lane')
    BY <2>1, <2>3, <2>4, StageIs, StageBooked DEF Stages, HasTurn
  <2>7. Staged(lane, "sending", lane')
    BY <2>4, <2>6 DEF Staged
  <2>8. CalmBooks(lane, lane')
    BY <2>5, <2>6, BookedCalm, CalmTrans
  <2>9. Calmly(lane, lane') /\ lane' \in Lane
    BY <1>1, <2>1, <2>2, <2>7, <2>8, StagedCalm DEF Staged, p
  <2> QED BY <1>1, <2>1, <2>9, CalmStep
<1> QED BY <1>2, <1>3, <1>4, <1>5, CalmSends, CalmFails, CalmReady, CalmAnswerSaved, CalmAnswers
        DEF TurnStep
-----------------------------------------------------------------------------
(* The callers' steps in a calm session *)

\* Interrupting the provider adds nothing to its books.
LEMMA InterruptCalm ==
  ASSUME EnvType, InterruptProvider \/ UNCHANGED providerVars, loop' = loop
  PROVE  /\ context' = context /\ Ids' \subseteq Ids
         /\ \A i \in Inputs : InFlight("queued", i)' => InFlight("queued", i)
<1>1. context' = context /\ (inbox' = <<>> \/ inbox' = inbox)
  BY DEF InterruptProvider, providerVars
<1>2. Ids' \subseteq Ids
  BY <1>1, NoIds
<1>3. stream' = stream \/ stream' = Append(stream, Terminal)
  BY DEF InterruptProvider, providerVars, Terminal
<1>4. ToSet(stream') \subseteq ToSet(stream) \union {Terminal}
  <2>1. stream \in Seq(Event) /\ Terminal \in Event
    BY DEF EnvType, Event
  <2> QED BY <1>3, <2>1, AppendIs
<1>5. \A i \in Inputs : Status("queued", i) # Terminal
  BY DEF Status, Terminal
<1>6. ASSUME NEW i \in Inputs, InFlight("queued", i)' PROVE InFlight("queued", i)
  BY <1>4, <1>5, <1>6 DEF InFlight
<1> QED BY <1>1, <1>2, <1>6

\* An explicit stop marks the turn, and no more.
LEMMA CalmStop == ASSUME Inv, Calm(lane), Stop PROVE Calm(lane)'
<1> DEFINE t == [lane.active EXCEPT !.interrupted = TRUE, !.stopped = TRUE]
<1>1. /\ lane \in Lane /\ HasTurn(lane) /\ EnvType /\ lane.active \in Turn
      /\ lane' = [lane EXCEPT !.active = t]
      /\ InterruptProvider \/ UNCHANGED providerVars
      /\ loop' = loop
  BY LaneIs DEF Inv, Shape, Stop
<1>2. /\ t \in Turn /\ t.first = lane.active.first /\ t.prompted = lane.active.prompted
      /\ t.steered = lane.active.steered /\ t.superseded = lane.active.superseded
      /\ t.stage = lane.active.stage
  BY <1>1 DEF Turn
<1> HIDE DEF t
<1>3. lane' \in Lane /\ Calmly(lane, lane')
  BY <1>1, <1>2, MarksCalm DEF InEarly
<1> QED BY <1>1, <1>3, InterruptCalm, CalmlyMoves

\* close() settles what waits and lets nothing else happen.
LEMMA CloseCalm ==
  ASSUME NEW L \in Lane, Shape(L), Calm(L)
  PROVE  Calm(CloseLane(L))
<1> DEFINE C == [L EXCEPT !.closed = TRUE]
           M == CloseLane(L)
<1>1. C \in Lane /\ C.active = L.active /\ CalmBooks(L, C) /\ C.closed
      /\ C.queued = L.queued /\ C.carried = L.carried
  BY DEF Lane, CalmBooks
<1>2. M = IF HasTurn(C) THEN Cancel(C) ELSE C
  BY <1>1 DEF CloseLane, HasTurn
<1> HIDE DEF C
<1>3. CASE ~HasTurn(C)
  <2>1. Calmly(L, C)
    BY <1>1, <1>3 DEF Calmly, CalmTurn
  <2> QED BY <1>1, <1>2, <1>3, <2>1, CalmlyKeeps
<1>4. CASE HasTurn(C)
  <2> DEFINE waiting == ToSet(C.queued) \union ToSet(C.carried)
                          \union ({C.active.pending} \ {NoInput})
             t == [C.active EXCEPT !.sealed = TRUE]
             D == [C EXCEPT !.active.sealed = TRUE, !.queued = <<>>, !.carried = <<>>]
  <2>1. waiting \in SUBSET Inputs /\ C.active \in Turn /\ "cancelled" \in States
    <3>1. ToSet(C.queued) \subseteq Inputs /\ ToSet(C.carried) \subseteq Inputs
      BY <1>1, LaneIs, InSet
    <3> QED BY <1>1, <1>4, <3>1, LaneIs DEF States, Settled
  <2>2. t \in Turn /\ t.first = C.active.first /\ t.prompted = C.active.prompted
        /\ t.superseded = C.active.superseded
    BY <2>1 DEF Turn
  <2>3. D \in Lane /\ D.active = t /\ Booked(C, D)
    <3>1. D = [C EXCEPT !.active = t, !.queued = <<>>, !.carried = <<>>]
      BY <1>1 DEF Lane
    <3> HIDE DEF t, D
    <3>2. <<>> \in Seq(Inputs)
      BY NoneIs
    <3> QED BY <1>1, <2>2, <3>1, <3>2 DEF Lane, Booked
  <2>4. M = Update(D, waiting, "cancelled")
    BY <1>2, <1>4 DEF Cancel
  <2> HIDE DEF D, t, waiting
  <2>5. Updated(D, waiting, "cancelled", M)
    BY <2>1, <2>3, <2>4, UpdateIs
  <2>6. CalmBooks(L, M)
    <3>1. CalmBooks(C, D) /\ CalmBooks(D, M)
      BY <2>1, <2>3, <2>5, BookedCalm, UpdateCalm
    <3>2. CalmBooks(C, M)
      BY <3>1, CalmTrans
    <3> QED BY <1>1, <3>2, CalmTrans
  <2>7. CalmTurn(L, M) /\ M.closed /\ M \in Lane
    <3>1. M.active = t /\ M.closed /\ M \in Lane
      BY <1>1, <2>3, <2>5 DEF Updated, Booked
    <3>2. HasTurn(L)
      BY <1>1, <1>4 DEF HasTurn
    <3> QED BY <1>1, <2>2, <3>1, <3>2 DEF CalmTurn, First
  <2>8. Calmly(L, M)
    BY <2>6, <2>7 DEF Calmly
  <2> QED BY <2>7, <2>8, CalmlyKeeps
<1> QED BY <1>3, <1>4

\* close() keeps the lane calm.
LEMMA CalmClose == ASSUME Inv, Calm(lane), Close PROVE Calm(lane)'
<1>1. /\ lane \in Lane /\ Shape(lane) /\ lane' = CloseLane(lane) /\ loop' = loop
      /\ stream' = <<>> /\ inbox' = <<>> /\ context' = context
  BY DEF Inv, Shape, Close, ProviderCloses
<1>2. Calm(lane') /\ lane' \in Lane
  BY <1>1, CloseCalm, CloseShape DEF Shape
<1>3. \A i \in Inputs : InFlight("queued", i)' => InFlight("queued", i)
  BY <1>1, NoneIs DEF InFlight
<1>4. Ids' \subseteq Ids
  BY <1>1, NoIds
<1> QED BY <1>1, <1>2, <1>3, <1>4, CalmMoves
-----------------------------------------------------------------------------
\* Accepting j: its priority is set and it is queued.
Enters(j, A) ==
  /\ A.provider = lane.provider /\ A.broken = lane.broken /\ A.answered = lane.answered
  /\ A.stopped = lane.stopped /\ A.doubtful = lane.doubtful
  /\ A.active = lane.active /\ A.closed = lane.closed /\ A.dispatch = lane.dispatch
  /\ \A i \in Inputs : /\ A.state[i] = IF i = j THEN "queued" ELSE lane.state[i]
                       /\ i # j => A.priority[i] = lane.priority[i]

\* Both ways in, to a free lane and behind a turn, are of that form.
LEMMA EntersIs ==
  ASSUME lane \in Lane, NEW j \in Inputs, NEW p \in {"next", "now"}
  PROVE  /\ Enters(j, Accepted(j, p))
         /\ Enters(j, [Accepted(j, p) EXCEPT !.queued = Append(@, j)])
         /\ Accepted(j, p).priority[j] = p
         /\ [Accepted(j, p) EXCEPT !.queued = Append(@, j)].priority[j] = p
<1>1. Enters(j, Accepted(j, p)) /\ Accepted(j, p).priority[j] = p
  BY DEF Enters, Accepted, Lane
<1> DEFINE A == Accepted(j, p)
           L == [A EXCEPT !.queued = Append(@, j)]
<1>2. A \in Lane
  BY AcceptedIs DEF AcceptedAs
<1> HIDE DEF A
<1>3. /\ L.provider = A.provider /\ L.broken = A.broken /\ L.answered = A.answered
      /\ L.stopped = A.stopped /\ L.doubtful = A.doubtful /\ L.active = A.active
      /\ L.closed = A.closed /\ L.dispatch = A.dispatch /\ L.state = A.state
      /\ L.priority = A.priority
  BY <1>2 DEF Lane
<1> HIDE DEF L
<1>4. Enters(j, L) /\ L.priority[j] = p
  BY <1>1, <1>3 DEF Enters, A
<1> QED BY <1>1, <1>4 DEF L, A

\* A new input was not stopped, not doubted, and had no priority yet.
LEMMA EntersFresh ==
  ASSUME Inv, Calm(lane), NEW j \in Inputs, lane.state[j] = "new", NEW A, Enters(j, A)
  PROVE  /\ Fresh(A) /\ j \notin lane.stopped /\ j \notin lane.doubtful
         /\ Nexts(A) => /\ Nexts(lane) /\ Single(lane) /\ Read(lane)
                        /\ Dropped(lane) /\ Doubt(lane) /\ Read(A)
<1>1. Fresh(A)
  BY DEF Calm, Fresh, Enters
<1>2. j \notin lane.stopped /\ j \notin lane.doubtful /\ lane.priority[j] = "next"
  BY DEF Calm, Fresh
<1>3. Nexts(A) => Nexts(lane)
  BY <1>2 DEF Nexts, Enters
<1>4. Nexts(A) => Read(A)
  BY <1>3 DEF Calm, Read, Enters
<1> QED BY <1>1, <1>2, <1>3, <1>4 DEF Calm

\* An input that starts a turn at once.
LEMMA CalmFirst ==
  ASSUME Inv, Calm(lane), NEW j \in Inputs, NEW p \in {"next", "now"}, lane.state[j] = "new",
         ~lane.closed, SubmitFirst(j, p), loop' = loop
  PROVE  Calm(lane)'
<1> DEFINE A == Accepted(j, p)
<1>1. lane \in Lane /\ QueueShape(lane) /\ ~HasTurn(lane) /\ lane' = Start(A, j)
      /\ UNCHANGED <<loop, providerVars>>
  BY DEF Inv, Shape, SubmitFirst
<1>2. AcceptedAs(j, A) /\ Enters(j, A)
  BY <1>1, AcceptedIs, EntersIs
<1> HIDE DEF A
<1>3. A \in Lane /\ A.queued = <<>> /\ A.carried = <<>>
  BY <1>1, <1>2 DEF AcceptedAs, QueueShape
<1>4. Started(A, j, lane') /\ lane' \in Lane
  <2>1. Started(A, j, Start(A, j))
    BY <1>3, StartIs
  <2>2. Started(A, j, lane')
    BY <1>1, <2>1
  <2> QED BY <2>2 DEF Started
<1>5. ToSet(Prompt(A, j)) = {j} /\ ToSet(Rest(A, j)) = {}
  <2>1. /\ ToSet(Prompt(A, j)) = ToSet(A.carried) \union {j} \union ToSet(Absorbed(A, j))
        /\ ToSet(Absorbed(A, j)) \subseteq ToSet(A.queued)
        /\ ToSet(Rest(A, j)) = ToSet(A.queued) \ ToSet(Absorbed(A, j))
    BY <1>3, PromptIs
  <2> QED BY <1>3, <2>1, NoneIs
<1>6. /\ lane'.priority = A.priority /\ lane'.provider = A.provider /\ lane'.broken = A.broken
      /\ lane'.answered = A.answered /\ lane'.stopped = A.stopped /\ lane'.doubtful = A.doubtful
      /\ lane'.closed = A.closed /\ lane'.dispatch = A.dispatch
      /\ \A i \in Inputs : lane'.state[i] = A.state[i]
  BY <1>2, <1>4, <1>5 DEF Started, Enters
<1>7. /\ HasTurn(lane') /\ lane'.active.prompted = Prompt(A, j) /\ lane'.active.steered = <<>>
      /\ First(lane') = j /\ lane'.active.stage = "waiting" /\ ~lane'.active.superseded
      /\ ToSet(lane'.queued) = {} /\ Live(lane') = {j}
  BY <1>4, <1>5, NoneIs DEF Started, First, Live, Ridden
<1>8. Fresh(lane')
  BY <1>2, <1>6, EntersFresh DEF Fresh
<1>9. Calm(lane')
  <2> SUFFICES ASSUME Nexts(lane')
               PROVE  Single(lane') /\ Read(lane') /\ Dropped(lane') /\ Doubt(lane')
    BY <1>8 DEF Calm
  <2>1. /\ Nexts(lane) /\ Single(lane) /\ Read(lane) /\ Dropped(lane) /\ Doubt(lane)
        /\ Read(A) /\ j \notin lane.stopped /\ j \notin lane.doubtful
    BY <1>2, <1>6, EntersFresh DEF Nexts
  <2>2. Single(lane')
    BY <1>5, <1>7 DEF Single
  <2>3. Read(lane')
    BY <1>6, <2>1 DEF Read
  <2>4. Dropped(lane')
    BY <1>2, <1>6, <1>7, <2>1 DEF Dropped, Enters
  <2>5. GivesBack(lane) /\ \A i \in lane.doubtful : Doubtable(lane, i)
    BY <2>1 DEF Doubt
  <2>6. GivesBack(lane')
    BY <1>2, <1>6, <1>7, <2>5 DEF GivesBack, Enters
  <2>7. ASSUME NEW i \in lane'.doubtful PROVE Doubtable(lane', i)
    <3>1. Doubtable(lane, i) /\ i # j /\ i \in Inputs
      BY <1>1, <1>2, <1>6, <2>1, <2>5, <2>7, LaneIs DEF Enters
    <3>2. lane'.dispatch[i] = lane.dispatch[i] /\ lane'.broken = lane.broken
      BY <1>2, <1>6 DEF Enters
    <3> QED BY <1>5, <1>7, <3>1, <3>2 DEF Doubtable
  <2> QED BY <2>2, <2>3, <2>4, <2>6, <2>7 DEF Doubt
<1> QED BY <1>1, <1>4, <1>9, CalmStill

\* An input that waits behind the turn.
LEMMA JoinedCalm ==
  ASSUME Inv, Calm(lane), NEW j \in Inputs, lane.state[j] = "new", HasTurn(lane),
         NEW L, Joined(j, L), Enters(j, L)
  PROVE  Calm(L)
<1>1. /\ lane \in Lane /\ L \in Lane /\ L.active = lane.active
      /\ L.carried = lane.carried /\ L.dispatch = lane.dispatch
  BY DEF Inv, Shape, Joined
<1>2. ToSet(L.queued) = ToSet(lane.queued) \union {j}
  <2>1. lane.queued \in Seq(Inputs) /\ L.queued = Append(lane.queued, j)
    BY <1>1, LaneIs DEF Joined
  <2> QED BY <2>1, AppendIs
<1>3. Live(L) = Live(lane) \union {j}
  BY <1>1, <1>2 DEF Live, Ridden, HasTurn
<1>4. Fresh(L) /\ j \notin lane.stopped /\ j \notin lane.doubtful
  BY EntersFresh
<1> SUFFICES ASSUME Nexts(L) PROVE Single(L) /\ Read(L) /\ Dropped(L) /\ Doubt(L)
  BY <1>4 DEF Calm
<1>5. /\ Nexts(lane) /\ Single(lane) /\ Read(lane) /\ Dropped(lane) /\ Doubt(lane) /\ Read(L)
  BY EntersFresh
<1>6. Single(L)
  BY <1>1, <1>5 DEF Single, HasTurn, First
<1>7. Dropped(L)
  BY <1>3, <1>4, <1>5 DEF Dropped, Enters
<1>8. Doubt(L)
  <2> SUFFICES ASSUME ~L.closed PROVE GivesBack(L) /\ \A i \in L.doubtful : Doubtable(L, i)
    BY DEF Doubt
  <2>1. GivesBack(lane) /\ \A i \in lane.doubtful : Doubtable(lane, i)
    BY <1>5 DEF Doubt, Enters
  <2>2. lane.dispatch[j] = "none"
    BY FreshIs
  <2>3. GivesBack(L)
    BY <1>1, <1>2, <2>1, <2>2 DEF GivesBack, Enters
  <2>4. ASSUME NEW i \in L.doubtful PROVE Doubtable(L, i)
    <3>1. Doubtable(lane, i) /\ i # j /\ i \in Inputs /\ L.broken = lane.broken
          /\ L.provider = lane.provider
      BY <1>1, <1>4, <2>1, <2>4, LaneIs DEF Enters
    <3> QED BY <1>1, <1>2, <1>3, <3>1 DEF Doubtable, HasTurn, InEarly
  <2> QED BY <2>3, <2>4
<1> QED BY <1>5, <1>6, <1>7, <1>8

\* Submitting an input of any priority.
LEMMA CalmSubmit ==
  ASSUME Inv, Calm(lane), NEW j \in Inputs, NEW p \in Priorities, Submit(j, p)
  PROVE  Calm(lane)'
<1>1. /\ lane \in Lane /\ ~lane.closed /\ lane.state[j] = "new" /\ p \in {"next", "now"}
      /\ EnvType /\ loop' = loop
      /\ SubmitFirst(j, p) \/ (p = "next" /\ SubmitNext(j)) \/ (p = "now" /\ SubmitNow(j))
  BY LaneAssumption DEF Inv, Shape, Submit
<1>2. CASE SubmitFirst(j, p)
  BY <1>1, <1>2, CalmFirst
<1>3. CASE SubmitNext(j)
  <2> DEFINE L == [Accepted(j, "next") EXCEPT !.queued = Append(@, j)]
  <2>1. Joined(j, L) /\ Enters(j, L)
    BY <1>1, JoinedIs, EntersIs
  <2>2. HasTurn(lane) /\ lane' = Flush(L) /\ UNCHANGED <<loop, providerVars>>
    BY <1>1, <1>3 DEF SubmitNext
  <2> HIDE DEF L
  <2>3. L \in Lane /\ Calm(L)
    BY <1>1, <2>1, <2>2, JoinedCalm DEF Joined
  <2>4. Calm(lane') /\ lane' \in Lane
    <3>1. MaySteer(L) => Flush(L) \in Lane
      BY <2>3, FlushIs DEF Flushed
    <3> QED BY <2>2, <2>3, <3>1, CalmFlush, FlushIs
  <2> QED BY <2>2, <2>4, CalmStill
<1>4. CASE SubmitNow(j)
  <2> DEFINE L == [Accepted(j, "now") EXCEPT !.queued = Append(@, j)]
             t == [L.active EXCEPT !.superseded = TRUE, !.sealed = TRUE, !.interrupted = TRUE]
  <2>1. Joined(j, L) /\ Enters(j, L) /\ L.priority[j] = "now"
    BY <1>1, JoinedIs, EntersIs
  <2>2. /\ HasTurn(lane)
        /\ lane' = L \/ lane' = [L EXCEPT !.active = t]
        /\ InterruptProvider \/ UNCHANGED providerVars
    BY <1>4 DEF SubmitNow
  <2> HIDE DEF L
  <2>3. L \in Lane /\ Fresh(L) /\ L.active \in Turn
    BY <1>1, <2>1, <2>2, EntersFresh, LaneIs DEF Joined, HasTurn
  <2>4. t \in Turn
    BY <2>3 DEF Turn
  <2> HIDE DEF t
  <2>5. /\ lane' \in Lane /\ lane'.priority = L.priority /\ lane'.state = L.state
        /\ lane'.stopped = L.stopped /\ lane'.doubtful = L.doubtful
    <3>1. CASE lane' = L
      BY <2>3, <3>1
    <3>2. CASE lane' = [L EXCEPT !.active = t]
      <4>1. Turned(L, t, [L EXCEPT !.active = t])
        BY <2>3, <2>4, TurnedIs
      <4>2. /\ [L EXCEPT !.active = t].priority = L.priority
            /\ [L EXCEPT !.active = t].stopped = L.stopped
            /\ [L EXCEPT !.active = t].doubtful = L.doubtful
        BY <2>3 DEF Lane
      <4> QED BY <3>2, <4>1, <4>2 DEF Turned
    <3> QED BY <2>2, <3>1, <3>2
  <2>6. ~Nexts(lane') /\ Fresh(lane')
    BY <2>1, <2>3, <2>5 DEF Nexts, Fresh
  <2>7. Calm(lane') /\ context' = context
    BY <1>1, <2>2, <2>6, InterruptCalm DEF Calm
  <2> QED BY <2>5, <2>6, <2>7, CalmMoves
<1> QED BY <1>1, <1>2, <1>3, <1>4

\* So every step of a caller keeps the lane calm.
LEMMA CalmCaller == ASSUME Inv, Calm(lane), CallerStep PROVE Calm(lane)'
BY CalmStop, CalmClose, CalmSubmit DEF CallerStep
-----------------------------------------------------------------------------
(* The dispatch's steps in a calm session *)

\* A dispatch's answer is not in the books.
LEMMA DoneBooked ==
  ASSUME NEW L \in Lane, NEW i \in Inputs, NEW d \in Dispatches
  PROVE  Booked(L, [L EXCEPT !.dispatch[i] = d])
BY DEF Booked, Lane

\* The dispatch moves, and the queue and the turn stay.
LEMMA DoneCalm ==
  ASSUME NEW L \in Lane, NEW i \in Inputs, NEW d \in Dispatches, NEW M,
         M = [L EXCEPT !.dispatch[i] = d], d # "saving",
         d = "steering" => L.dispatch[i] = "saving" /\ i \notin L.broken,
         d = "delivered" => L.closed \/ i \notin ToSet(L.queued)
  PROVE  M \in Lane /\ Calmly(L, M)
<1>1. /\ M \in Lane
      /\ M.active = L.active /\ M.queued = L.queued /\ M.carried = L.carried
      /\ M.closed = L.closed /\ M.dispatch[i] = d
      /\ \A j \in Inputs : j # i => M.dispatch[j] = L.dispatch[j]
  BY DEF Lane
<1>2. CalmBooks(L, M)
  BY DoneBooked, BookedCalm
<1>3. Live(M) = Live(L) /\ CalmTurn(L, M) /\ CalmStage(L, M)
  BY <1>1 DEF Live, Ridden, HasTurn, CalmTurn, CalmStage, First, InEarly
<1>4. ASSUME ~M.closed, NEW j \in Inputs PROVE CalmInput(L, M, j)
  <2>1. CASE j = i
    BY <1>1, <1>4, <2>1 DEF CalmInput
  <2>2. CASE j # i
    BY <1>1, <2>2 DEF CalmInput
  <2> QED BY <2>1, <2>2
<1> QED BY <1>1, <1>2, <1>3, <1>4 DEF Calmly

\* A dispatched input goes back to the head of the queue.
LEMMA RequeueCalm ==
  ASSUME NEW L \in Lane, NEW i \in Inputs, NEW d \in {"requeued", "deferred"}, NEW M,
         RequeuedAs(L, i, d, M),
         L.closed \/ i \in Live(L),
         L.dispatch[i] = "steering" \/ (L.dispatch[i] = "saving" /\ i \notin L.broken)
  PROVE  M \in Lane /\ Calmly(L, M)
<1>1. Requeued(L, i, d, M)
  BY RequeueIs DEF Dispatches
<1> DEFINE Q == [L EXCEPT !.queued = <<i>> \o @]
           U == Update(Q, {i}, "queued")
<1>2. Q \in Lane /\ Booked(L, Q)
  <2> DEFINE q == <<i>> \o L.queued
  <2>1. q \in Seq(Inputs) /\ Q = [L EXCEPT !.queued = q]
    BY LaneIs
  <2> HIDE DEF q, Q
  <2>2. Q \in Lane
    BY <2>1 DEF Lane
  <2> QED BY <2>1, <2>2 DEF Booked, Lane
<1>3. M = [U EXCEPT !.dispatch[i] = d]
  BY DEF RequeuedAs, Requeue
<1> HIDE DEF Q
<1>4. Updated(Q, {i}, "queued", U)
  BY <1>2, UpdateIs DEF States
<1> HIDE DEF U
<1>5. U \in Lane
  BY <1>4 DEF Updated
<1>6. CalmBooks(L, M)
  <2>1. CalmBooks(L, Q) /\ CalmBooks(Q, U) /\ CalmBooks(U, M)
    BY <1>2, <1>3, <1>4, <1>5, BookedCalm, UpdateCalm, DoneBooked DEF States, Dispatches
  <2> QED BY <2>1, CalmTrans
<1>7. /\ M \in Lane /\ M.active = L.active /\ M.carried = L.carried /\ M.closed = L.closed
      /\ M.dispatch[i] = d /\ \A j \in Inputs : j # i => M.dispatch[j] = L.dispatch[j]
  BY <1>1 DEF Requeued
<1>8. ToSet(M.queued) = {i} \union ToSet(L.queued)
  <2> DEFINE q == L.queued
             one == <<i>>
  <2>1. one \in Seq(Inputs) /\ ToSet(one) = {i} /\ q \in Seq(Inputs) /\ M.queued = one \o q
    BY <1>1, OneIs, LaneIs DEF Requeued
  <2> HIDE DEF q, one
  <2>2. ToSet(one \o q) = ToSet(one) \union ToSet(q)
    BY <2>1, JoinIs
  <2> QED BY <2>1, <2>2 DEF q
<1>9. CalmTurn(L, M) /\ CalmStage(L, M)
  BY <1>7 DEF CalmTurn, CalmStage, HasTurn, First, InEarly
<1>10. L.closed \/ Live(M) \subseteq Live(L)
  BY <1>7, <1>8 DEF Live, Ridden, HasTurn
<1>11. ASSUME NEW j \in Inputs PROVE CalmInput(L, M, j)
  <2>1. CASE j = i
    BY <1>7, <1>8, <2>1 DEF CalmInput
  <2>2. CASE j # i
    BY <1>7, <1>8, <2>2 DEF CalmInput
  <2> QED BY <2>1, <2>2
<1> QED BY <1>6, <1>7, <1>9, <1>10, <1>11 DEF Calmly

\* Of an open lane's dispatches, one whose input is not consumed is the last
\* that the running turn steered.
LEMMA DispatchedIs ==
  ASSUME Inv, NEW i \in Inputs, lane.dispatch[i] # "none", ~lane.closed,
         lane.dispatch[i] = "delivered" => lane.state[i] # "consumed"
  PROVE  /\ HasTurn(lane) /\ i = lane.active.last /\ i \in ToSet(lane.active.steered)
         /\ lane.active.stage = "running" /\ i \notin ToSet(lane.active.prompted)
         /\ i \in Live(lane)
<1>1. TurnShape(lane) /\ DispatchShape(lane)
  BY DEF Inv, Shape
<1>2. HasTurn(lane) /\ i = lane.active.last
  BY <1>1 DEF DispatchShape
<1>3. i \in ToSet(lane.active.steered)
  BY <1>1, <1>2, LaneAssumption DEF TurnShape
<1>4. lane.active.steered # <<>>
  BY <1>3, NoneIs
<1> QED BY <1>1, <1>2, <1>3, <1>4 DEF TurnShape, Live, Ridden

\* The dispatch's write is done.
LEMMA CalmDispatchSaved ==
  ASSUME Inv, Calm(lane), NEW i \in Inputs, DispatchSaved(i)
  PROVE  Calm(lane)'
<1> DEFINE L == Saved(lane, {i})
<1>1. lane \in Lane /\ lane.dispatch[i] = "saving" /\ i \notin lane.broken
      /\ UNCHANGED <<loop, providerVars>>
  BY DEF Inv, Shape, DispatchSaved, Written
<1>2. /\ L \in Lane /\ L.active = lane.active /\ L.queued = lane.queued
      /\ L.carried = lane.carried /\ L.closed = lane.closed /\ L.dispatch = lane.dispatch
  BY <1>1, BooksAre
<1>3. Booked(lane, L)
  BY <1>1 DEF Booked, Saved, Lane
<1>4. \/ lane' = [L EXCEPT !.dispatch[i] = "steering"] \/ lane' = [L EXCEPT !.dispatch[i] = "none"]
      \/ RequeuedAs(L, i, "requeued", lane')
  BY DEF DispatchSaved, Done, RequeuedAs
<1> HIDE DEF L
<1>5. Live(L) = Live(lane) /\ L.broken = lane.broken
  <2>1. L.broken = lane.broken
    BY DEF L, Saved
  <2> QED BY <1>2, <2>1 DEF Live, Ridden, HasTurn
<1>6. Calm(L)
  <2>1. CalmTurn(lane, L) /\ CalmStage(lane, L) /\ \A j \in Inputs : CalmInput(lane, L, j)
    BY <1>2 DEF CalmTurn, CalmStage, CalmInput, HasTurn, First, InEarly
  <2>2. Calmly(lane, L)
    BY <1>3, <1>5, <2>1, BookedCalm DEF Calmly
  <2> QED BY <1>1, <1>2, <2>2, CalmlyKeeps
<1>7. lane.closed \/ i \in Live(lane)
  BY <1>1, DispatchedIs
<1>8. lane' \in Lane /\ Calmly(L, lane')
  <2>1. CASE lane' = [L EXCEPT !.dispatch[i] = "steering"]
    BY <1>1, <1>2, <1>5, <2>1, DoneCalm DEF Dispatches
  <2>2. CASE lane' = [L EXCEPT !.dispatch[i] = "none"]
    BY <1>2, <2>2, DoneCalm DEF Dispatches
  <2>3. CASE RequeuedAs(L, i, "requeued", lane')
    BY <1>1, <1>2, <1>5, <1>7, <2>3, RequeueCalm
  <2> QED BY <1>4, <2>1, <2>2, <2>3
<1>9. Calm(lane')
  BY <1>2, <1>6, <1>8, CalmlyKeeps
<1> QED BY <1>1, <1>8, <1>9, CalmStill
-----------------------------------------------------------------------------
\* update() keeps a lane calm, if what it calls consumed was read.
LEMMA UpdatedCalm ==
  ASSUME NEW L \in Lane, Calm(L), NEW S, NEW st \in States \ {"new", "unknown"}, NEW U,
         Updated(L, S, st, U),
         st = "consumed" /\ Nexts(L) => S \subseteq ToSet(context) \union L.answered
  PROVE  U \in Lane /\ Calm(U)
<1>1. CalmBooks(L, U)
  BY UpdateCalm
<1>2. /\ U \in Lane /\ U.active = L.active /\ U.queued = L.queued /\ U.carried = L.carried
      /\ U.dispatch = L.dispatch
  BY DEF Updated
<1>3. Live(U) = Live(L) /\ CalmTurn(L, U) /\ CalmStage(L, U)
      /\ \A j \in Inputs : CalmInput(L, U, j)
  BY <1>2 DEF Live, Ridden, CalmTurn, CalmStage, CalmInput, HasTurn, First, InEarly
<1>4. Calmly(L, U)
  BY <1>1, <1>3 DEF Calmly
<1> QED BY <1>2, <1>4, CalmlyKeeps

\* The provider takes a steer.
LEMMA CalmDelivered ==
  ASSUME Inv, Calm(lane), NEW i \in Inputs, SteerDelivered(i)
  PROVE  Calm(lane)'
<1>1. /\ lane \in Lane /\ EnvType /\ DispatchShape(lane) /\ NativeInv(lane)
      /\ lane.dispatch[i] = "steering" /\ open
      /\ lane' = [lane EXCEPT !.dispatch[i] = "delivered"]
  BY DEF Inv, Shape, Env, SteerDelivered
<1>2. i \notin ToSet(lane.queued) /\ ~lane.closed
  BY <1>1 DEF DispatchShape, NativeInv
<1>3. lane' \in Lane /\ Calmly(lane, lane')
  BY <1>1, <1>2, DoneCalm DEF Dispatches
<1>4. Calm(lane')
  BY <1>1, <1>3, CalmlyKeeps
<1>5. ASSUME Nexts(lane') PROVE i \notin lane'.doubtful
  <2>1. Nexts(lane) /\ lane'.doubtful = lane.doubtful
    BY <1>3, <1>5 DEF Calmly, CalmBooks, Nexts
  <2>2. \A j \in lane.doubtful : lane.dispatch[j] # "steering"
    BY <1>2, <2>1 DEF Calm, Doubt, Doubtable
  <2> QED BY <1>1, <2>1, <2>2
<1>6. Ids' \subseteq Ids \union {i}
  <2> DEFINE m == [id |-> i, parts |-> <<i>>]
  <2>1. inbox' = Append(inbox, m) /\ inbox \in Seq(Message) /\ m \in Message /\ m.id = i
    BY <1>1, OneIs DEF SteerDelivered, EnvType, Message
  <2> HIDE DEF m
  <2>2. Len(inbox') = Len(inbox) + 1 /\ Len(inbox) \in Nat /\ inbox'[Len(inbox) + 1] = m
        /\ \A k \in 1..Len(inbox) : inbox'[k] = inbox[k]
    BY <2>1
  <2>3. \A k \in 1..Len(inbox') : inbox'[k].id \in Ids \union {i}
    BY <2>1, <2>2 DEF Ids
  <2> QED BY <2>3 DEF Ids
<1>7. context' = context /\ stream' = stream /\ loop' = loop
  BY DEF SteerDelivered
<1>8. \A j : InFlight("queued", j)' <=> InFlight("queued", j)
  BY <1>7 DEF InFlight
<1> QED BY <1>3, <1>4, <1>5, <1>6, <1>7, <1>8, CalmMoves

\* The provider defers a steer, which goes back to the head of the queue.
LEMMA CalmDeferred ==
  ASSUME Inv, Calm(lane), NEW i \in Inputs, SteerDeferred(i)
  PROVE  Calm(lane)'
<1>1. lane \in Lane /\ lane.dispatch[i] = "steering" /\ UNCHANGED <<loop, providerVars>>
  BY DEF Inv, Shape, SteerDeferred
<1>2. CASE lane.state[i] \in {"consumed", "cancelled", "queued"}
  <2>1. lane' = [lane EXCEPT !.dispatch[i] = "none"]
    BY <1>2 DEF SteerDeferred, Done
  <2>2. lane' \in Lane /\ Calmly(lane, lane')
    BY <1>1, <2>1, DoneCalm DEF Dispatches
  <2> QED BY <1>1, <2>2, CalmStep
<1>3. CASE lane.state[i] \notin {"consumed", "cancelled", "queued"}
  <2> DEFINE L == SealOwn(lane, i)
             t == [lane.active EXCEPT !.sealed = TRUE, !.pending = NoInput]
  <2>1. RequeuedAs(L, i, "deferred", lane')
    BY <1>3 DEF SteerDeferred, RequeuedAs
  <2>2. /\ L \in Lane /\ Calmly(lane, L) /\ Live(L) = Live(lane)
        /\ L.closed = lane.closed /\ L.dispatch = lane.dispatch
    <3>1. CASE OwnTurn(i)
      <4>1. HasTurn(lane) /\ lane.active \in Turn /\ L = [lane EXCEPT !.active = t]
        BY <1>1, <3>1, LaneIs DEF OwnTurn, SealOwn
      <4>2. /\ t \in Turn /\ t.first = lane.active.first /\ t.prompted = lane.active.prompted
            /\ t.steered = lane.active.steered /\ t.superseded = lane.active.superseded
            /\ t.stage = lane.active.stage
        BY <4>1 DEF Turn
      <4> HIDE DEF t
      <4>3. Turned(lane, t, [lane EXCEPT !.active = t])
        BY <1>1, <4>2, TurnedIs
      <4>4. Turned(lane, t, L)
        BY <4>1, <4>3
      <4> HIDE DEF L
      <4>5. L \in Lane /\ Calmly(lane, L)
        BY <1>1, <4>1, <4>2, MarksCalm DEF InEarly
      <4>6. Live(L) = Live(lane)
        BY <4>1, <4>2, <4>4 DEF Turned, Live, Ridden
      <4> QED BY <4>4, <4>5, <4>6 DEF Turned
    <3>2. CASE ~OwnTurn(i)
      <4>1. L = lane
        BY <3>2 DEF SealOwn
      <4> HIDE DEF L
      <4>2. Calmly(lane, lane)
        BY DEF Calmly, CalmBooks, CalmTurn, CalmStage, CalmInput
      <4> QED BY <1>1, <4>1, <4>2
    <3> QED BY <3>1, <3>2
  <2> HIDE DEF L
  <2>3. lane.closed \/ i \in Live(lane)
    BY <1>1, DispatchedIs
  <2>4. lane' \in Lane /\ Calmly(L, lane')
    BY <1>1, <2>1, <2>2, <2>3, RequeueCalm
  <2>5. Calm(lane')
    BY <1>1, <2>2, <2>4, CalmlyKeeps
  <2> QED BY <1>1, <2>4, <2>5, CalmStill
<1> QED BY <1>2, <1>3

\* The dispatch writes that the provider accepted the steer.
LEMMA CalmAccepted ==
  ASSUME Inv, Calm(lane), NEW i \in Inputs, SteerAccepted(i)
  PROVE  Calm(lane)'
<1>1. lane \in Lane /\ lane.dispatch[i] = "delivered" /\ UNCHANGED <<loop, providerVars>>
  BY DEF Inv, Shape, SteerAccepted
<1>2. CASE lane.state[i] \in {"consumed", "cancelled", "queued"}
  <2>1. lane' = [lane EXCEPT !.dispatch[i] = "none"]
    BY <1>2 DEF SteerAccepted, Done
  <2>2. lane' \in Lane /\ Calmly(lane, lane')
    BY <1>1, <2>1, DoneCalm DEF Dispatches
  <2> QED BY <1>1, <2>2, CalmStep
<1>3. CASE lane.state[i] \notin {"consumed", "cancelled", "queued"}
  <2> DEFINE U == Update(lane, {i}, "accepted")
  <2>1. Updated(lane, {i}, "accepted", U)
    BY <1>1, UpdateIs DEF States
  <2>2. lane' = [U EXCEPT !.dispatch[i] = "none"]
    BY <1>3 DEF SteerAccepted, Done
  <2> HIDE DEF U
  <2>3. U \in Lane
    BY <2>1 DEF Updated
  <2>4. Calm(U)
    BY <1>1, <2>1, <2>3, UpdatedCalm DEF States
  <2>5. lane' \in Lane /\ Calmly(U, lane')
    BY <2>2, <2>3, DoneCalm DEF Dispatches
  <2>6. Calm(lane')
    BY <2>3, <2>4, <2>5, CalmlyKeeps
  <2> QED BY <1>1, <2>5, <2>6, CalmStill
<1> QED BY <1>2, <1>3
-----------------------------------------------------------------------------
\* The status becomes unknown of an input that is not on its way.
LEMMA DoubtsCalm ==
  ASSUME NEW L \in Lane, Calm(L), NEW i \in Inputs, NEW U, Updated(L, {i}, "unknown", U),
         L.state[i] # "new", Nexts(L) /\ ~L.closed => Doubtable(L, i)
  PROVE  U \in Lane /\ Calm(U)
<1>1. /\ U \in Lane /\ U.active = L.active /\ U.queued = L.queued /\ U.carried = L.carried
      /\ U.closed = L.closed /\ U.priority = L.priority /\ U.dispatch = L.dispatch
      /\ U.broken = L.broken /\ U.answered = L.answered /\ U.stopped = L.stopped
      /\ U.provider = L.provider /\ U.doubtful = L.doubtful \union {i}
      /\ \A j \in Inputs : U.state[j] = IF j = i THEN "unknown" ELSE L.state[j]
  BY DEF Updated
<1>2. Fresh(U)
  BY <1>1 DEF Calm, Fresh
<1> SUFFICES ASSUME Nexts(U) PROVE Single(U) /\ Read(U) /\ Dropped(U) /\ Doubt(U)
  BY <1>1, <1>2 DEF Calm
<1>3. Nexts(L) /\ Single(L) /\ Read(L) /\ Dropped(L) /\ Doubt(L)
  BY <1>1 DEF Nexts, Calm
<1>4. Live(U) = Live(L)
  BY <1>1 DEF Live, Ridden, HasTurn
<1>5. Single(U) /\ Read(U) /\ Dropped(U)
  BY <1>1, <1>3, <1>4 DEF Single, Read, Dropped, HasTurn, First
<1>6. Doubt(U)
  <2> SUFFICES ASSUME ~U.closed PROVE GivesBack(U) /\ \A j \in U.doubtful : Doubtable(U, j)
    BY DEF Doubt
  <2>1. GivesBack(L) /\ \A j \in L.doubtful \union {i} : Doubtable(L, j)
    BY <1>1, <1>3 DEF Doubt
  <2>2. GivesBack(U)
    BY <1>1, <2>1 DEF GivesBack
  <2>3. ASSUME NEW j \in U.doubtful PROVE Doubtable(U, j)
    <3>1. Doubtable(L, j)
      BY <1>1, <2>1
    <3> QED BY <1>1, <1>4, <3>1 DEF Doubtable, HasTurn, InEarly
  <2> QED BY <2>2, <2>3
<1> QED BY <1>5, <1>6

\* The dispatch finds the turn gone and gives its input back.
LEMMA CalmRequeued ==
  ASSUME Inv, Calm(lane), NEW i \in Inputs, DispatchRequeued(i)
  PROVE  Calm(lane)'
<1> DEFINE D == Done(lane, i)
<1>1. lane \in Lane /\ DispatchShape(lane) /\ UNCHANGED <<loop, providerVars>>
  BY DEF Inv, Shape, DispatchRequeued
<1>2. D \in Lane /\ D.active = lane.active /\ D.closed = lane.closed /\ Calmly(lane, D)
  <2>1. D = [lane EXCEPT !.dispatch[i] = "none"]
    BY DEF Done
  <2>2. D \in Lane /\ Calmly(lane, D)
    BY <1>1, <2>1, DoneCalm DEF Dispatches
  <2> QED BY <1>1, <2>1, <2>2, DoneIs DEF Dispatches
<1>3. lane.dispatch[i] \in {"requeued", "deferred"} /\ (lane' = D \/ lane' = StartNext(D))
  BY DEF DispatchRequeued
<1> HIDE DEF D
<1>4. HasTurn(D) \/ D.closed
  BY <1>1, <1>2, <1>3 DEF DispatchShape, HasTurn
<1>5. lane' = D
  BY <1>2, <1>3, <1>4, StartNextIs
<1> QED BY <1>1, <1>2, <1>5, CalmStep

\* When the call to the provider fails, its input is neither queued nor
\* on its way back, so it may be doubted.
LEMMA CalmCallFails ==
  ASSUME Inv, Calm(lane), NEW i \in Inputs, Nexts(lane), ~lane.closed, CallFails(i),
         lane.state[i] \notin {"consumed", "cancelled"}
  PROVE  /\ i \notin ToSet(lane.queued) /\ ~InFlight("queued", i)
         /\ i \in Ids \intersect Live(lane) => lane.provider = "remote"
<1>1. /\ lane \in Lane /\ DispatchShape(lane) /\ EventInv(lane) /\ ContextInv(lane)
      /\ GivesBack(lane)
  BY DEF Inv, Shape, Env, Calm, Doubt
<1>2. lane.provider \in {"local", "remote"}
  BY <1>1 DEF Lane
<1>3. CASE lane.dispatch[i] = "steering"
  <2>1. i \notin ToSet(lane.queued) /\ ~InFlight("queued", i)
    BY <1>1, <1>3 DEF DispatchShape, EventInv
  <2>2. i \notin Ids
    BY <1>1, <1>3 DEF ContextInv
  <2> QED BY <2>1, <2>2
<1>4. CASE lane.dispatch[i] # "steering"
  <2>1. lane.dispatch[i] = "delivered" /\ lane.provider = "remote"
    BY <1>2, <1>4 DEF CallFails, Retains
  <2> QED BY <1>1, <2>1 DEF GivesBack
<1> QED BY <1>3, <1>4

\* A dispatch that fails, in its write or in its call.
LEMMA CalmDispatchFails ==
  ASSUME Inv, Calm(lane), NEW i \in Inputs, DispatchFails(i)
  PROVE  Calm(lane)'
<1> DEFINE B == IF CallFails(i) THEN lane ELSE Broken(lane, {i})
           L == Done(B, i)
<1>1. lane \in Lane /\ DispatchShape(lane) /\ UNCHANGED <<loop, providerVars>>
      /\ lane.dispatch[i] # "none"
  BY DEF Inv, Shape, DispatchFails, CallFails, DispatchWriteFails
<1>2. /\ B \in Lane /\ Calm(B) /\ B.state = lane.state /\ B.active = lane.active
      /\ B.queued = lane.queued /\ B.carried = lane.carried /\ B.closed = lane.closed
      /\ B.dispatch = lane.dispatch
  <2>1. CASE CallFails(i)
    BY <1>1, <2>1
  <2>2. CASE ~CallFails(i)
    BY <1>1, <2>2, BrokenCalm, BooksAre
  <2> QED BY <2>1, <2>2
<1>3. B.priority = lane.priority /\ B.provider = lane.provider
      /\ (CallFails(i) \/ i \in B.broken)
  BY <1>1 DEF Broken, Lane
<1>4. lane' = IF lane.state[i] \in {"consumed", "cancelled"} THEN L
              ELSE Update(L, {i}, "unknown")
  BY DEF DispatchFails
<1> HIDE DEF B
<1>5. L = [B EXCEPT !.dispatch[i] = "none"]
  BY DEF Done
<1> HIDE DEF L
<1>6. /\ L \in Lane /\ Calm(L) /\ L.state = lane.state /\ L.active = lane.active
      /\ L.queued = lane.queued /\ L.carried = lane.carried /\ L.closed = lane.closed
      /\ L.dispatch[i] = "none"
  <2>1. L \in Lane /\ Calmly(B, L)
    BY <1>2, <1>5, DoneCalm DEF Dispatches
  <2>2. Calm(L)
    BY <1>2, <2>1, CalmlyKeeps
  <2> QED BY <1>2, <1>5, <2>1, <2>2, DoneIs DEF Dispatches
<1>7. L.priority = lane.priority /\ L.provider = lane.provider
      /\ (CallFails(i) \/ i \in L.broken)
  BY <1>2, <1>3, <1>5, DoneBooked DEF Booked, Dispatches
<1>8. CASE lane.state[i] \in {"consumed", "cancelled"}
  BY <1>1, <1>4, <1>6, <1>8, CalmStill
<1>9. CASE lane.state[i] \notin {"consumed", "cancelled"}
  <2>1. Updated(L, {i}, "unknown", lane')
    BY <1>4, <1>6, <1>9, UpdateIs DEF States, Settled
  <2>2. L.state[i] # "new"
    BY <1>1, <1>6 DEF DispatchShape
  <2>3. ASSUME Nexts(L), ~L.closed PROVE Doubtable(L, i)
    <3>1. /\ HasTurn(lane) /\ lane.active.stage = "running" /\ i \notin ToSet(lane.active.prompted)
          /\ Nexts(lane) /\ ~lane.closed
      BY <1>1, <1>6, <1>7, <1>9, <2>3, DispatchedIs DEF Nexts
    <3>2. ASSUME i \notin L.broken
          PROVE  /\ i \notin ToSet(L.queued) /\ ~InFlight("queued", i)
                 /\ i \in Ids \intersect Live(L) => L.provider = "remote"
      <4>1. CallFails(i)
        BY <1>7, <3>2
      <4>2. Live(L) = Live(lane)
        BY <1>6 DEF Live, Ridden, HasTurn
      <4> QED BY <1>6, <1>7, <1>9, <3>1, <4>1, <4>2, CalmCallFails
    <3> QED BY <1>6, <3>1, <3>2 DEF Doubtable, HasTurn, InEarly
  <2>4. lane' \in Lane /\ Calm(lane')
    BY <1>6, <2>1, <2>2, <2>3, DoubtsCalm
  <2> QED BY <1>1, <2>4, CalmStill
<1> QED BY <1>8, <1>9

\* So every step of a dispatch keeps the lane calm.
LEMMA CalmDispatch ==
  ASSUME Inv, Calm(lane), NEW i \in Inputs, DispatchStep(i)
  PROVE  Calm(lane)'
BY CalmDispatchSaved, CalmRequeued, CalmDelivered, CalmDeferred, CalmAccepted, CalmDispatchFails
   DEF DispatchStep
-----------------------------------------------------------------------------
(* The events loop's steps in a calm session *)

\* The loop takes an event.
LEMMA CalmTake == ASSUME Inv, Calm(lane), TakeEvent PROVE Calm(lane)'
<1>1. /\ lane \in Lane /\ EnvType /\ NativeInv(lane) /\ EventInv(lane)
  BY DEF Inv, Env, Shape
<1>2. PICK ev : ev = Head(stream)
  OBVIOUS
<1>3. stream # <<>> /\ HasTurn(lane) /\ stream' = Tail(stream)
      /\ UNCHANGED <<inbox, context>>
  BY DEF TakeEvent, Current
<1>4. ev \in Event /\ ToSet(stream) = {ev} \union ToSet(stream')
  <2> DEFINE s == stream
  <2>1. s \in Seq(Event) /\ s # <<>> /\ ev = Head(s) /\ stream' = Tail(s)
    BY <1>1, <1>2, <1>3 DEF EnvType
  <2> HIDE DEF s
  <2>2. Head(s) \in Event /\ ToSet(s) = {Head(s)} \union ToSet(Tail(s))
    BY <2>1, TailIs
  <2> QED BY <2>1, <2>2 DEF s
<1>5. Ids' \subseteq Ids
  BY <1>3, NoIds
<1>6. CASE ev.kind = "terminal"
  <2> DEFINE t == [lane.active EXCEPT !.sealed = TRUE]
  <2>1. lane' = [lane EXCEPT !.active.sealed = TRUE] /\ loop' = [pc |-> "sealing", turn |-> lane.active.id]
    BY <1>2, <1>6 DEF TakeEvent
  <2>2. lane' = [lane EXCEPT !.active = t] /\ lane.active \in Turn
    BY <1>1, <1>3, <2>1, LaneIs DEF Lane
  <2>3. /\ t \in Turn /\ t.first = lane.active.first /\ t.prompted = lane.active.prompted
        /\ t.steered = lane.active.steered /\ t.superseded = lane.active.superseded
        /\ t.stage = lane.active.stage
    BY <2>2 DEF Turn
  <2> HIDE DEF t
  <2>4. lane' \in Lane /\ Calmly(lane, lane')
    BY <1>1, <1>3, <2>2, <2>3, MarksCalm DEF InEarly
  <2>5. \A i \in Inputs : InFlight("queued", i)' => InFlight("queued", i)
    BY <1>4, <2>1 DEF InFlight
  <2> QED BY <1>1, <1>3, <1>5, <2>4, <2>5, CalmlyMoves
<1>7. CASE ev.kind # "terminal"
  <2>1. PICK kind \in {"consumed", "queued"}, i \in Inputs : ev = Status(kind, i)
    BY <1>4, <1>7 DEF Event, Terminal
  <2>2. ev.kind = kind /\ ev.input = i
    BY <2>1 DEF Status
  <2>3. lane' = Update(lane, {i}, kind) /\ loop' = [pc |-> "observing", turn |-> lane.active.id, event |-> ev]
    BY <1>2, <1>7, <2>2 DEF TakeEvent
  <2>4. InFlight(kind, i)
    BY <1>4, <2>1 DEF InFlight
  <2>5. kind = "consumed" => i \in ToSet(context)
    BY <1>1, <2>4 DEF EventInv
  <2>6. Updated(lane, {i}, kind, lane')
    BY <1>1, <2>1, <2>3, UpdateIs DEF States, Settled
  <2>7. lane' \in Lane /\ Calm(lane')
    BY <1>1, <2>1, <2>5, <2>6, UpdatedCalm DEF States, Settled
  <2>8. \A j \in Inputs : InFlight("queued", j)' => InFlight("queued", j)
    BY <1>4, <2>3 DEF InFlight
  <2> QED BY <1>3, <1>5, <2>7, <2>8, CalmMoves
<1> QED BY <1>6, <1>7

\* The loop has written the status the event brought.
LEMMA CalmObserve == ASSUME Inv, Calm(lane), ObserveSaved PROVE Calm(lane)'
<1>1. /\ Shape(lane) /\ EnvType /\ Env(lane) /\ NativeInv(lane) /\ EventInv(lane) /\ TurnShape(lane)
      /\ lane \in Lane /\ lane.active \in Turn \union {NoTurn}
  BY DEF Inv, Env, Shape, Lane
<1>2. loop.pc = "observing" /\ loop' = Idle /\ UNCHANGED providerVars
  BY DEF ObserveSaved
<1>3. HasTurn(lane) /\ loop.turn = lane.active.id /\ lane.active \in Turn
  BY <1>1, <1>2, ObservingIs DEF HasTurn
<1>4. PICK kind \in {"consumed", "queued"}, i \in Inputs :
        loop.event = Status(kind, i) /\ loop.event.kind = kind /\ loop.event.input = i
        /\ InFlight(kind, i)
  BY <1>1, <1>2, ObservingIs
<1>5. lane' = Observed(lane, i, kind)
  BY <1>3, <1>4 DEF ObserveSaved
<1> SUFFICES Calm(lane') /\ lane' \in Lane
  <2>1. \A j : (InFlight("queued", j)' => InFlight("queued", j)) /\ Ids' = Ids /\ context' = context
    BY <1>2 DEF InFlight, Ids, providerVars, Idle
  <2> QED BY <2>1, CalmMoves
<1>6. CASE kind = "queued"
  <2>1. PICK t, q : t = SealedTurn(i) /\ q = WithHead(i)
    OBVIOUS
  <2>2. lane' = [lane EXCEPT !.active = t, !.queued = q]
    <3> DEFINE seen == [lane EXCEPT
              !.active = [lane.active EXCEPT !.sealed = TRUE,
                                             !.pending = IF @ = i THEN NoInput ELSE @],
              !.queued = IF i \in ToSet(@) THEN @ ELSE <<i>> \o @]
    <3>1. lane' = seen
      BY <1>5, <1>6 DEF Observed
    <3> QED BY <2>1, <3>1 DEF SealedTurn, WithHead
  <2>3. /\ t \in Turn /\ t.first = lane.active.first /\ t.prompted = lane.active.prompted
        /\ t.steered = lane.active.steered /\ t.superseded = lane.active.superseded
        /\ t.stage = lane.active.stage
    BY <1>3, <2>1 DEF Turn, SealedTurn
  <2>4. q \in Seq(Inputs) /\ ToSet(q) = ToSet(lane.queued) \union {i}
    <3> DEFINE one == <<i>>
               u == lane.queued
    <3>1. one \in Seq(Inputs) /\ ToSet(one) = {i} /\ u \in Seq(Inputs)
          /\ ((q = u /\ i \in ToSet(u)) \/ q = one \o u)
      BY <1>1, <2>1, OneIs, LaneIs DEF WithHead
    <3> HIDE DEF one, u
    <3>2. one \o u \in Seq(Inputs) /\ ToSet(one \o u) = ToSet(one) \union ToSet(u)
      BY <3>1, JoinIs
    <3> QED BY <3>1, <3>2 DEF u
  <2> DEFINE M == [lane EXCEPT !.active = t, !.queued = q]
  <2>5. /\ M \in Lane /\ M.active = t /\ M.queued = q /\ M.carried = lane.carried
        /\ M.dispatch = lane.dispatch /\ M.closed = lane.closed /\ Booked(lane, M)
    BY <1>1, <2>3, <2>4 DEF Lane, Booked
  <2>6. M = lane'
    BY <2>2
  <2> HIDE DEF M
  <2>7. i \in ToSet(lane.active.steered)
    BY <1>1, <1>3, <1>4, <1>6, LaneAssumption DEF EventInv, TurnShape
  <2>8. Live(M) \subseteq Live(lane)
    BY <1>3, <2>3, <2>4, <2>5, <2>7 DEF Live, Ridden
  <2>9. CalmTurn(lane, M) /\ CalmStage(lane, M)
    BY <1>3, <2>3, <2>5 DEF CalmTurn, CalmStage, First, InEarly
  <2>10. ASSUME NEW j \in Inputs PROVE CalmInput(lane, M, j)
    BY <1>4, <1>6, <2>4, <2>5 DEF CalmInput
  <2>11. Calmly(lane, M)
    BY <2>5, <2>8, <2>9, <2>10, BookedCalm DEF Calmly
  <2>12. Calm(M)
    BY <1>1, <2>5, <2>11, CalmlyKeeps
  <2> QED BY <2>5, <2>6, <2>12
<1>7. CASE kind = "consumed"
  <2> DEFINE t == [lane.active EXCEPT !.pending = NoInput]
             M == [lane EXCEPT !.active = t]
             seen == IF lane.active.pending = i THEN Flush(M) ELSE lane
  <2>1. lane' = IF i = First(lane) THEN Update(seen, Bound(lane), "consumed") ELSE seen
    <3>1. M = [lane EXCEPT !.active.pending = NoInput]
      BY <1>1 DEF Lane
    <3> QED BY <1>5, <1>7, <3>1 DEF Observed
  <2>2. seen \in Lane /\ Calm(seen) /\ Nexts(seen) = Nexts(lane)
    <3>1. CASE lane.active.pending # i
      BY <1>1, <3>1
    <3>2. CASE lane.active.pending = i
      <4>1. /\ t \in Turn /\ t.first = lane.active.first /\ t.prompted = lane.active.prompted
            /\ t.steered = lane.active.steered /\ t.superseded = lane.active.superseded
            /\ t.stage = lane.active.stage
        BY <1>3 DEF Turn
      <4> HIDE DEF t
      <4>2. M \in Lane /\ Calmly(lane, M)
        BY <1>1, <1>3, <4>1, MarksCalm DEF InEarly
      <4> HIDE DEF M
      <4>3. Calm(M) /\ Nexts(M) = Nexts(lane)
        BY <1>1, <4>2, CalmlyKeeps DEF Calmly, CalmBooks, Nexts
      <4>4. Flush(M) \in Lane /\ Nexts(Flush(M)) = Nexts(M)
        BY <4>2, FlushIs DEF Flushed, Nexts
      <4> QED BY <3>2, <4>2, <4>3, <4>4, CalmFlush
    <3> QED BY <3>1, <3>2
  <2> HIDE DEF seen
  <2>3. Bound(lane) \subseteq Inputs /\ (Nexts(lane) => Bound(lane) = {})
    BY <1>1, <1>3, EnvIs DEF Bound, Calm, Single
  <2>4. Updated(seen, Bound(lane), "consumed", Update(seen, Bound(lane), "consumed"))
    BY <2>2, <2>3, UpdateIs DEF States, Settled
  <2>5. Update(seen, Bound(lane), "consumed") \in Lane /\ Calm(Update(seen, Bound(lane), "consumed"))
    BY <2>2, <2>3, <2>4, UpdatedCalm DEF States, Settled
  <2> QED BY <2>1, <2>2, <2>5
<1> QED BY <1>6, <1>7
-----------------------------------------------------------------------------
\* So every step of the loop keeps the lane calm.
LEMMA CalmLoop == ASSUME Inv, Calm(lane), LoopStep PROVE Calm(lane)'
<1>1. /\ Shape(lane) /\ lane \in Lane /\ EnvType /\ Env(lane) /\ NativeInv(lane)
      /\ DispatchShape(lane)
  BY DEF Inv, Shape, Env
<1>2. CASE LoopFinishes
  <2>1. loop.pc = "sealing" /\ loop # Idle /\ loop' = Idle /\ UNCHANGED providerVars
    BY <1>2 DEF LoopFinishes, Idle
  <2>2. HasTurn(lane) /\ lane.active.id = loop.turn /\ stream = <<>>
    BY <1>1, <2>1 DEF NativeInv, InNative
  <2>3. /\ lane.active.last # NoInput => lane.dispatch[lane.active.last] = "none"
        /\ lane' = Finish(lane)
    BY <1>2, <2>2 DEF LoopFinishes
  <2>4. lane.closed \/ Quiet(lane)
    BY <1>1, <2>3, LaneAssumption DEF DispatchShape, Quiet
  <2>5. \A i \in Inputs : ~InFlight("queued", i)
    BY <2>1, <2>2, NoneIs DEF InFlight
  <2>6. /\ \A i \in Inputs : InFlight("queued", i)' => InFlight("queued", i)
        /\ ToSet(context) \subseteq ToSet(context') /\ Ids' \subseteq Ids
    BY <2>1, NoIds DEF InFlight, providerVars, Idle
  <2> QED BY <1>1, <2>2, <2>3, <2>4, <2>5, <2>6, CalmEnds
<1>3. CASE LoopEnds
  <2> DEFINE B == IF loop.pc = "observing" THEN Broken(lane, {loop.event.input}) ELSE lane
             L == CloseLane(B)
  <2>1. /\ lane' = IF Current THEN Finish(L) ELSE L
        /\ loop' = Idle /\ stream' = <<>> /\ inbox' = <<>> /\ context' = context
    BY <1>3 DEF LoopEnds, ProviderCloses
  <2>2. Shape(B) /\ B \in Lane /\ B.active = lane.active /\ Calm(B)
    <3>1. CASE loop.pc = "observing"
      <4>1. loop.event.input \in Inputs
        BY <1>1, <3>1 DEF EnvType, Loops, Idle, Event, Terminal, Status
      <4> QED BY <1>1, <3>1, <4>1, BrokenInv, BrokenCalm
    <3>2. CASE loop.pc # "observing"
      BY <1>1, <3>2
    <3> QED BY <3>1, <3>2
  <2> HIDE DEF B
  <2>3. Shape(L) /\ L \in Lane /\ L.closed /\ (HasTurn(L) <=> HasTurn(B)) /\ Calm(L)
    BY <2>2, CloseShape, CloseCalm DEF Shape
  <2> HIDE DEF L
  <2>4. Current => HasTurn(L)
    BY <2>2, <2>3 DEF Current, HasTurn
  <2>5. /\ \A i \in Inputs : InFlight("queued", i)' => InFlight("queued", i)
        /\ ToSet(context) \subseteq ToSet(context') /\ Ids' \subseteq Ids
    BY <2>1, NoIds, NoneIs DEF InFlight, Idle
  <2>6. CASE Current
    BY <2>1, <2>3, <2>4, <2>5, <2>6, CalmEnds
  <2>7. CASE ~Current
    <3>1. lane' \in Lane /\ Calm(lane')
      BY <2>1, <2>3, <2>7
    <3> QED BY <2>5, <3>1, CalmMoves
  <2> QED BY <2>6, <2>7
<1> QED BY <1>2, <1>3, CalmTake, CalmObserve DEF LoopStep

\* The provider reads its next message.
LEMMA CalmReads == ASSUME Inv, Calm(lane), ProviderReads PROVE Calm(lane)'
<1>1. /\ EnvType /\ lane' = lane /\ lane' \in Lane /\ loop' = loop /\ inbox # <<>>
      /\ context' = context \o Head(inbox).parts /\ inbox' = Tail(inbox)
      /\ stream' = Append(stream, Status("consumed", Head(inbox).id))
  BY DEF Inv, Shape, ProviderReads
<1>2. /\ Head(inbox) \in Message /\ Len(inbox') = Len(inbox) - 1 /\ Len(inbox) \in Nat
      /\ \A a \in 1..Len(inbox') : inbox'[a] = inbox[a + 1]
  <2>1. inbox \in Seq(Message)
    BY <1>1 DEF EnvType
  <2> QED BY <1>1, <2>1, TailIs
<1>3. ToSet(context) \subseteq ToSet(context')
  <2> DEFINE p == Head(inbox).parts
  <2>1. p \in Seq(Inputs) /\ context \in Seq(Inputs) /\ context' = context \o p
    BY <1>1, <1>2 DEF Message, EnvType
  <2> HIDE DEF p
  <2> QED BY <2>1, JoinIs
<1>4. Ids' \subseteq Ids
  <2>1. \A a \in 1..Len(inbox') : a + 1 \in 1..Len(inbox)
    BY <1>2
  <2> QED BY <1>2, <2>1 DEF Ids
<1>5. ASSUME NEW i \in Inputs, InFlight("queued", i)' PROVE InFlight("queued", i)
  <2> DEFINE e == Status("consumed", Head(inbox).id)
  <2>1. e \in Event /\ e # Status("queued", i)
    BY <1>2 DEF Event, Message, Status
  <2>2. stream \in Seq(Event) /\ stream' = Append(stream, e)
    BY <1>1 DEF EnvType
  <2> HIDE DEF e
  <2>3. ToSet(stream') = ToSet(stream) \union {e}
    BY <2>1, <2>2, AppendIs
  <2> QED BY <1>1, <1>5, <2>1, <2>3 DEF InFlight
<1> QED BY <1>1, <1>3, <1>4, <1>5, CalmMoves

\* The native turn fails.
LEMMA CalmErrs == ASSUME Inv, Calm(lane), ProviderErrs PROVE Calm(lane)'
<1>1. /\ EnvType /\ lane' = lane /\ lane' \in Lane /\ loop' = loop /\ inbox' = <<>>
      /\ context' = context /\ stream' = Append(stream, Terminal)
  BY DEF Inv, Shape, ProviderErrs, Terminal
<1>2. ToSet(stream') = ToSet(stream) \union {Terminal}
  <2>1. stream \in Seq(Event) /\ Terminal \in Event
    BY <1>1 DEF EnvType, Event
  <2> QED BY <1>1, <2>1, AppendIs
<1>3. \A i \in Inputs : InFlight("queued", i)' => InFlight("queued", i)
  BY <1>1, <1>2 DEF InFlight, Status, Terminal
<1> QED BY <1>1, <1>3, NoIds, CalmMoves

\* The native turn completes, and what a local provider retains and gives
\* back is in doubt only if its writes fail.
LEMMA CalmCompletes == ASSUME Inv, Calm(lane), ProviderCompletes PROVE Calm(lane)'
<1>1. PICK kept : Completes(kept) /\ Ends(kept)
  BY CompletesIs
<1>2. /\ lane \in Lane /\ TurnShape(lane) /\ lane' = lane /\ loop' = loop /\ context' = context
      /\ HasTurn(lane) /\ (inbox' = inbox \/ inbox' = <<>>)
      /\ ~Retains => kept = <<>>
  BY <1>1 DEF Inv, Shape, ProviderCompletes, Completes
<1>3. Ids' \subseteq Ids
  BY <1>2, NoIds
<1>4. ASSUME Nexts(lane), ~lane.closed, NEW i \in Inputs, InFlight("queued", i)'
      PROVE  \/ InFlight("queued", i)
             \/ lane.provider = "local" /\ (i \in lane.doubtful => i \in lane.broken)
  <2> SUFFICES ASSUME Status("queued", i) \in ToSet(Closing(kept))
               PROVE  lane.provider = "local" /\ (i \in lane.doubtful => i \in lane.broken)
    BY <1>1, <1>2, <1>4 DEF InFlight, Ends
  <2>1. PICK k \in 1..Len(kept) : kept[k].id = i
    <3>1. kept \in Seq(Message) /\ Len(kept) \in Nat
      BY <1>1 DEF Completes
    <3> DEFINE c == Closing(kept)
    <3>2. /\ c \in Seq(Event) /\ Len(c) = Len(kept) + 1 /\ c[Len(kept) + 1] = Terminal
          /\ \A k \in 1..Len(kept) : c[k] = Status("queued", kept[k].id)
      BY <3>1, ClosingIs
    <3> HIDE DEF c
    <3>3. PICK k \in 1..Len(c) : c[k] = Status("queued", i)
      <4>1. Status("queued", i) \in ToSet(c)
        BY DEF c
      <4> QED BY <3>2, <4>1, InSet
    <3>4. k # Len(kept) + 1
      BY <3>2, <3>3 DEF Terminal, Status
    <3>5. k \in 1..Len(kept)
      BY <3>1, <3>2, <3>4
    <3>6. Status("queued", kept[k].id) = Status("queued", i)
      BY <3>2, <3>3, <3>5
    <3> QED BY <3>5, <3>6 DEF Status
  <2>2. lane.provider = "local"
    <3>1. kept = <<>> => 1..Len(kept) = {}
      OBVIOUS
    <3> QED BY <1>2, <2>1, <3>1 DEF Retains
  <2>3. i \in Ids /\ i = lane.active.last
    BY <1>1, <2>1 DEF Completes
  <2>4. i \in Live(lane)
    BY <1>2, <2>3, LaneAssumption DEF TurnShape, Live, Ridden
  <2>5. ASSUME i \in lane.doubtful PROVE i \in lane.broken
    <3>1. Doubtable(lane, i)
      BY <1>4, <2>5 DEF Calm, Doubt
    <3> QED BY <2>2, <2>3, <2>4, <3>1 DEF Doubtable
  <2> QED BY <2>2, <2>5
<1> QED BY <1>2, <1>3, <1>4, CalmMoves

\* So every step keeps the lane calm.
LEMMA NextCalm == ASSUME LaneInv, Calm(lane), [Next]_vars PROVE Calm(lane)'
<1>1. Inv /\ lane \in Lane
  BY DEF LaneInv, Inv, Shape
<1>2. CASE UNCHANGED vars
  <2>1. lane' = lane /\ UNCHANGED <<loop, providerVars>>
    BY <1>2 DEF vars, providerVars
  <2>2. lane' \in Lane /\ Calm(lane')
    BY <1>1, <2>1
  <2> QED BY <2>1, <2>2, CalmStill
<1> QED BY <1>1, <1>2, CalmCaller, CalmTurnStep, CalmLoop, CalmDispatch, CalmReads, CalmErrs,
           CalmCompletes DEF Next, ProviderStep

\* It is calm at the start.
LEMMA InitCalm == Init => Calm(lane)
<1> SUFFICES ASSUME Init PROVE Calm(lane)
  OBVIOUS
<1>1. /\ lane.active = NoTurn /\ lane.queued = <<>> /\ lane.carried = <<>>
      /\ \A i \in Inputs : lane.state[i] = "new" /\ lane.priority[i] = "next"
                           /\ lane.dispatch[i] = "none"
      /\ lane.doubtful = {} /\ lane.stopped = {} /\ stream = <<>> /\ loop = Idle
  BY DEF Init
<1>2. ~HasTurn(lane) /\ Live(lane) = {}
  BY <1>1, NoneIs DEF HasTurn, Live, Ridden
<1>3. \A i \in Inputs : ~InFlight("queued", i)
  BY <1>1, NoneIs DEF InFlight, Idle
<1>4. Fresh(lane) /\ Single(lane) /\ Read(lane) /\ Dropped(lane)
  BY <1>1, <1>2 DEF Fresh, Single, Read, Dropped
<1>5. Doubt(lane)
  BY <1>1, <1>3 DEF Doubt, GivesBack
<1> QED BY <1>4, <1>5 DEF Calm
-----------------------------------------------------------------------------
(* What the runs check of sessions without interrupting inputs *)

\* What a step hands to the provider is neither doubtful nor stopped.
LEMMA CalmSent ==
  ASSUME LaneInv, Calm(lane), Nexts(lane), [Next]_vars
  PROVE  Sent \intersect lane.doubtful = {} /\ Sent \intersect lane.stopped = {}
<1>1. Inv /\ Shape(lane) /\ TurnShape(lane) /\ NativeInv(lane) /\ lane \in Lane
  BY DEF LaneInv, Inv, Shape, Env
<1>2. Dropped(lane) /\ Doubt(lane)
  BY DEF Calm
<1>3. CASE SentPrompt
  <2>1. /\ ~lane.closed /\ HasTurn(lane) /\ lane.active.stage = "sending"
        /\ Sent \subseteq ToSet(lane.active.prompted)
    BY <1>3 DEF SentPrompt, AtStage, Stage
  <2>2. ToSet(lane.active.prompted) \subseteq Live(lane)
    BY <2>1 DEF Live, Ridden
  <2>3. Sent \intersect lane.stopped = {}
    BY <1>2, <2>1, <2>2 DEF Dropped
  <2>4. ASSUME NEW i \in lane.doubtful PROVE i \notin Sent
    BY <1>2, <2>1, <2>4 DEF Doubt, Doubtable
  <2> QED BY <2>3, <2>4
<1>4. CASE SentSteer
  <2>1. ~lane.closed
    BY <1>1, <1>4 DEF NativeInv, SentSteer
  <2>2. PICK i \in Inputs : lane.dispatch[i] = "steering" /\ Sent \subseteq {i}
    BY <1>4 DEF SentSteer
  <2>3. i \in Live(lane)
    BY <1>1, <2>1, <2>2, DispatchedIs
  <2>4. i \notin lane.stopped
    BY <1>2, <2>1, <2>3 DEF Dropped
  <2>5. i \notin lane.doubtful
    BY <1>2, <2>1, <2>2 DEF Doubt, Doubtable
  <2> QED BY <2>2, <2>4, <2>5
<1> QED BY <1>3, <1>4, SentIs

\* Where all inputs wait their turn, what is in doubt, stopped or consumed stays
\* what it says.
THEOREM LaneCalm == Spec => [](LaneInv /\ Calm(lane))
<1>1. Init => LaneInv /\ Calm(lane)
  BY InitInv, InitCalm
<1>2. LaneInv /\ Calm(lane) /\ [Next]_vars => (LaneInv /\ Calm(lane))'
  BY NextInv, NextCalm
<1> QED BY <1>1, <1>2, PTL DEF Spec

\* In a session without interrupting inputs, a consumed input was read by the
\* model or answered without it.
THEOREM LaneNextConsumedWasRead == Spec => []NextConsumedWasRead
<1>1. LaneInv /\ Calm(lane) => NextConsumedWasRead
  BY DEF Calm, Nexts, Read, NextConsumedWasRead, OnlyNext, ConsumedWasRead
<1> QED BY <1>1, LaneCalm, PTL

\* In such a session an input whose delivery was ever unknown is not sent again.
THEOREM LaneNextUnknownNeverReplayed == Spec => NextUnknownNeverReplayed
<1>1. LaneInv /\ Calm(lane) /\ [Next]_vars =>
        [OnlyNext => Sent \intersect lane.doubtful = {}]_vars
  BY CalmSent DEF OnlyNext, Nexts
<1> QED BY <1>1, LaneCalm, PTL DEF Spec, NextUnknownNeverReplayed

\* In such a session what an explicitly stopped turn left unread is not sent
\* again.
THEOREM LaneNextStopNeverReplays == Spec => NextStopNeverReplays
<1>1. LaneInv /\ Calm(lane) /\ [Next]_vars =>
        [OnlyNext => Sent \intersect lane.stopped = {}]_vars
  BY CalmSent DEF OnlyNext, Nexts
<1> QED BY <1>1, LaneCalm, PTL DEF Spec, NextStopNeverReplays
=============================================================================
