------------------------ MODULE AgentInputQueueSteps ------------------------
(***************************************************************************)
(* The inductive invariant of the chat input lane: every step of its callers,*)
(* turn and dispatches, of the provider and of the events loop keeps it.   *)
(***************************************************************************)
EXTENDS AgentInputQueueFacts
-----------------------------------------------------------------------------
(* The inductive invariant: the shape of the lane, and how the provider and *)
(* the events loop stand to it.                                            *)

\* A turn before and after its message is at the provider.
Early == {"waiting", "current", "binding", "sending", "answering", "answered"}
Native == {"sent", "running"}
InEarly(L) == HasTurn(L) /\ L.active.stage \in Early
InNative(L) == HasTurn(L) /\ L.active.stage \in Native

\* What the provider emits and holds, and what the loop waits for.
Terminal == [kind |-> "terminal"]
Event == {Terminal} \union {Status(k, i) : k \in {"consumed", "queued"}, i \in Inputs}
Message == [id : Inputs, parts : Seq(Inputs)]
Loops == {Idle} \union [pc : {"sealing"}, turn : Nat]
                \union [pc : {"observing"}, turn : Nat, event : Event \ {Terminal}]

\* The types of the loop and of the provider's books.
EnvType ==
  /\ loop \in Loops /\ stream \in Seq(Event) /\ inbox \in Seq(Message)
  /\ context \in Seq(Inputs) /\ retained \subseteq Inputs /\ open \in BOOLEAN

\* A status is on its way: in the stream, or in the loop's hands.
InFlight(kind, i) ==
  \/ Status(kind, i) \in ToSet(stream)
  \/ loop.pc = "observing" /\ loop.event = Status(kind, i)
Parts(k) == ToSet(inbox[k].parts)
Ids == {inbox[k].id : k \in 1..Len(inbox)}

\* A native turn, its events and the loop belong to the lane's turn, whose
\* message was sent; the terminal comes last, and nothing is open after it.
NativeInv(L) ==
  /\ open => InNative(L) /\ ~L.closed
  /\ stream # <<>> => InNative(L) /\ ~L.closed
  /\ loop # Idle => InNative(L) /\ loop.turn = L.active.id
  /\ \A k \in 1..Len(stream) : stream[k] = Terminal => k = Len(stream) /\ ~open
  /\ loop.pc = "sealing" => ~open /\ stream = <<>> /\ L.active.sealed
  /\ L.closed => inbox = <<>> /\ retained = {}

\* Whatever the provider has or had was submitted.
KnownInv(L) ==
  /\ \A i \in ToSet(context) : L.state[i] # "new"
  /\ \A i \in retained : L.state[i] # "new"
  /\ \A k \in 1..Len(inbox) : \A i \in Parts(k) : L.state[i] # "new"

\* A status on its way is true: a consumed input was read, and a returned one
\* is the turn's last steer, not read and not queued.
EventInv(L) ==
  \A i \in Inputs :
    /\ InFlight("consumed", i) => i \in ToSet(context)
    /\ InFlight("queued", i) =>
         /\ i = L.active.last /\ (L.active.pending = i \/ L.active.sealed)
         /\ ~L.closed => /\ ~open /\ i \notin ToSet(context) /\ i \notin ToSet(L.queued)
                            /\ L.dispatch[i] \notin {"saving", "steering"}
    /\ loop.pc = "observing" /\ ~L.closed =>
         /\ loop.event = Status("consumed", i) => L.state[i] = "consumed"
         /\ loop.event = Status("queued", i) => L.state[i] \in {"queued", "unknown"}

\* Messages share no input, with each other or with what was read; the steer
\* the provider holds is the turn's last, and what is held while a turn runs
\* is not queued.
InboxInv(L) ==
  /\ Distinct(context)
  /\ \A k \in 1..Len(inbox) :
       /\ inbox[k].id \in Parts(k) /\ Distinct(inbox[k].parts)
       /\ Parts(k) \intersect ToSet(context) = {}
       /\ \/ inbox[k].parts = <<inbox[k].id>>
          \/ open /\ inbox[k].id = First(L) /\ inbox[k].parts = L.active.prompted
  /\ \A k, m \in 1..Len(inbox) : k # m => Parts(k) \intersect Parts(m) = {}
  /\ open => Ids \intersect ToSet(L.queued) = {}
  /\ open => \A k \in 1..Len(inbox) :
       \/ inbox[k].id = First(L)
       \/ inbox[k].id \in ToSet(L.active.steered)
       \/ inbox[k].id \notin Live(L) /\ \E m \in 1..Len(inbox) : k < m /\ inbox[m].id = First(L)
  /\ HasTurn(L) => \A i \in Ids \intersect ToSet(L.active.steered) :
       i = L.active.last /\ (L.active.pending = i \/ L.active.sealed)
  /\ ~open /\ inbox # <<>> => Len(inbox) = 1 /\ inbox[1].id \in retained

\* A message kept over the end of a native turn is the one the lane puts
\* first, so that the provider can adopt it.
RetainedInv(L) ==
  /\ open => retained \intersect Live(L) = {}
  /\ ~open => retained \intersect Live(L) \subseteq Ids
  /\ HasTurn(L) /\ L.active.stage \in Early \ {"waiting"} /\ L.active.interrupted =>
       inbox = <<>> /\ retained = {}
  /\ ~open /\ InEarly(L) => Ids \intersect Live(L) \subseteq {First(L)}
  /\ ~open /\ InNative(L) => \A i \in Ids \intersect Live(L) :
       /\ i = L.active.last
       /\ \/ InFlight("queued", i)
          \/ L.active.sealed /\ L.queued # <<>> /\ Head(L.queued) = i

\* An input that was read and may still be sent is shown as consumed, or is
\* about to be, and is not queued, prompted or being dispatched.
ContextInv(L) ==
  ~L.closed =>
    /\ \A i \in ToSet(context) \intersect Live(L) :
         \/ L.state[i] = "consumed" \/ InFlight("consumed", i)
         \/ HasTurn(L) /\ i \in ToSet(L.active.prompted) /\ InFlight("consumed", First(L))
    /\ ToSet(context) \intersect ToSet(L.queued) = {}
    /\ InEarly(L) => ToSet(context) \intersect ToSet(L.active.prompted) = {}
    /\ \A i \in Inputs : L.dispatch[i] \in {"saving", "steering"} =>
         i \notin ToSet(context) \union Ids
    /\ HasTurn(L) => \A i \in ToSet(L.active.steered) :
         L.state[i] = "consumed" => i \in ToSet(context)

\* What is about to be handed to the provider has its status written.
SaveInv(L) ==
  ~L.closed =>
    /\ HasTurn(L) /\ L.active.stage = "sending" => ToSet(L.active.prompted) \subseteq L.durable
    /\ \A i \in Inputs : L.dispatch[i] = "steering" => i \in L.durable

\* How the provider and the loop stand to the lane L.
Env(L) == /\ NativeInv(L) /\ KnownInv(L) /\ EventInv(L) /\ InboxInv(L)
          /\ RetainedInv(L) /\ ContextInv(L) /\ SaveInv(L)

\* The invariant, but for the order of the last events (StreamInv).
Inv == Shape(lane) /\ EnvType /\ Env(lane)

\* The facts of sequences that the proofs below use all the time.
LEMMA EnvIs ==
  ASSUME NEW L, Shape(L), EnvType
  PROVE  /\ L \in Lane /\ TurnShape(L) /\ QueueShape(L) /\ DispatchShape(L) /\ StatusShape(L)
         /\ ToSet(L.queued) \subseteq Inputs /\ ToSet(L.carried) \subseteq Inputs
         /\ Live(L) \subseteq Inputs
         /\ HasTurn(L) => /\ ToSet(L.active.prompted) \subseteq Inputs
                          /\ ToSet(L.active.steered) \subseteq Inputs
                          /\ First(L) \in Inputs /\ L.active.id \in Nat
                          /\ L.active.last \in Inputs \union {NoInput}
                          /\ L.active.pending \in Inputs \union {NoInput}
                          /\ L.active.stage \in Stages
         /\ ToSet(context) \subseteq Inputs
         /\ Len(inbox) \in Nat /\ Len(stream) \in Nat
         /\ \A k \in 1..Len(inbox) : /\ inbox[k].id \in Inputs /\ inbox[k].parts \in Seq(Inputs)
                                     /\ Parts(k) \subseteq Inputs
         /\ Ids \subseteq Inputs
<1>1. /\ L \in Lane /\ TurnShape(L) /\ QueueShape(L) /\ DispatchShape(L) /\ StatusShape(L)
  BY DEF Shape
<1>2. ToSet(L.queued) \subseteq Inputs /\ ToSet(L.carried) \subseteq Inputs
  <2>1. L.queued \in Seq(Inputs) /\ L.carried \in Seq(Inputs)
    BY <1>1, LaneIs
  <2> QED BY <2>1, InSet
<1>3. HasTurn(L) => /\ ToSet(L.active.prompted) \subseteq Inputs
                    /\ ToSet(L.active.steered) \subseteq Inputs
                    /\ First(L) \in Inputs /\ L.active.id \in Nat
                    /\ L.active.last \in Inputs \union {NoInput}
                    /\ L.active.pending \in Inputs \union {NoInput}
                    /\ L.active.stage \in Stages
  <2> SUFFICES ASSUME HasTurn(L)
               PROVE  /\ ToSet(L.active.prompted) \subseteq Inputs
                      /\ ToSet(L.active.steered) \subseteq Inputs
    BY <1>1, LaneIs DEF First
  <2>1. L.active.prompted \in Seq(Inputs) /\ L.active.steered \in Seq(Inputs)
    BY <1>1, LaneIs
  <2> QED BY <2>1, InSet
<1>4. ToSet(context) \subseteq Inputs
  BY InSet DEF EnvType
<1>5. Len(inbox) \in Nat /\ Len(stream) \in Nat
  BY DEF EnvType
<1>6. \A k \in 1..Len(inbox) : inbox[k].id \in Inputs /\ inbox[k].parts \in Seq(Inputs)
  <2>1. \A k \in 1..Len(inbox) : inbox[k] \in Message
    BY ElementOfSeq DEF EnvType
  <2> QED BY <2>1 DEF Message
<1>7. \A k \in 1..Len(inbox) : Parts(k) \subseteq Inputs
  BY <1>6, InSet DEF Parts
<1>8. Ids \subseteq Inputs
  BY <1>6 DEF Ids
<1>9. Live(L) \subseteq Inputs
  BY <1>2, <1>3 DEF Live, Ridden
<1> QED BY <1>1, <1>2, <1>3, <1>4, <1>5, <1>6, <1>7, <1>8, <1>9

\* A step of the lane that leaves its queue, its turn's inputs and the turn's
\* side of the provider where they are.
KeptTurn(L, M) ==
  /\ M.active.id = L.active.id /\ First(M) = First(L)
  /\ M.active.prompted = L.active.prompted /\ M.active.steered = L.active.steered
  /\ M.active.last = L.active.last
  /\ M.active.pending = L.active.pending \/ M.active.sealed
  /\ L.active.sealed => M.active.sealed
  /\ M.active.stage \in Early <=> L.active.stage \in Early
  /\ M.active.stage \in Native <=> L.active.stage \in Native
  /\ M.active.stage = "sending" /\ ~M.closed => ToSet(M.active.prompted) \subseteq M.durable

\* M keeps what the environment knows of the input i in L.
KeptInput(L, M, i) ==
  /\ L.state[i] # "new" => M.state[i] # "new"
  /\ L.state[i] = "consumed" /\ ~M.closed => M.state[i] = "consumed"
  /\ M.state[i] = "consumed" /\ ~M.closed =>
       \/ L.state[i] = "consumed" \/ i \in ToSet(context)
       \/ HasTurn(L) /\ i \in ToSet(L.active.prompted)
  /\ M.dispatch[i] \in {"saving", "steering"} => L.dispatch[i] \in {"saving", "steering"}
  /\ M.dispatch[i] = "steering" => M.closed \/ i \in M.durable
  /\ /\ loop.pc = "observing" /\ loop.event = Status("queued", i) /\ ~M.closed
     /\ L.state[i] \in {"queued", "unknown"}
     => M.state[i] \in {"queued", "unknown"}

\* M keeps what the environment knows of L.
Kept(L, M) ==
  /\ M.closed = L.closed /\ M.queued = L.queued /\ M.carried = L.carried
  /\ HasTurn(M) <=> HasTurn(L)
  /\ HasTurn(L) => KeptTurn(L, M)
  /\ \A i \in Inputs : KeptInput(L, M, i)

\* A turn that was interrupted before it reached the model finds no message
\* at the provider.
KeptInterrupt(L, M) ==
  HasTurn(M) /\ M.active.stage \in Early \ {"waiting"} /\ M.active.interrupted =>
    \/ HasTurn(L) /\ L.active.stage \in Early \ {"waiting"} /\ L.active.interrupted
    \/ inbox = <<>> /\ retained = {}

\* A lane that keeps this keeps its relation to the environment.
LEMMA KeepEnv ==
  ASSUME NEW L, NEW M, Shape(L), Shape(M), EnvType, Env(L), Kept(L, M), KeptInterrupt(L, M)
  PROVE  Env(M)
<1>0. /\ M.closed = L.closed /\ M.queued = L.queued /\ M.carried = L.carried
      /\ HasTurn(M) <=> HasTurn(L)
      /\ InNative(M) <=> InNative(L)
      /\ InEarly(M) <=> InEarly(L)
      /\ InNative(L) => HasTurn(L)
  BY DEF Kept, KeptTurn, KeptInput, InNative, InEarly
<1>1. HasTurn(L) =>
       /\ M.active.id = L.active.id /\ First(M) = First(L)
       /\ M.active.prompted = L.active.prompted /\ M.active.steered = L.active.steered
       /\ M.active.last = L.active.last
       /\ L.active.sealed => M.active.sealed
       /\ M.active.pending = L.active.pending \/ M.active.sealed
  BY DEF Kept, KeptTurn, KeptInput
<1>2. NativeInv(M)
  <2>1. NativeInv(L)
    BY DEF Env
  <2>2. (open => InNative(M) /\ ~M.closed) /\ (stream # <<>> => InNative(M) /\ ~M.closed)
    BY <1>0, <1>1, <2>1 DEF NativeInv
  <2>3. loop # Idle => InNative(M) /\ loop.turn = M.active.id
    BY <1>0, <1>1, <2>1 DEF NativeInv
  <2>4. loop.pc = "sealing" => ~open /\ stream = <<>> /\ M.active.sealed
    BY <1>0, <1>1, <2>1 DEF NativeInv, Idle
  <2>5. M.closed => inbox = <<>> /\ retained = {}
    BY <1>0, <1>1, <2>1 DEF NativeInv
  <2> QED BY <2>2, <2>3, <2>4, <2>5, <2>1 DEF NativeInv
<1>3. KnownInv(M)
  <2>1. KnownInv(L) /\ \A i \in Inputs : L.state[i] # "new" => M.state[i] # "new"
    BY DEF Env, Kept, KeptTurn, KeptInput
  <2>2. /\ \A k \in 1..Len(inbox) : Parts(k) \subseteq Inputs
        /\ ToSet(context) \subseteq Inputs /\ retained \subseteq Inputs
    BY EnvIs DEF EnvType
  <2> QED BY <2>1, <2>2 DEF KnownInv
<1>4. EventInv(M)
  <2>1. /\ EventInv(L) /\ NativeInv(L)
    BY DEF Env
  <2>2. ASSUME NEW i \in Inputs, loop.pc = "observing", ~M.closed
        PROVE  /\ L.state[i] = "consumed" => M.state[i] = "consumed"
               /\ loop.event = Status("queued", i) /\ L.state[i] \in {"queued", "unknown"} =>
                    M.state[i] \in {"queued", "unknown"}
    BY <2>2 DEF Kept, KeptTurn, KeptInput
  <2>3. \A i \in Inputs : M.dispatch[i] \in {"saving", "steering"} => L.dispatch[i] \in {"saving", "steering"}
    BY DEF Kept, KeptTurn, KeptInput
  <2>4. ASSUME NEW i \in Inputs, InFlight("queued", i) PROVE HasTurn(L)
    <3>1. stream # <<>> \/ loop # Idle
      <4>1. CASE Status("queued", i) \in ToSet(stream)
        BY <4>1, NoneIs
      <4>2. CASE loop.pc = "observing"
        BY <4>2 DEF Idle
      <4> QED BY <2>4, <4>1, <4>2 DEF InFlight
    <3> QED BY <2>1, <3>1 DEF NativeInv, InNative
  <2> QED BY <1>0, <1>1, <2>1, <2>2, <2>3, <2>4 DEF EventInv
<1>5. Live(M) = Live(L)
  BY <1>0, <1>1 DEF Live, Ridden
<1>6. InboxInv(M)
  <2>1. InboxInv(L) /\ (open => HasTurn(L))
    BY DEF Env, NativeInv, InNative
  <2> QED BY <1>0, <1>1, <1>5, <2>1 DEF InboxInv
<1>7. RetainedInv(M)
  <2>1. RetainedInv(L)
    BY DEF Env
  <2>2. HasTurn(M) /\ M.active.stage \in Early \ {"waiting"} /\ M.active.interrupted =>
          \/ HasTurn(L) /\ L.active.stage \in Early \ {"waiting"} /\ L.active.interrupted
          \/ inbox = <<>> /\ retained = {}
    BY DEF KeptInterrupt
  <2>3. HasTurn(M) /\ M.active.stage \in Early \ {"waiting"} /\ M.active.interrupted =>
          inbox = <<>> /\ retained = {}
    BY <2>1, <2>2 DEF RetainedInv
  <2>4. /\ open => retained \intersect Live(M) = {}
        /\ ~open => retained \intersect Live(M) \subseteq Ids
    BY <1>5, <2>1 DEF RetainedInv
  <2>5. ~open /\ InEarly(M) => Ids \intersect Live(M) \subseteq {First(M)}
    BY <1>0, <1>1, <1>5, <2>1 DEF RetainedInv, InEarly
  <2>6. ASSUME ~open, InNative(M), NEW i \in Ids \intersect Live(M)
        PROVE  /\ i = M.active.last
               /\ \/ InFlight("queued", i)
                  \/ M.active.sealed /\ M.queued # <<>> /\ Head(M.queued) = i
    BY <1>0, <1>1, <1>5, <2>1, <2>6 DEF RetainedInv
  <2> QED BY <2>3, <2>4, <2>5, <2>6 DEF RetainedInv
<1>8. ContextInv(M)
  <2>1. ContextInv(L)
    BY DEF Env
  <2>2. /\ \A i \in Inputs : M.dispatch[i] \in {"saving", "steering"} => L.dispatch[i] \in {"saving", "steering"}
        /\ \A i \in Inputs : ~M.closed =>
             /\ L.state[i] = "consumed" => M.state[i] = "consumed"
             /\ M.state[i] = "consumed" =>
                  \/ L.state[i] = "consumed" \/ i \in ToSet(context)
                  \/ HasTurn(L) /\ i \in ToSet(L.active.prompted)
    BY DEF Kept, KeptTurn, KeptInput
  <2>3. /\ Live(L) \subseteq Inputs
        /\ HasTurn(L) => /\ ToSet(L.active.steered) \subseteq Inputs
                         /\ ToSet(L.active.prompted) \intersect ToSet(L.active.steered) = {}
    BY EnvIs DEF TurnShape
  <2> SUFFICES ASSUME ~M.closed PROVE ContextInv(M)
    BY DEF ContextInv
  <2>4. ASSUME NEW i \in ToSet(context) \intersect Live(M)
        PROVE  \/ M.state[i] = "consumed" \/ InFlight("consumed", i)
               \/ HasTurn(M) /\ i \in ToSet(M.active.prompted) /\ InFlight("consumed", First(M))
    BY <1>0, <1>1, <1>5, <2>1, <2>2, <2>3 DEF ContextInv
  <2>5. HasTurn(M) => \A i \in ToSet(M.active.steered) :
          M.state[i] = "consumed" => i \in ToSet(context)
    BY <1>0, <1>1, <2>1, <2>2, <2>3 DEF ContextInv
  <2>6. \A i \in Inputs : M.dispatch[i] \in {"saving", "steering"} =>
          i \notin ToSet(context) \union Ids
    BY <1>0, <2>1, <2>2 DEF ContextInv
  <2>7. InEarly(M) => ToSet(context) \intersect ToSet(M.active.prompted) = {}
    BY <1>0, <1>1, <2>1 DEF ContextInv, InEarly
  <2>8. ToSet(context) \intersect ToSet(M.queued) = {}
    BY <1>0, <2>1 DEF ContextInv
  <2> QED BY <2>4, <2>5, <2>6, <2>7, <2>8 DEF ContextInv
<1>9. SaveInv(M)
  BY <1>0, <1>1 DEF Kept, KeptTurn, KeptInput, SaveInv
<1> QED BY <1>2, <1>3, <1>4, <1>6, <1>7, <1>8, <1>9 DEF Env

\* What is in flight depends on the stream and the loop alone.
LEMMA InFlightIs ==
  ASSUME NEW L, NativeInv(L), NEW kind, NEW i, InFlight(kind, i)
  PROVE  InNative(L) /\ HasTurn(L)
<1>1. stream # <<>> \/ loop # Idle
  <2>1. CASE Status(kind, i) \in ToSet(stream)
    BY <2>1, NoneIs
  <2>2. CASE loop.pc = "observing"
    BY <2>2 DEF Idle
  <2> QED BY <2>1, <2>2 DEF InFlight
<1> QED BY <1>1 DEF NativeInv, InNative

\* What flush() dispatches is not with the provider yet.
LEMMA FlushEnv ==
  ASSUME NEW L, Shape(L), EnvType, Env(L)
  PROVE  Env(Flush(L))
<1>1. /\ L \in Lane /\ TurnShape(L) /\ QueueShape(L) /\ DispatchShape(L) /\ StatusShape(L)
      /\ NativeInv(L) /\ KnownInv(L) /\ EventInv(L) /\ InboxInv(L)
      /\ RetainedInv(L) /\ ContextInv(L) /\ SaveInv(L)
  BY DEF Shape, Env
<1>2. CASE ~MaySteer(L)
  BY <1>1, <1>2, FlushIs
<1>3. CASE MaySteer(L)
  <2> DEFINE e == Head(L.queued)
             F == Flush(L)
  <2>1. Flushed(L, F)
    BY <1>1, <1>3, FlushIs
  <2> HIDE DEF F
  <2>2. /\ HasTurn(L) /\ L.active.ready /\ L.active.pending = NoInput /\ ~L.active.sealed
        /\ L.queued # <<>> /\ L.active.stage = "running" /\ InNative(L) /\ ~L.closed
        /\ ~InEarly(L)
    BY <1>1, <1>3 DEF MaySteer, TurnShape, InNative, InEarly, Native, Early
  <2>3. /\ e \in Inputs /\ ToSet(L.queued) = {e} \union ToSet(Tail(L.queued))
        /\ L.queued \in Seq(Inputs)
    <3>1. L.queued \in Seq(Inputs)
      BY <1>1, LaneIs
    <3> QED BY <2>2, <3>1, TailIs
  <2>4. ToSet(F.active.steered) = ToSet(L.active.steered) \union {e}
    <3> DEFINE s == L.active.steered
    <3>1. s \in Seq(Inputs) /\ F.active.steered = Append(s, e)
      BY <1>1, <2>1, <2>2, LaneIs DEF Flushed
    <3> HIDE DEF s, e
    <3>2. ToSet(Append(s, e)) = ToSet(s) \union {e}
      BY <2>3, <3>1, AppendIs
    <3> QED BY <3>1, <3>2 DEF s
  <2>5. /\ HasTurn(F) /\ F.closed = L.closed /\ F.queued = Tail(L.queued) /\ F.carried = L.carried
        /\ F.active.id = L.active.id /\ First(F) = First(L) /\ F.active.prompted = L.active.prompted
        /\ F.active.sealed = L.active.sealed /\ F.active.stage = L.active.stage
        /\ F.active.pending = e /\ F.active.last = e /\ F.durable = L.durable
        /\ \A i \in Inputs : /\ F.state[i] = IF i = e THEN "submitted" ELSE L.state[i]
                             /\ F.dispatch[i] = IF i = e THEN "saving" ELSE L.dispatch[i]
    BY <2>1 DEF Flushed, First
  <2> HIDE DEF e
  <2>6. Live(F) = Live(L) /\ e \in Live(L) /\ e \notin ToSet(L.active.steered)
    BY <1>1, <2>2, <2>3, <2>4, <2>5 DEF Live, Ridden, QueueShape
  <2>7. \A i \in Inputs : ~InFlight("queued", i)
    BY <1>1, <2>2, LaneAssumption DEF EventInv
  <2>8. Ids \intersect ToSet(L.active.steered) = {} /\ (~open => Ids \intersect Live(L) = {})
    BY <1>1, <2>2, <2>7, EnvIs, LaneAssumption DEF InboxInv, RetainedInv
  <2>9. e \notin Ids
    BY <1>1, <2>3, <2>6, <2>8 DEF InboxInv
  <2>10. L.state[e] \in {"queued", "unknown"} /\ e \notin ToSet(context)
    BY <1>1, <2>2, <2>3 DEF StatusShape, ContextInv
  <2>11. InNative(F) /\ ~InEarly(F)
    BY <2>2, <2>5 DEF InNative, InEarly
  <2>12. NativeInv(F)
    BY <1>1, <2>2, <2>5, <2>11 DEF NativeInv, Idle
  <2>13. KnownInv(F)
    BY <1>1, <2>5, EnvIs DEF KnownInv, EnvType
  <2>14. EventInv(F)
    <3> SUFFICES ASSUME NEW i \in Inputs PROVE EventInv(F)!(i)
      BY DEF EventInv
    <3>1. InFlight("consumed", i) => i \in ToSet(context)
      BY <1>1 DEF EventInv
    <3>2. ~(loop.pc = "observing" /\ loop.event = Status("queued", i))
      BY <2>7 DEF InFlight
    <3>3. loop.pc = "observing" /\ loop.event = Status("consumed", i) => F.state[i] = "consumed"
      BY <1>1, <2>2, <2>5, <2>10 DEF EventInv
    <3> QED BY <2>7, <3>1, <3>2, <3>3
  <2>15. InboxInv(F)
    <3>1. \A i \in Ids \intersect ToSet(F.active.steered) : FALSE
      BY <2>4, <2>8, <2>9
    <3> QED BY <1>1, <2>3, <2>4, <2>5, <2>6, <3>1 DEF InboxInv
  <2>16. RetainedInv(F)
    BY <1>1, <2>2, <2>5, <2>6, <2>8, <2>11 DEF RetainedInv, Early
  <2>17. ContextInv(F)
    <3>1. ASSUME NEW i \in ToSet(context) \intersect Live(F)
          PROVE  \/ F.state[i] = "consumed" \/ InFlight("consumed", i)
                 \/ i \in ToSet(F.active.prompted) /\ InFlight("consumed", First(F))
      BY <1>1, <2>2, <2>5, <2>6, <2>10, EnvIs DEF ContextInv
    <3>2. \A i \in ToSet(F.active.steered) : F.state[i] = "consumed" => i \in ToSet(context)
      BY <1>1, <2>2, <2>3, <2>4, <2>5, EnvIs DEF ContextInv
    <3>3. \A i \in Inputs : F.dispatch[i] \in {"saving", "steering"} =>
            i \notin ToSet(context) \union Ids
      BY <1>1, <2>2, <2>5, <2>9, <2>10 DEF ContextInv
    <3>4. ToSet(context) \intersect ToSet(F.queued) = {}
      BY <1>1, <2>2, <2>3, <2>5 DEF ContextInv
    <3> QED BY <2>5, <2>11, <3>1, <3>2, <3>3, <3>4 DEF ContextInv
  <2>18. SaveInv(F)
    BY <1>1, <2>2, <2>5 DEF SaveInv
  <2> QED BY <2>12, <2>13, <2>14, <2>15, <2>16, <2>17, <2>18 DEF Env, F
<1> QED BY <1>2, <1>3

\* A dispatch that puts its input back: the turn is sealed, the input heads the
\* queue again.
PutBack(L, i, M) ==
  /\ M \in Lane /\ HasTurn(M)
  /\ M.closed = L.closed /\ M.carried = L.carried /\ M.turns = L.turns /\ M.owner = L.owner
  /\ M.queued = <<i>> \o L.queued
  /\ M.active.id = L.active.id /\ M.active.first = L.active.first
  /\ M.active.prompted = L.active.prompted /\ M.active.steered = L.active.steered
  /\ M.active.ready = L.active.ready /\ M.active.last = L.active.last
  /\ M.active.pending \in {L.active.pending, NoInput} /\ M.active.sealed
  /\ M.active.superseded = L.active.superseded /\ M.active.stage = L.active.stage
  /\ M.active.interrupted = L.active.interrupted /\ M.active.stopped = L.active.stopped
  /\ \A j \in Inputs :
       /\ M.state[j] = IF j = i THEN "queued" ELSE L.state[j]
       /\ j # i => M.dispatch[j] = L.dispatch[j]
       /\ j # i /\ j \in L.durable => j \in M.durable
  /\ M.dispatch[i] \in {"requeued", "deferred"}

\* Putting a dispatched input back at the head of the queue.
LEMMA PutBackInv ==
  ASSUME NEW L, NEW M, NEW i \in Inputs, Shape(L), EnvType, Env(L), ~L.closed,
         L.dispatch[i] \in {"saving", "steering"}, PutBack(L, i, M)
  PROVE  Shape(M) /\ Env(M)
<1>1. /\ L \in Lane /\ TurnShape(L) /\ QueueShape(L) /\ DispatchShape(L) /\ StatusShape(L)
      /\ NativeInv(L) /\ KnownInv(L) /\ EventInv(L) /\ InboxInv(L)
      /\ RetainedInv(L) /\ ContextInv(L) /\ SaveInv(L)
  BY DEF Shape, Env
<1>2. /\ HasTurn(L) /\ i = L.active.last /\ L.active.pending = i /\ i \notin ToSet(L.queued)
      /\ L.state[i] = "submitted" /\ i \in ToSet(L.active.steered)
      /\ i \notin ToSet(L.active.prompted)
  BY <1>1, LaneAssumption DEF DispatchShape, TurnShape
<1>3. L.active.stage = "running" /\ InNative(L) /\ ~InEarly(L)
  BY <1>1, <1>2, NoneIs DEF TurnShape, InNative, InEarly, Native, Early
<1>4. /\ ToSet(M.queued) = {i} \union ToSet(L.queued) /\ Distinct(M.queued)
      /\ M.queued # <<>>
  <2> DEFINE one == <<i>>
             q == L.queued
  <2>1. q \in Seq(Inputs) /\ Distinct(q) /\ i \notin ToSet(q) /\ M.queued = one \o q
    BY <1>1, <1>2, LaneIs DEF PutBack, QueueShape
  <2>2. one \in Seq(Inputs) /\ ToSet(one) = {i} /\ Distinct(one)
    BY OneIs
  <2> HIDE DEF one, q
  <2>3. /\ ToSet(one \o q) = ToSet(one) \union ToSet(q)
        /\ Distinct(one) /\ Distinct(q) /\ ToSet(one) \intersect ToSet(q) = {} => Distinct(one \o q)
    BY <2>1, <2>2, JoinIs
  <2>4. ToSet(M.queued) = {i} \union ToSet(q) /\ Distinct(M.queued)
    BY <2>1, <2>2, <2>3
  <2> QED BY <2>4, NoneIs DEF q
<1>5. /\ Live(M) = Live(L) /\ First(M) = First(L) /\ Bound(M) = Bound(L)
      /\ InNative(M) /\ ~InEarly(M)
  BY <1>2, <1>3, <1>4 DEF PutBack, Live, Ridden, First, Bound, InNative, InEarly
<1>6. \A j \in Inputs : ~InFlight("queued", j)
  BY <1>1, <1>2 DEF EventInv
<1>7. i \notin ToSet(context) /\ i \notin Ids
  BY <1>1 DEF ContextInv
<1>8. Shape(M)
  <2>1. TurnShape(M)
    BY <1>1, <1>2, LaneAssumption DEF PutBack, TurnShape, First
  <2>2. QueueShape(M)
    <3>1. \A j \in Live(M) : M.state[j] # "new"
      BY <1>1, <1>5, EnvIs DEF PutBack, QueueShape
    <3>2. M.carried = <<>> /\ ToSet(M.carried) = {} /\ Distinct(M.carried)
      BY <1>1, <1>2, NoneIs DEF PutBack, QueueShape
    <3>3. /\ ToSet(M.queued) \intersect ToSet(M.active.prompted) = {}
          /\ M.active.sealed /\ HasTurn(M)
      BY <1>1, <1>2, <1>4 DEF PutBack, QueueShape
    <3>4. \A j \in Inputs : M.owner[j] <= M.turns
      BY <1>1 DEF PutBack, QueueShape
    <3> QED BY <1>4, <3>1, <3>2, <3>3, <3>4 DEF QueueShape
  <2>3. DispatchShape(M)
    <3> SUFFICES ASSUME NEW j \in Inputs PROVE DispatchShape(M)!(j)
      BY DEF DispatchShape
    <3>1. CASE j = i
      BY <1>1, <1>2, <1>4, <3>1 DEF PutBack, DispatchShape
    <3>2. CASE j # i
      <4>1. L.dispatch[j] \notin {"saving", "steering"}
        BY <1>1, <1>2, <3>2 DEF DispatchShape
      <4>2. M.dispatch[j] = L.dispatch[j] /\ M.state[j] = L.state[j]
        BY <3>2 DEF PutBack
      <4> QED BY <1>1, <1>2, <1>4, <4>1, <4>2 DEF PutBack, DispatchShape
    <3> QED BY <3>1, <3>2
  <2>4. StatusShape(M)
    <3>1. \A j \in ToSet(M.queued) : M.state[j] \in {"queued", "unknown"}
      BY <1>1, <1>4, EnvIs DEF PutBack, StatusShape
    <3>2. M.active.stage = "running"
      BY <1>3 DEF PutBack
    <3> QED BY <3>1, <3>2 DEF StatusShape
  <2> QED BY <2>1, <2>2, <2>3, <2>4 DEF Shape, PutBack
<1>9. NativeInv(M)
  BY <1>1, <1>5 DEF PutBack, NativeInv, Idle
<1>10. KnownInv(M)
  BY <1>1, EnvIs DEF PutBack, KnownInv, EnvType
<1>11. EventInv(M)
  <2> SUFFICES ASSUME NEW j \in Inputs PROVE EventInv(M)!(j)
    BY DEF EventInv
  <2>1. InFlight("consumed", j) => j \in ToSet(context)
    BY <1>1 DEF EventInv
  <2>2. ~(loop.pc = "observing" /\ loop.event = Status("queued", j))
    BY <1>6 DEF InFlight
  <2>3. loop.pc = "observing" /\ loop.event = Status("consumed", j) => M.state[j] = "consumed"
    BY <1>1, <1>2 DEF EventInv, PutBack
  <2> QED BY <1>6, <2>1, <2>2, <2>3
<1>12. InboxInv(M)
  <2>1. Ids \intersect ToSet(M.active.steered) = {}
    BY <1>1, <1>2, <1>7 DEF PutBack, InboxInv
  <2>2. open => Ids \intersect ToSet(M.queued) = {}
    BY <1>1, <1>4, <1>7 DEF InboxInv
  <2>3. M.active.prompted = L.active.prompted /\ M.active.steered = L.active.steered
    BY DEF PutBack
  <2> QED BY <1>1, <1>5, <2>1, <2>2, <2>3 DEF InboxInv
<1>13. RetainedInv(M)
  <2>1. ~open => Ids \intersect Live(M) = {}
    BY <1>1, <1>2, <1>3, <1>5, <1>7 DEF RetainedInv
  <2> QED BY <1>1, <1>3, <1>5, <2>1 DEF PutBack, RetainedInv, Early
<1>14. ContextInv(M)
  <2>1. ASSUME NEW j \in ToSet(context) \intersect Live(M)
        PROVE  \/ M.state[j] = "consumed" \/ InFlight("consumed", j)
               \/ j \in ToSet(M.active.prompted) /\ InFlight("consumed", First(M))
    BY <1>1, <1>2, <1>5, <1>7, EnvIs DEF ContextInv, PutBack
  <2>2. \A j \in ToSet(M.active.steered) : M.state[j] = "consumed" => j \in ToSet(context)
    BY <1>1, <1>2, EnvIs DEF ContextInv, PutBack
  <2>3. \A j \in Inputs : M.dispatch[j] \in {"saving", "steering"} =>
          j \notin ToSet(context) \union Ids
    BY <1>1, <1>7 DEF ContextInv, PutBack
  <2>4. ToSet(context) \intersect ToSet(M.queued) = {}
    BY <1>1, <1>4, <1>7 DEF ContextInv
  <2> QED BY <1>5, <2>1, <2>2, <2>3, <2>4 DEF ContextInv, PutBack
<1>15. SaveInv(M)
  <2>1. \A j \in Inputs : M.dispatch[j] = "steering" => j \in M.durable
    BY <1>1 DEF SaveInv, PutBack
  <2>2. M.active.stage = "running"
    BY <1>3 DEF PutBack
  <2> QED BY <2>1, <2>2 DEF SaveInv
<1> QED BY <1>8, <1>9, <1>10, <1>11, <1>12, <1>13, <1>14, <1>15 DEF Env

\* The end of a turn in an open lane: no native turn runs, no event is on its
\* way, and what the provider still keeps is the head of the queue, if it is
\* of the lane at all.
LEMMA FinishOpen ==
  ASSUME NEW L, Shape(L), EnvType, Env(L), HasTurn(L), ~L.closed, Quiet(L),
         lane' = Finish(L), loop' = Idle, stream = <<>>, stream' = <<>>, ~open, open' = FALSE,
         context' = context, \A k, i : ~InFlight(k, i),
         \/ inbox' = <<>> /\ retained' = {}
         \/ inbox' = inbox /\ retained' = retained /\ L.active.stage # "waiting"
  PROVE  Inv'
<1>1. /\ L \in Lane /\ TurnShape(L) /\ QueueShape(L) /\ DispatchShape(L) /\ StatusShape(L)
      /\ NativeInv(L) /\ KnownInv(L) /\ EventInv(L) /\ InboxInv(L)
      /\ RetainedInv(L) /\ ContextInv(L) /\ SaveInv(L)
  BY DEF Shape, Env
<1>2. Shape(lane') /\ Finished(L, lane')
  BY FinishShape
<1>3. EnvType'
  BY NoneIs DEF EnvType, Loops
<1>4. /\ lane'.closed = L.closed /\ lane'.dispatch = L.dispatch
      /\ HasTurn(lane') => /\ L.queued # <<>> /\ First(lane') = Head(L.queued)
                           /\ lane'.active.stage = "waiting" /\ lane'.active.interrupted = FALSE
                           /\ lane'.active.steered = <<>>
      /\ Live(lane') \subseteq Live(L)
      /\ \A i \in Live(lane') : \/ i \in ToSet(L.queued)
                                \/ i \in Ridden(L) /\ L.active.superseded /\ Unread(L, i)
  <2>1. /\ Live(lane') \subseteq ToSet(L.queued) \union
             {i \in Ridden(L) : (L.active.superseded \/ L.closed) /\ Unread(L, i)}
        /\ ToSet(L.queued) \union Ridden(L) \subseteq Live(L)
    BY <1>2 DEF Finished, Live
  <2>2. /\ Live(lane') \subseteq Live(L)
        /\ \A i \in Live(lane') : \/ i \in ToSet(L.queued)
                                  \/ i \in Ridden(L) /\ L.active.superseded /\ Unread(L, i)
    BY <2>1
  <2>3. lane'.closed = L.closed /\ lane'.dispatch = L.dispatch
    BY <1>2 DEF Finished
  <2>4. HasTurn(lane') => /\ L.queued # <<>> /\ First(lane') = Head(L.queued)
                         /\ lane'.active.stage = "waiting" /\ lane'.active.interrupted = FALSE
                         /\ lane'.active.steered = <<>>
    BY <1>2 DEF Finished
  <2> QED BY <2>2, <2>3, <2>4
<1>5. ~InNative(lane') /\ \A k, i : ~InFlight(k, i)'
  <2>1. ~InNative(lane')
    BY <1>4 DEF InNative, Native
  <2>2. \A k, i : ~InFlight(k, i)'
    BY NoneIs DEF InFlight, Idle
  <2> QED BY <2>1, <2>2
<1>6. ToSet(context) \intersect Live(lane') = {}
  <2> SUFFICES ASSUME NEW i \in ToSet(context) \intersect Live(lane') PROVE FALSE
    OBVIOUS
  <2>1. L.state[i] = "consumed" /\ i \notin ToSet(L.queued)
    BY <1>1, <1>4 DEF ContextInv
  <2> QED BY <1>4, <2>1 DEF Unread
<1>7. /\ ToSet(lane'.queued) \subseteq Live(lane')
      /\ HasTurn(lane') => ToSet(lane'.active.prompted) \subseteq Live(lane')
  BY DEF Live, Ridden
<1>8. NativeInv(lane)'
  BY <1>3, <1>4, NoneIs DEF NativeInv, EnvType, Idle
<1>9. \A k \in 1..Len(inbox') : k \in 1..Len(inbox) /\ inbox'[k] = inbox[k] /\ inbox' = inbox
  <2>1. inbox' = <<>> => 1..Len(inbox') = {}
    OBVIOUS
  <2> QED BY <2>1
<1>10. KnownInv(lane)'
  <2>1. \A i \in Inputs : L.state[i] # "new" => lane'.state[i] # "new"
    BY <1>2 DEF Finished
  <2>2. /\ \A k \in 1..Len(inbox) : Parts(k) \subseteq Inputs
        /\ ToSet(context) \subseteq Inputs /\ retained \subseteq Inputs /\ retained' \subseteq retained
    BY EnvIs DEF EnvType
  <2> QED BY <1>1, <1>9, <2>1, <2>2 DEF KnownInv, Parts
<1>11. EventInv(lane)'
  BY <1>5 DEF EventInv, Idle
<1>12. InboxInv(lane)'
  BY <1>1, <1>4, <1>9, NoneIs DEF InboxInv, Parts
<1>13. RetainedInv(lane)'
  <2>1. retained' \intersect Live(lane') \subseteq Ids'
    BY <1>1, <1>4 DEF RetainedInv, Ids
  <2>2. ASSUME NEW i \in Ids' \intersect Live(lane'), HasTurn(lane') PROVE i = First(lane')
    <3>1. i \in Ids \intersect Live(L) /\ L.active.stage # "waiting" /\ inbox # <<>>
      BY <1>4, <1>9 DEF Ids
    <3>2. CASE InEarly(L)
      <4>1. i = First(L) /\ i \in ToSet(L.active.prompted)
        BY <1>1, <3>1, <3>2 DEF RetainedInv, TurnShape
      <4>2. L.active.superseded
        BY <1>1, <1>4, <4>1 DEF QueueShape
      <4> QED BY <1>1, <3>1, <3>2, <4>2 DEF TurnShape, RetainedInv, InEarly
    <3>3. CASE InNative(L)
      BY <1>1, <1>4, <2>2, <3>1, <3>3 DEF RetainedInv
    <3>4. InEarly(L) \/ InNative(L)
      BY EnvIs DEF InEarly, InNative, Early, Native, Stages
    <3> QED BY <3>2, <3>3, <3>4
  <2> QED BY <1>4, <1>5, <2>1, <2>2 DEF RetainedInv, InEarly
<1>14. ContextInv(lane)'
  <2>1. \A i \in Inputs : lane'.dispatch[i] \notin {"saving", "steering"}
    BY <1>4 DEF Quiet
  <2>2. HasTurn(lane') => ToSet(lane'.active.steered) = {}
    BY <1>4, NoneIs
  <2>3. /\ ToSet(context) \intersect ToSet(lane'.queued) = {}
        /\ HasTurn(lane') => ToSet(context) \intersect ToSet(lane'.active.prompted) = {}
    BY <1>6, <1>7
  <2> QED BY <1>6, <2>1, <2>2, <2>3 DEF ContextInv, InEarly
<1>15. SaveInv(lane)'
  BY <1>4 DEF SaveInv, Quiet
<1> QED BY <1>2, <1>3, <1>8, <1>10, <1>11, <1>12, <1>13, <1>14, <1>15 DEF Inv, Env

\* A step that leaves the lane closed and the provider with nothing.
LEMMA ClosedEnv ==
  ASSUME Shape(lane'), lane'.closed, EnvType, Distinct(context),
         \A i \in ToSet(context) : lane'.state[i] # "new",
         loop' = Idle, stream' = <<>>, inbox' = <<>>, retained' = {}, open' = FALSE,
         context' = context
  PROVE  Inv'
<1>1. EnvType'
  BY NoneIs DEF EnvType, Loops
<1>2. \A k, i : ~InFlight(k, i)'
  BY NoneIs DEF InFlight, Idle
<1>3. NativeInv(lane)'
  BY DEF NativeInv, Idle
<1>4. KnownInv(lane)' /\ EventInv(lane)'
  BY <1>2 DEF KnownInv, EventInv, Idle
<1>5. InboxInv(lane)' /\ RetainedInv(lane)'
  BY DEF InboxInv, RetainedInv, Ids
<1>6. ContextInv(lane)' /\ SaveInv(lane)'
  BY DEF ContextInv, SaveInv
<1> QED BY <1>1, <1>3, <1>4, <1>5, <1>6 DEF Inv, Env

\* The end of a turn in a lane that is closed.
LEMMA FinishClosed ==
  ASSUME NEW L, Shape(L), HasTurn(L), L.closed, lane' = Finish(L), EnvType, Distinct(context),
         \A i \in ToSet(context) : L.state[i] # "new",
         loop' = Idle, stream' = <<>>, inbox' = <<>>, retained' = {}, open' = FALSE,
         context' = context
  PROVE  Inv'
<1>1. Shape(lane') /\ Finished(L, lane')
  BY FinishShape
<1>2. \A i \in ToSet(context) : lane'.state[i] # "new"
  BY <1>1, EnvIs DEF Finished
<1>3. lane'.closed
  BY <1>1 DEF Finished
<1> QED BY <1>1, <1>2, <1>3, ClosedEnv

\* What holds for a lane holds after a step that leaves the rest alone.
LEMMA EnvUnchanged ==
  ASSUME Shape(lane'), EnvType, Env(lane'), UNCHANGED <<loop, providerVars>>
  PROVE  Inv'
<1>1. EnvType' /\ Shape(lane)'
  BY DEF EnvType, providerVars
<1>2. \A k, i : InFlight(k, i)' <=> InFlight(k, i)
  BY DEF InFlight, providerVars
<1>3. NativeInv(lane)' /\ KnownInv(lane)'
  BY DEF Env, NativeInv, KnownInv, providerVars, Parts
<1>4. EventInv(lane)'
  BY <1>2 DEF Env, EventInv, providerVars
<1>5. InboxInv(lane)'
  BY DEF Env, InboxInv, providerVars, Ids, Parts
<1>6. RetainedInv(lane)'
  BY <1>2 DEF Env, RetainedInv, providerVars, Ids
<1>7. ContextInv(lane)' /\ SaveInv(lane)'
  BY <1>2 DEF Env, ContextInv, SaveInv, providerVars, Ids
<1> QED BY <1>1, <1>3, <1>4, <1>5, <1>6, <1>7 DEF Inv, Env

\* A step of the lane alone that keeps what the environment knows of it.
LEMMA KeepStep ==
  ASSUME Inv, Shape(lane'), Kept(lane, lane'), KeptInterrupt(lane, lane'),
         UNCHANGED <<loop, providerVars>>
  PROVE  Inv'
BY KeepEnv, EnvUnchanged DEF Inv

\* Before its message is sent a turn only moves from stage to stage, and only
\* the statuses of its own inputs change.
Staged(L, s, M) ==
  /\ M \in Lane /\ HasTurn(M)
  /\ M.closed = L.closed /\ M.queued = L.queued /\ M.carried = L.carried
  /\ M.turns = L.turns /\ M.owner = L.owner /\ M.dispatch = L.dispatch
  /\ M.active.id = L.active.id /\ M.active.first = L.active.first
  /\ M.active.prompted = L.active.prompted /\ M.active.steered = L.active.steered
  /\ M.active.ready = L.active.ready /\ M.active.pending = L.active.pending
  /\ M.active.last = L.active.last /\ M.active.sealed = L.active.sealed
  /\ M.active.superseded = L.active.superseded /\ M.active.stage = s
  /\ M.active.interrupted = L.active.interrupted /\ M.active.stopped = L.active.stopped

\* A turn that goes on before its message is sent.
LEMMA StagedStep ==
  ASSUME Inv, AtStage("waiting") \/ AtStage("current") \/ AtStage("binding") \/ AtStage("answering"),
         NEW s \in Early \ {"waiting"}, Staged(lane, s, lane'),
         AtStage("waiting") => ~lane.active.interrupted,
         \A i \in Inputs :
           \/ lane'.state[i] = lane.state[i]
           \/ /\ lane'.state[i] # "new" /\ i \in ToSet(lane.active.prompted)
              /\ lane.closed \/ lane.state[i] = "queued",
         StatusShape(lane'),
         s = "sending" /\ ~lane.closed => ToSet(lane.active.prompted) \subseteq lane'.durable,
         UNCHANGED <<loop, providerVars>>
  PROVE  Inv'
<1>1. /\ Shape(lane) /\ EnvType /\ Env(lane) /\ NativeInv(lane)
      /\ TurnShape(lane) /\ QueueShape(lane) /\ DispatchShape(lane)
  BY DEF Inv, Shape, Env
<1>2. /\ HasTurn(lane) /\ Stage \in Early /\ Stage \notin Native /\ Stage # "running"
      /\ s \notin Native /\ s # "running" /\ lane'.active.stage = s
  BY DEF AtStage, Early, Native, Staged
<1>3. loop = Idle /\ lane.active.last = NoInput
  BY <1>1, <1>2 DEF NativeInv, InNative, TurnShape, Stage
<1>4. \A i \in Inputs : lane.dispatch[i] \notin {"saving", "steering"}
  BY <1>1, <1>2, <1>3, LaneAssumption DEF DispatchShape
<1>5. First(lane') = First(lane) /\ Live(lane') = Live(lane) /\ HasTurn(lane')
  BY <1>2 DEF Staged, First, Live, Ridden
<1>6. TurnShape(lane')
  BY <1>1, <1>2, <1>5 DEF TurnShape, Staged, Stage
<1>7. QueueShape(lane')
  <2>1. \A i \in Live(lane') : lane'.state[i] # "new"
    BY <1>1, <1>5, EnvIs DEF QueueShape
  <2> QED BY <1>1, <1>2, <2>1 DEF QueueShape, Staged
<1>8. DispatchShape(lane')
  <2> SUFFICES ASSUME NEW i \in Inputs PROVE DispatchShape(lane')!(i)
    BY DEF DispatchShape
  <2>1. /\ lane'.dispatch[i] = lane.dispatch[i] /\ lane'.closed = lane.closed
        /\ lane'.owner[i] = lane.owner[i] /\ lane'.queued = lane.queued
        /\ lane'.active.id = lane.active.id /\ lane'.active.last = lane.active.last
        /\ lane'.active.sealed = lane.active.sealed /\ lane'.active.pending = lane.active.pending
    BY DEF Staged
  <2>2. CASE lane'.state[i] = lane.state[i]
    BY <1>1, <1>2, <1>5, <2>1, <2>2 DEF DispatchShape
  <2>3. CASE lane'.state[i] # lane.state[i]
    <3>1. lane'.state[i] # "new" /\ (lane.closed \/ lane.state[i] = "queued")
      BY <2>3
    <3> QED BY <1>1, <1>2, <1>3, <1>4, <1>5, <2>1, <3>1, LaneAssumption DEF DispatchShape
  <2> QED BY <2>2, <2>3
<1>9. Shape(lane')
  BY <1>6, <1>7, <1>8 DEF Shape, Staged
<1>10. Kept(lane, lane')
  <2>1. \A i \in Inputs :
       /\ lane.state[i] # "new" => lane'.state[i] # "new"
       /\ lane.state[i] = "consumed" /\ ~lane'.closed => lane'.state[i] = "consumed"
       /\ lane'.state[i] = "consumed" /\ ~lane'.closed =>
            lane.state[i] = "consumed" \/ i \in ToSet(lane.active.prompted)
       /\ lane'.dispatch[i] \notin {"saving", "steering"}
    BY <1>4 DEF Staged
  <2>2. loop.pc # "observing"
    BY <1>3 DEF Idle
  <2>3. /\ lane'.active.id = lane.active.id
        /\ lane'.active.prompted = lane.active.prompted /\ lane'.active.steered = lane.active.steered
        /\ lane'.active.last = lane.active.last /\ lane'.active.pending = lane.active.pending
        /\ lane'.active.sealed = lane.active.sealed
        /\ lane'.active.interrupted = lane.active.interrupted
        /\ lane'.closed = lane.closed /\ lane'.queued = lane.queued /\ lane'.carried = lane.carried
    BY DEF Staged
  <2>4. lane'.active.interrupted => Stage # "waiting"
    BY <1>2, <2>3 DEF AtStage
  <2> QED BY <1>2, <1>5, <2>1, <2>2, <2>3, <2>4 DEF Kept, KeptTurn, KeptInput, Stage
<1>11. KeptInterrupt(lane, lane')
  BY <1>2 DEF Staged, AtStage, KeptInterrupt, Stage
<1> QED BY <1>9, <1>10, <1>11, KeepStep

\* The fields of a lane whose turn goes on to a stage.
LEMMA StageIs ==
  ASSUME NEW U \in Lane, HasTurn(U), NEW s \in Stages, NEW A
  PROVE  /\ Staged(U, s, [U EXCEPT !.active.stage = s])
         /\ [U EXCEPT !.active.stage = s].state = U.state
         /\ [U EXCEPT !.active.stage = s].durable = U.durable
         /\ A \subseteq Inputs =>
              /\ Staged(U, s, [U EXCEPT !.active.stage = s, !.answered = @ \union A])
              /\ [U EXCEPT !.active.stage = s, !.answered = @ \union A].state = U.state
<1> DEFINE t == [U.active EXCEPT !.stage = s]
           M == [U EXCEPT !.active = t]
           N == [U EXCEPT !.active = t, !.answered = @ \union A]
<1>1. /\ t \in Turn /\ t.id = U.active.id /\ t.first = U.active.first
      /\ t.prompted = U.active.prompted /\ t.steered = U.active.steered
      /\ t.ready = U.active.ready /\ t.pending = U.active.pending
      /\ t.last = U.active.last /\ t.sealed = U.active.sealed
      /\ t.superseded = U.active.superseded /\ t.stage = s
      /\ t.interrupted = U.active.interrupted /\ t.stopped = U.active.stopped
  <2>1. U.active \in Turn
    BY LaneIs
  <2> QED BY <2>1 DEF Turn
<1> HIDE DEF t
<1>2. /\ M \in Lane /\ M.active = t /\ M.queued = U.queued /\ M.carried = U.carried
      /\ M.closed = U.closed /\ M.turns = U.turns /\ M.owner = U.owner
      /\ M.dispatch = U.dispatch /\ M.state = U.state /\ M.durable = U.durable
  BY <1>1 DEF Lane
<1>3. A \subseteq Inputs =>
      /\ N \in Lane /\ N.active = t /\ N.queued = U.queued /\ N.carried = U.carried
      /\ N.closed = U.closed /\ N.turns = U.turns /\ N.owner = U.owner
      /\ N.dispatch = U.dispatch /\ N.state = U.state
  BY <1>1 DEF Lane
<1>4. [U EXCEPT !.active.stage = s] = M /\ [U EXCEPT !.active.stage = s, !.answered = @ \union A] = N
  BY DEF t
<1>5. t # NoTurn
  BY <1>1, NoTurnIsNone
<1> HIDE DEF M, N
<1> QED BY <1>1, <1>2, <1>3, <1>4, <1>5 DEF Staged, HasTurn

\* The turn gets the mutex.
LEMMA TakeMutexMoves ==
  ASSUME Inv, AtStage("waiting"), ~lane.active.interrupted, ~lane.closed,
         lane' = [lane EXCEPT !.active.stage = "current"], UNCHANGED <<loop, providerVars>>
  PROVE  Inv'
<1>1. Shape(lane) /\ lane \in Lane /\ StatusShape(lane) /\ HasTurn(lane) /\ Stage = "waiting"
  BY DEF Inv, Shape, AtStage
<1>2. Staged(lane, "current", lane') /\ lane'.state = lane.state
  BY <1>1, StageIs DEF Stages
<1>3. StatusShape(lane')
  BY <1>1, <1>2 DEF StatusShape, Staged, Stage, HasTurn
<1> QED BY <1>2, <1>3, StagedStep DEF Early

\* The middleware answers in the model's place.
LEMMA MiddlewareAnswersStep ==
  ASSUME Inv, NEW st \in {"consumed", "failed"}, MiddlewareAnswers(st)
  PROVE  Inv'
<1>1. /\ lane \in Lane /\ TurnShape(lane) /\ StatusShape(lane) /\ HasTurn(lane)
      /\ Stage = "current" /\ First(lane) \in Inputs /\ ToSet(lane.active.prompted) \subseteq Inputs
      /\ First(lane) \in ToSet(lane.active.prompted) /\ Bound(lane) \subseteq Inputs
  BY EnvIs DEF Inv, MiddlewareAnswers, AtStage, TurnShape, Bound
<1> DEFINE U == Update(lane, {First(lane)}, st)
           A == ToSet(lane.active.prompted)
<1>2. Updated(lane, {First(lane)}, st, U)
  <2>1. st \in States /\ {First(lane)} \subseteq Inputs
    BY <1>1 DEF States, Settled
  <2> QED BY <1>1, <2>1, UpdateIs
<1>3. lane' = [U EXCEPT !.active.stage = "answering", !.answered = @ \union A]
  BY DEF MiddlewareAnswers
<1> HIDE DEF U, A
<1>4. U \in Lane /\ HasTurn(U)
  BY <1>1, <1>2 DEF Updated, HasTurn
<1>5. Staged(U, "answering", lane') /\ lane'.state = U.state
  BY <1>1, <1>3, <1>4, StageIs DEF Stages, A
<1>6. Staged(lane, "answering", lane')
  BY <1>2, <1>5 DEF Staged, Updated
<1>7. \A i \in Inputs : lane'.state[i] = IF i = First(lane) THEN st ELSE lane.state[i]
  BY <1>2, <1>5 DEF Updated
<1>8. StatusShape(lane')
  <2> SUFFICES ASSUME ~lane.closed PROVE StatusShape(lane')
    BY <1>6 DEF StatusShape, Staged
  <2>1. ASSUME NEW i \in ToSet(lane'.queued) PROVE lane'.state[i] \in {"queued", "unknown"}
    <3>1. i \in ToSet(lane.queued) /\ i \in Inputs /\ i # First(lane)
      BY <1>1, <1>6, <2>1, EnvIs DEF Staged, Inv, QueueShape
    <3> QED BY <1>1, <1>7, <3>1 DEF StatusShape
  <2>2. \A i \in Bound(lane') : lane'.state[i] = "queued"
    BY <1>1, <1>6, <1>7 DEF StatusShape, Staged, Bound, First, Stage
  <2> QED BY <1>6, <2>1, <2>2 DEF StatusShape, Staged
<1>9. \A i \in Inputs :
        \/ lane'.state[i] = lane.state[i]
        \/ /\ lane'.state[i] # "new" /\ i \in ToSet(lane.active.prompted)
           /\ lane.closed \/ lane.state[i] = "queued"
  BY <1>1, <1>7 DEF StatusShape, Stage
<1>10. AtStage("current") /\ UNCHANGED <<loop, providerVars>>
  BY DEF MiddlewareAnswers
<1> QED BY <1>6, <1>8, <1>9, <1>10, StagedStep DEF Early, AtStage

\* Its verdict is written and goes to the bound inputs.
LEMMA AnswerSavedStep ==
  ASSUME Inv, AnswerSaved
  PROVE  Inv'
<1>1. /\ lane \in Lane /\ TurnShape(lane) /\ StatusShape(lane) /\ HasTurn(lane)
      /\ Stage = "answering" /\ First(lane) \in Inputs
      /\ First(lane) \in ToSet(lane.active.prompted) /\ Bound(lane) \subseteq Inputs
      /\ lane.state[First(lane)] \in States /\ lane.state[First(lane)] # "new"
  <2>1. /\ lane \in Lane /\ TurnShape(lane) /\ StatusShape(lane) /\ QueueShape(lane)
        /\ HasTurn(lane) /\ Stage = "answering" /\ First(lane) \in Inputs
        /\ Bound(lane) \subseteq Inputs /\ First(lane) \in ToSet(lane.active.prompted)
    BY EnvIs DEF Inv, AnswerSaved, AtStage, Bound, TurnShape
  <2> QED BY <2>1, LaneIs DEF QueueShape, Live, Ridden
<1> DEFINE st == lane.state[First(lane)]
           U == Update(lane, Bound(lane), st)
<1>2. Updated(lane, Bound(lane), st, U)
  BY <1>1, UpdateIs
<1>3. lane' = [U EXCEPT !.active.stage = "answered"]
  BY DEF AnswerSaved
<1> HIDE DEF U
<1>4. U \in Lane /\ HasTurn(U)
  BY <1>1, <1>2 DEF Updated, HasTurn
<1>5. Staged(U, "answered", lane') /\ lane'.state = U.state
  BY <1>3, <1>4, StageIs DEF Stages
<1>6. Staged(lane, "answered", lane')
  BY <1>2, <1>5 DEF Staged, Updated
<1>7. \A i \in Inputs : lane'.state[i] = IF i \in Bound(lane) THEN st ELSE lane.state[i]
  BY <1>2, <1>5 DEF Updated
<1> HIDE DEF st
<1>8. StatusShape(lane')
  <2> SUFFICES ASSUME ~lane.closed PROVE StatusShape(lane')
    BY <1>6 DEF StatusShape, Staged
  <2>1. ASSUME NEW i \in ToSet(lane'.queued) PROVE lane'.state[i] \in {"queued", "unknown"}
    <3>1. i \in ToSet(lane.queued) /\ i \in Inputs /\ i \notin Bound(lane)
      BY <1>1, <1>6, <2>1, EnvIs DEF Staged, Inv, QueueShape, Bound
    <3> QED BY <1>1, <1>7, <3>1 DEF StatusShape
  <2> QED BY <1>6, <2>1 DEF StatusShape, Staged
<1>9. \A i \in Inputs :
        \/ lane'.state[i] = lane.state[i]
        \/ /\ lane'.state[i] # "new" /\ i \in ToSet(lane.active.prompted)
           /\ lane.closed \/ lane.state[i] = "queued"
  BY <1>1, <1>7 DEF StatusShape, Stage, Bound, st
<1>10. AtStage("answering") /\ UNCHANGED <<loop, providerVars>>
  BY DEF AnswerSaved
<1> QED BY <1>6, <1>8, <1>9, <1>10, StagedStep DEF Early, AtStage

\* beforeSend() records the dispatch boundary.
LEMMA BeforeSendStep ==
  ASSUME Inv, BeforeSend
  PROVE  Inv'
<1> DEFINE P == ToSet(lane.active.prompted)
           U == Update(lane, P, "submitted")
<1>1. /\ lane \in Lane /\ StatusShape(lane) /\ HasTurn(lane) /\ Stage = "current"
      /\ P \subseteq Inputs
  BY EnvIs DEF Inv, BeforeSend, AtStage
<1> HIDE DEF P
<1>2. Updated(lane, P, "submitted", U)
  BY <1>1, UpdateIs DEF States
<1>3. lane' = [U EXCEPT !.active.stage = "binding"]
  BY DEF BeforeSend, P
<1> HIDE DEF U
<1>4. U \in Lane /\ HasTurn(U)
  BY <1>1, <1>2 DEF Updated, HasTurn
<1>5. Staged(U, "binding", lane') /\ lane'.state = U.state
  BY <1>3, <1>4, StageIs DEF Stages
<1>6. Staged(lane, "binding", lane')
  BY <1>2, <1>5 DEF Staged, Updated
<1>7. \A i \in Inputs : lane'.state[i] = IF i \in P THEN "submitted" ELSE lane.state[i]
  BY <1>2, <1>5 DEF Updated
<1>8. StatusShape(lane')
  <2> SUFFICES ASSUME ~lane.closed PROVE StatusShape(lane')
    BY <1>6 DEF StatusShape, Staged
  <2>1. ASSUME NEW i \in ToSet(lane'.queued) PROVE lane'.state[i] \in {"queued", "unknown"}
    <3>1. i \in ToSet(lane.queued) /\ i \in Inputs /\ i \notin P
      BY <1>1, <1>6, <2>1, EnvIs DEF Staged, Inv, QueueShape, P
    <3> QED BY <1>1, <1>7, <3>1 DEF StatusShape
  <2>2. \A i \in ToSet(lane'.active.prompted) : lane'.state[i] = "submitted"
    BY <1>1, <1>6, <1>7 DEF Staged, P
  <2> QED BY <1>6, <2>1, <2>2 DEF StatusShape, Staged
<1>9. \A i \in Inputs :
        \/ lane'.state[i] = lane.state[i]
        \/ /\ lane'.state[i] # "new" /\ i \in ToSet(lane.active.prompted)
           /\ lane.closed \/ lane.state[i] = "queued"
  BY <1>1, <1>7 DEF StatusShape, Stage, P
<1>10. AtStage("current") /\ UNCHANGED <<loop, providerVars>>
  BY DEF BeforeSend
<1> QED BY <1>6, <1>8, <1>9, <1>10, StagedStep DEF Early, AtStage

\* And that is written.
LEMMA BeforeSendSavedStep ==
  ASSUME Inv, BeforeSendSaved
  PROVE  Inv'
<1> DEFINE P == ToSet(lane.active.prompted)
           U == Saved(lane, P)
<1>1. /\ lane \in Lane /\ StatusShape(lane) /\ HasTurn(lane) /\ Stage = "binding"
      /\ P \subseteq Inputs
  BY EnvIs DEF Inv, BeforeSendSaved, AtStage
<1> HIDE DEF P
<1>2. /\ U \in Lane /\ U.active = lane.active /\ U.queued = lane.queued /\ U.carried = lane.carried
      /\ U.closed = lane.closed /\ U.turns = lane.turns /\ U.dispatch = lane.dispatch
      /\ U.owner = lane.owner /\ U.state = lane.state /\ U.durable = lane.durable \union P
  BY <1>1 DEF Saved, Lane
<1>3. lane' = [U EXCEPT !.active.stage = "sending"]
  BY DEF BeforeSendSaved, P
<1> HIDE DEF U
<1>4. HasTurn(U)
  BY <1>1, <1>2 DEF HasTurn
<1>5. /\ Staged(U, "sending", lane') /\ lane'.state = U.state /\ lane'.durable = U.durable
  BY <1>2, <1>3, <1>4, StageIs DEF Stages
<1>6. Staged(lane, "sending", lane')
  BY <1>2, <1>5 DEF Staged
<1>7. StatusShape(lane')
  BY <1>1, <1>2, <1>5, <1>6 DEF StatusShape, Staged, Stage
<1>8. AtStage("binding") /\ UNCHANGED <<loop, providerVars>>
  BY DEF BeforeSendSaved
<1> QED BY <1>2, <1>5, <1>6, <1>7, <1>8, StagedStep DEF Early, AtStage, P

\* A step of the dispatch of input i that leaves the queue alone.
DispatchMoved(L, i, M) ==
  /\ M \in Lane
  /\ M.active = L.active /\ M.queued = L.queued /\ M.carried = L.carried
  /\ M.closed = L.closed /\ M.turns = L.turns /\ M.owner = L.owner
  /\ L.durable \subseteq M.durable
  /\ \A j \in Inputs : j # i => M.dispatch[j] = L.dispatch[j] /\ M.state[j] = L.state[j]

\* A dispatch that goes on, or is over, without a change of the queue.
LEMMA DispatchMoves ==
  ASSUME Inv, NEW i \in Inputs, lane.dispatch[i] # "none", DispatchMoved(lane, i, lane'),
         \/ lane'.dispatch[i] = "none"
         \/ /\ lane.dispatch[i] = "saving" /\ lane'.dispatch[i] = "steering"
            /\ lane'.state[i] = lane.state[i] /\ i \in lane'.durable,
         \/ lane'.state[i] = lane.state[i]
         \/ /\ lane.state[i] \notin {"consumed", "cancelled"} /\ lane'.state[i] = "unknown"
         \/ /\ lane.state[i] \notin {"consumed", "cancelled", "queued"}
            /\ lane'.state[i] = "accepted" /\ lane.dispatch[i] = "delivered",
         UNCHANGED <<loop, providerVars>>
  PROVE  Inv'
<1>1. /\ Shape(lane) /\ EnvType /\ Env(lane) /\ NativeInv(lane) /\ SaveInv(lane)
      /\ TurnShape(lane) /\ QueueShape(lane) /\ DispatchShape(lane) /\ StatusShape(lane)
  BY DEF Inv, Shape, Env
<1>2. /\ lane'.active = lane.active /\ lane'.queued = lane.queued /\ lane'.carried = lane.carried
      /\ lane'.closed = lane.closed /\ lane'.turns = lane.turns /\ lane'.owner = lane.owner
      /\ HasTurn(lane') <=> HasTurn(lane)
      /\ Live(lane') = Live(lane) /\ First(lane') = First(lane) /\ Bound(lane') = Bound(lane)
  BY DEF DispatchMoved, HasTurn, Live, Ridden, First, Bound
<1>3. \A j \in Inputs : j # i => lane'.dispatch[j] = lane.dispatch[j] /\ lane'.state[j] = lane.state[j]
  BY DEF DispatchMoved
<1>4. lane.state[i] # "new" /\ lane'.state[i] # "new"
  BY <1>1 DEF DispatchShape
<1>5. ~lane.closed /\ HasTurn(lane) /\ i \in ToSet(lane.active.prompted) =>
        lane'.state[i] = lane.state[i]
  BY <1>1, LaneAssumption DEF DispatchShape, TurnShape
<1>6. ~lane.closed /\ lane.state[i] \in {"queued", "unknown"} =>
        lane'.state[i] \in {"queued", "unknown"}
  BY <1>1 DEF DispatchShape
<1>7. TurnShape(lane')
  BY <1>1, <1>2 DEF TurnShape
<1>8. QueueShape(lane')
  <2>1. \A j \in Live(lane') : lane'.state[j] # "new"
    BY <1>1, <1>2, <1>3, <1>4, EnvIs DEF QueueShape
  <2> QED BY <1>1, <1>2, <2>1 DEF QueueShape
<1>9. DispatchShape(lane')
  <2> SUFFICES ASSUME NEW j \in Inputs PROVE DispatchShape(lane')!(j)
    BY DEF DispatchShape
  <2>1. CASE j # i
    BY <1>1, <1>2, <1>3, <2>1 DEF DispatchShape
  <2>2. CASE j = i
    BY <1>1, <1>2, <1>4, <2>2 DEF DispatchShape
  <2> QED BY <2>1, <2>2
<1>10. StatusShape(lane')
  <2> SUFFICES ASSUME ~lane.closed PROVE StatusShape(lane')
    BY <1>2 DEF StatusShape
  <2>1. \A j \in ToSet(lane'.queued) : lane'.state[j] \in {"queued", "unknown"}
    BY <1>1, <1>2, <1>3, <1>6, EnvIs DEF StatusShape
  <2>2. HasTurn(lane) => \A j \in ToSet(lane.active.prompted) : lane'.state[j] = lane.state[j]
    BY <1>1, <1>3, <1>5, EnvIs
  <2>3. HasTurn(lane) => Bound(lane) \subseteq ToSet(lane.active.prompted)
    BY DEF Bound
  <2> QED BY <1>1, <1>2, <2>1, <2>2, <2>3 DEF StatusShape
<1>11. Shape(lane')
  BY <1>7, <1>8, <1>9, <1>10 DEF Shape, DispatchMoved
<1>12. Kept(lane, lane')
  <2>1. ASSUME NEW j \in Inputs
        PROVE  /\ lane.state[j] # "new" => lane'.state[j] # "new"
               /\ lane.state[j] = "consumed" => lane'.state[j] = "consumed"
               /\ lane'.state[j] = "consumed" => lane.state[j] = "consumed"
               /\ lane'.dispatch[j] \in {"saving", "steering"} => lane.dispatch[j] \in {"saving", "steering"}
               /\ lane'.dispatch[j] = "steering" => lane'.closed \/ j \in lane'.durable
               /\ lane.state[j] \in {"queued", "unknown"} /\ ~lane'.closed =>
                    lane'.state[j] \in {"queued", "unknown"}
    <3>1. CASE j = i
      BY <1>1, <1>2, <1>4, <1>6, <3>1 DEF SaveInv, DispatchMoved
    <3>2. CASE j # i
      BY <1>1, <1>2, <1>3, <3>2 DEF SaveInv, DispatchMoved
    <3> QED BY <3>1, <3>2
  <2>2. HasTurn(lane) /\ Stage = "sending" /\ ~lane.closed =>
          ToSet(lane.active.prompted) \subseteq lane'.durable
    BY <1>1 DEF SaveInv, DispatchMoved, Stage
  <2>3. HasTurn(lane) => KeptTurn(lane, lane')
    BY <1>2, <2>2 DEF KeptTurn, Stage
  <2>4. \A j \in Inputs : KeptInput(lane, lane', j)
    BY <2>1 DEF KeptInput
  <2> QED BY <1>2, <2>3, <2>4 DEF Kept
<1>13. Inv /\ UNCHANGED <<loop, providerVars>>
  OBVIOUS
<1>14. KeptInterrupt(lane, lane')
  BY <1>2 DEF KeptInterrupt
<1> QED BY <1>11, <1>12, <1>13, <1>14, KeepStep

\* The effects of the small functions on lanes.
LEMMA DoneIs ==
  ASSUME NEW L \in Lane, NEW i \in Inputs, NEW d \in Dispatches, NEW M,
         M = [L EXCEPT !.dispatch[i] = d]
  PROVE  /\ M \in Lane
         /\ M.active = L.active /\ M.queued = L.queued /\ M.carried = L.carried
         /\ M.closed = L.closed /\ M.turns = L.turns /\ M.owner = L.owner
         /\ M.durable = L.durable /\ M.state = L.state /\ M.dispatch[i] = d
         /\ \A j \in Inputs : j # i => M.dispatch[j] = L.dispatch[j]
BY DEF Lane

\* Saved and Broken leave every field but durable and broken as it was.
LEMMA BooksAre ==
  ASSUME NEW L \in Lane, NEW S, S \subseteq Inputs
  PROVE  /\ Saved(L, S) \in Lane /\ Broken(L, S) \in Lane
         /\ Saved(L, S).active = L.active /\ Saved(L, S).queued = L.queued
         /\ Saved(L, S).carried = L.carried /\ Saved(L, S).closed = L.closed
         /\ Saved(L, S).turns = L.turns /\ Saved(L, S).owner = L.owner
         /\ Saved(L, S).durable = L.durable \union S /\ Saved(L, S).state = L.state
         /\ Saved(L, S).dispatch = L.dispatch
         /\ Broken(L, S).active = L.active /\ Broken(L, S).queued = L.queued
         /\ Broken(L, S).carried = L.carried /\ Broken(L, S).closed = L.closed
         /\ Broken(L, S).turns = L.turns /\ Broken(L, S).owner = L.owner
         /\ Broken(L, S).durable = L.durable /\ Broken(L, S).state = L.state
         /\ Broken(L, S).dispatch = L.dispatch
BY DEF Lane, Saved, Broken
-----------------------------------------------------------------------------
(* The dispatch of one input *)

\* A dispatch puts its input at the head of the queue and awaits that write.
RequeuedAs(L, i, d, M) == M = [Requeue(L, i) EXCEPT !.dispatch[i] = d]

\* The same, as its fields.
Requeued(L, i, d, M) ==
  /\ M \in Lane
  /\ M.active = L.active /\ M.queued = <<i>> \o L.queued /\ M.carried = L.carried
  /\ M.closed = L.closed /\ M.turns = L.turns /\ M.owner = L.owner
  /\ M.durable = L.durable \ {i} /\ M.dispatch[i] = d
  /\ \A j \in Inputs : /\ M.state[j] = IF j = i THEN "queued" ELSE L.state[j]
                       /\ j # i => M.dispatch[j] = L.dispatch[j]

\* The fields of a lane with an input put back.
LEMMA RequeueIs ==
  ASSUME NEW L \in Lane, NEW i \in Inputs, NEW d \in Dispatches, NEW M,
         RequeuedAs(L, i, d, M)
  PROVE  Requeued(L, i, d, M)
<1> DEFINE N == [L EXCEPT !.queued = <<i>> \o @]
           U == Update(N, {i}, "queued")
<1>1. /\ N \in Lane /\ N.queued = <<i>> \o L.queued
      /\ N.active = L.active /\ N.carried = L.carried /\ N.closed = L.closed
      /\ N.turns = L.turns /\ N.owner = L.owner /\ N.durable = L.durable
      /\ N.dispatch = L.dispatch /\ N.state = L.state
  <2>1. <<i>> \o L.queued \in Seq(Inputs)
    BY LaneIs, OneIs, JoinIs
  <2> QED BY <2>1 DEF Lane
<1> HIDE DEF N
<1>2. Updated(N, {i}, "queued", U)
  BY <1>1, UpdateIs DEF States
<1>3. Requeue(L, i) = U
  BY DEF Requeue, N
<1> HIDE DEF U
<1>4. U \in Lane
  BY <1>2 DEF Updated
<1>6. M = [U EXCEPT !.dispatch[i] = d]
  BY <1>3 DEF RequeuedAs
<1>5. /\ M \in Lane
      /\ M.active = U.active /\ M.queued = U.queued /\ M.carried = U.carried
      /\ M.closed = U.closed /\ M.turns = U.turns /\ M.owner = U.owner
      /\ M.durable = U.durable /\ M.state = U.state /\ M.dispatch[i] = d
      /\ \A j \in Inputs : j # i => M.dispatch[j] = U.dispatch[j]
  BY <1>4, <1>6 DEF Lane
<1> QED BY <1>1, <1>2, <1>5 DEF Updated, Requeued

\* The "submitted" status of a steer is written.
LEMMA DispatchSavedStep ==
  ASSUME Inv, NEW i \in Inputs, DispatchSaved(i)
  PROVE  Inv'
<1>1. /\ Shape(lane) /\ EnvType /\ Env(lane) /\ lane \in Lane /\ DispatchShape(lane)
      /\ lane.dispatch[i] = "saving" /\ UNCHANGED <<loop, providerVars>>
  BY DEF Inv, Shape, DispatchSaved
<1> DEFINE L == Saved(lane, {i})
<1>2. /\ L \in Lane /\ L.active = lane.active /\ L.queued = lane.queued
      /\ L.carried = lane.carried /\ L.closed = lane.closed /\ L.turns = lane.turns
      /\ L.owner = lane.owner /\ L.durable = lane.durable \union {i}
      /\ L.state = lane.state /\ L.dispatch = lane.dispatch
  BY <1>1, BooksAre
<1>3. lane' = IF OwnTurn(i) /\ ~lane.active.sealed
                THEN [L EXCEPT !.dispatch[i] = "steering"]
                ELSE IF lane.state[i] = "cancelled" THEN Done(L, i)
                ELSE [Requeue(L, i) EXCEPT !.dispatch[i] = "requeued"]
  BY DEF DispatchSaved
<1> HIDE DEF L
<1>4. CASE OwnTurn(i) /\ ~lane.active.sealed
  <2>1. lane' = [L EXCEPT !.dispatch[i] = "steering"]
    BY <1>3, <1>4
  <2>2. DispatchMoved(lane, i, lane') /\ lane'.dispatch[i] = "steering" /\ lane'.state = lane.state
        /\ i \in lane'.durable
    BY <1>2, <2>1, DoneIs DEF Dispatches, DispatchMoved
  <2> QED BY <1>1, <2>2, DispatchMoves
<1>5. CASE ~(OwnTurn(i) /\ ~lane.active.sealed) /\ lane.state[i] = "cancelled"
  <2>1. lane' = [L EXCEPT !.dispatch[i] = "none"]
    BY <1>3, <1>5 DEF Done
  <2>2. DispatchMoved(lane, i, lane') /\ lane'.dispatch[i] = "none" /\ lane'.state = lane.state
    BY <1>2, <2>1, DoneIs DEF Dispatches, DispatchMoved
  <2> QED BY <1>1, <2>2, DispatchMoves
<1>6. CASE ~(OwnTurn(i) /\ ~lane.active.sealed) /\ lane.state[i] # "cancelled"
  <2>1. lane' = [Requeue(L, i) EXCEPT !.dispatch[i] = "requeued"]
    BY <1>3, <1>6
  <2>2. ~lane.closed /\ HasTurn(lane) /\ lane.active.sealed /\ lane.active.sealed = TRUE
    BY <1>1, <1>6 DEF DispatchShape, OwnTurn
  <2>3. Requeued(L, i, "requeued", lane')
    <3>1. "requeued" \in Dispatches /\ RequeuedAs(L, i, "requeued", lane')
      BY <2>1 DEF Dispatches, RequeuedAs
    <3>2. L \in Lane
      BY <1>2
    <3> QED BY <3>1, <3>2, RequeueIs
  <2>5. PutBack(lane, i, lane')
    BY <1>2, <2>2, <2>3 DEF PutBack, HasTurn, Requeued
  <2>4. Shape(lane') /\ Env(lane')
    BY <1>1, <2>2, <2>5, PutBackInv
  <2> QED BY <1>1, <2>4, EnvUnchanged
<1> QED BY <1>4, <1>5, <1>6

\* The status of an input put back is written.
LEMMA DispatchRequeuedStep ==
  ASSUME Inv, NEW i \in Inputs, DispatchRequeued(i)
  PROVE  Inv'
<1>1. /\ lane \in Lane /\ DispatchShape(lane) /\ QueueShape(lane)
      /\ lane.dispatch[i] \in {"requeued", "deferred"} /\ UNCHANGED <<loop, providerVars>>
  BY DEF Inv, Shape, DispatchRequeued
<1> DEFINE D == Done(lane, i)
<1>2. DispatchMoved(lane, i, D) /\ D.dispatch[i] = "none" /\ D.state = lane.state
  BY <1>1, DoneIs DEF Done, Dispatches, DispatchMoved
<1>3. lane' = D \/ lane' = StartNext(D)
  BY DEF DispatchRequeued
<1> HIDE DEF D
<1>4. HasTurn(lane) \/ lane.closed
  BY <1>1 DEF DispatchShape
<1>5. D \in Lane /\ (HasTurn(D) \/ D.closed)
  BY <1>2, <1>4 DEF DispatchMoved, HasTurn
<1>6. StartNext(D) = D
  BY <1>5, StartNextIs
<1>7. DispatchMoved(lane, i, lane') /\ lane'.dispatch[i] = "none" /\ lane'.state = lane.state
  BY <1>2, <1>3, <1>6
<1> QED BY <1>1, <1>7, DispatchMoves

\* The provider has answered that it took the steer.
LEMMA SteerAcceptedStep ==
  ASSUME Inv, NEW i \in Inputs, SteerAccepted(i)
  PROVE  Inv'
<1>1. /\ lane \in Lane /\ lane.dispatch[i] = "delivered" /\ UNCHANGED <<loop, providerVars>>
  BY DEF Inv, Shape, SteerAccepted
<1>2. CASE lane.state[i] \in {"consumed", "cancelled", "queued"}
  <2>1. lane' = [lane EXCEPT !.dispatch[i] = "none"]
    BY <1>2 DEF SteerAccepted, Done
  <2>2. DispatchMoved(lane, i, lane') /\ lane'.dispatch[i] = "none" /\ lane'.state = lane.state
    BY <1>1, <2>1, DoneIs DEF Dispatches, DispatchMoved
  <2> QED BY <1>1, <2>2, DispatchMoves
<1>3. CASE lane.state[i] \notin {"consumed", "cancelled", "queued"}
  <2> DEFINE U == Update(lane, {i}, "accepted")
  <2>1. Updated(lane, {i}, "accepted", U)
    BY <1>1, UpdateIs DEF States
  <2>2. lane' = [U EXCEPT !.dispatch[i] = "none"]
    BY <1>3 DEF SteerAccepted, Done
  <2> HIDE DEF U
  <2>3. U \in Lane
    BY <2>1 DEF Updated
  <2>4. DispatchMoved(lane, i, lane') /\ lane'.dispatch[i] = "none" /\ lane'.state[i] = "accepted"
    BY <2>1, <2>2, <2>3, DoneIs DEF Dispatches, DispatchMoved, Updated
  <2> QED BY <1>1, <1>3, <2>4, DispatchMoves
<1> QED BY <1>2, <1>3

\* The dispatch failed.
LEMMA DispatchFailsStep ==
  ASSUME Inv, NEW i \in Inputs, DispatchFails(i)
  PROVE  Inv'
<1> DEFINE B == IF CallFails(i) THEN lane ELSE Broken(lane, {i})
           L == Done(B, i)
<1>1. /\ lane \in Lane /\ lane.dispatch[i] # "none" /\ UNCHANGED <<loop, providerVars>>
  BY DEF Inv, Shape, DispatchFails, CallFails, DispatchWriteFails
<1>2. /\ B \in Lane /\ B.active = lane.active /\ B.queued = lane.queued
      /\ B.carried = lane.carried /\ B.closed = lane.closed /\ B.turns = lane.turns
      /\ B.owner = lane.owner /\ B.durable = lane.durable
      /\ B.state = lane.state /\ B.dispatch = lane.dispatch
  BY <1>1, BooksAre
<1>3. lane' = IF lane.state[i] \in {"consumed", "cancelled"} THEN L
              ELSE Update(L, {i}, "unknown")
  BY DEF DispatchFails
<1> HIDE DEF B
<1>4. DispatchMoved(lane, i, L) /\ L.dispatch[i] = "none" /\ L.state = lane.state
  BY <1>1, <1>2, DoneIs DEF Done, Dispatches, DispatchMoved
<1> HIDE DEF L
<1>5. CASE lane.state[i] \in {"consumed", "cancelled"}
  <2>1. lane' = L
    BY <1>3, <1>5
  <2> QED BY <1>1, <1>4, <2>1, DispatchMoves
<1>6. CASE lane.state[i] \notin {"consumed", "cancelled"}
  <2>1. lane' = Update(L, {i}, "unknown") /\ L \in Lane
    BY <1>3, <1>4, <1>6 DEF DispatchMoved
  <2>2. Updated(L, {i}, "unknown", lane')
    BY <2>1, UpdateIs DEF States, Settled
  <2>3. DispatchMoved(lane, i, lane') /\ lane'.dispatch[i] = "none" /\ lane'.state[i] = "unknown"
    BY <1>4, <2>2 DEF DispatchMoved, Updated
  <2> QED BY <1>1, <1>6, <2>3, DispatchMoves
<1> QED BY <1>5, <1>6

\* A turn sealed by its own dispatch.
LEMMA SealOwnIs ==
  ASSUME NEW i, lane \in Lane, OwnTurn(i)
  PROVE  LET M == SealOwn(lane, i) IN
         /\ M \in Lane /\ HasTurn(M)
         /\ M.queued = lane.queued /\ M.carried = lane.carried /\ M.closed = lane.closed
         /\ M.turns = lane.turns /\ M.owner = lane.owner /\ M.dispatch = lane.dispatch
         /\ M.state = lane.state /\ M.durable = lane.durable
         /\ M.active.id = lane.active.id /\ M.active.first = lane.active.first
         /\ M.active.prompted = lane.active.prompted /\ M.active.steered = lane.active.steered
         /\ M.active.ready = lane.active.ready /\ M.active.last = lane.active.last
         /\ M.active.pending = NoInput /\ M.active.sealed
         /\ M.active.superseded = lane.active.superseded /\ M.active.stage = lane.active.stage
         /\ M.active.interrupted = lane.active.interrupted
         /\ M.active.stopped = lane.active.stopped
<1> DEFINE t == [lane.active EXCEPT !.sealed = TRUE, !.pending = NoInput]
           N == [lane EXCEPT !.active = t]
<1>1. HasTurn(lane) /\ lane.active \in Turn
  BY LaneIs DEF OwnTurn
<1>2. /\ t \in Turn /\ t.id = lane.active.id /\ t.first = lane.active.first
      /\ t.prompted = lane.active.prompted /\ t.steered = lane.active.steered
      /\ t.ready = lane.active.ready /\ t.pending = NoInput
      /\ t.last = lane.active.last /\ t.sealed = TRUE
      /\ t.superseded = lane.active.superseded /\ t.stage = lane.active.stage
      /\ t.interrupted = lane.active.interrupted /\ t.stopped = lane.active.stopped
  BY <1>1 DEF Turn
<1>3. SealOwn(lane, i) = N
  BY DEF SealOwn
<1> HIDE DEF t
<1>4. /\ N \in Lane /\ N.active = t
      /\ N.queued = lane.queued /\ N.carried = lane.carried /\ N.closed = lane.closed
      /\ N.turns = lane.turns /\ N.owner = lane.owner /\ N.dispatch = lane.dispatch
      /\ N.state = lane.state /\ N.durable = lane.durable
  BY <1>2 DEF Lane
<1>5. t # NoTurn
  BY <1>2, NoTurnIsNone
<1> HIDE DEF N
<1> QED BY <1>2, <1>3, <1>4, <1>5 DEF HasTurn

\* The provider did not take the steer.
LEMMA SteerDeferredStep ==
  ASSUME Inv, NEW i \in Inputs, SteerDeferred(i)
  PROVE  Inv'
<1>1. /\ Shape(lane) /\ EnvType /\ Env(lane) /\ lane \in Lane /\ DispatchShape(lane)
      /\ lane.dispatch[i] = "steering" /\ UNCHANGED <<loop, providerVars>>
  BY DEF Inv, Shape, SteerDeferred
<1>2. CASE lane.state[i] \in {"consumed", "cancelled", "queued"}
  <2>1. lane' = [lane EXCEPT !.dispatch[i] = "none"]
    BY <1>2 DEF SteerDeferred, Done
  <2>2. DispatchMoved(lane, i, lane') /\ lane'.dispatch[i] = "none" /\ lane'.state = lane.state
    BY <1>1, <2>1, DoneIs DEF Dispatches, DispatchMoved
  <2> QED BY <1>1, <2>2, DispatchMoves
<1>3. CASE lane.state[i] \notin {"consumed", "cancelled", "queued"}
  <2> DEFINE L == SealOwn(lane, i)
  <2>1. lane' = [Requeue(L, i) EXCEPT !.dispatch[i] = "deferred"]
    BY <1>3 DEF SteerDeferred
  <2>2. ~lane.closed /\ HasTurn(lane) /\ OwnTurn(i)
    BY <1>1, <1>3 DEF DispatchShape, OwnTurn
  <2>3. /\ L \in Lane /\ HasTurn(L)
         /\ L.queued = lane.queued /\ L.carried = lane.carried /\ L.closed = lane.closed
         /\ L.turns = lane.turns /\ L.owner = lane.owner /\ L.dispatch = lane.dispatch
         /\ L.state = lane.state /\ L.durable = lane.durable
         /\ L.active.id = lane.active.id /\ L.active.first = lane.active.first
         /\ L.active.prompted = lane.active.prompted /\ L.active.steered = lane.active.steered
         /\ L.active.ready = lane.active.ready /\ L.active.last = lane.active.last
         /\ L.active.pending = NoInput /\ L.active.sealed
         /\ L.active.superseded = lane.active.superseded /\ L.active.stage = lane.active.stage
         /\ L.active.interrupted = lane.active.interrupted
         /\ L.active.stopped = lane.active.stopped
    BY <1>1, <2>2, SealOwnIs
  <2> HIDE DEF L
  <2>6. Requeued(L, i, "deferred", lane')
    <3>1. "deferred" \in Dispatches /\ RequeuedAs(L, i, "deferred", lane')
      BY <2>1 DEF Dispatches, RequeuedAs
    <3>2. L \in Lane
      BY <2>3
    <3> QED BY <3>1, <3>2, RequeueIs
  <2>4. PutBack(lane, i, lane')
    BY <2>3, <2>6 DEF PutBack, HasTurn, Requeued
  <2>5. Shape(lane') /\ Env(lane')
    BY <1>1, <2>2, <2>4, PutBackInv
  <2> QED BY <1>1, <2>5, EnvUnchanged
<1> QED BY <1>2, <1>3
-----------------------------------------------------------------------------
\* The provider takes the steer.
LEMMA SteerDeliveredStep ==
  ASSUME Inv, NEW i \in Inputs, SteerDelivered(i)
  PROVE  Inv'
<1> DEFINE m == [id |-> i, parts |-> <<i>>]
           n == Len(inbox)
<1>1. /\ Shape(lane) /\ EnvType /\ Env(lane) /\ lane \in Lane
      /\ TurnShape(lane) /\ QueueShape(lane) /\ DispatchShape(lane) /\ StatusShape(lane)
      /\ NativeInv(lane) /\ KnownInv(lane) /\ EventInv(lane) /\ InboxInv(lane)
      /\ RetainedInv(lane) /\ ContextInv(lane) /\ SaveInv(lane)
  BY DEF Inv, Shape, Env
<1>2. /\ lane.dispatch[i] = "steering" /\ open /\ open' = open
      /\ loop' = loop /\ stream' = stream /\ context' = context /\ retained' = retained
      /\ inbox' = Append(inbox, m) /\ lane' = [lane EXCEPT !.dispatch[i] = "delivered"]
  BY DEF SteerDelivered
<1>3. /\ InNative(lane) /\ HasTurn(lane) /\ ~lane.closed /\ lane.owner[i] = lane.active.id
      /\ i = lane.active.last /\ lane.active.pending = i /\ i \notin ToSet(lane.queued)
      /\ lane.state[i] = "submitted" /\ i \notin ToSet(context) \union Ids
      /\ i \in ToSet(lane.active.steered) /\ i \notin ToSet(lane.active.prompted)
  <2>1. InNative(lane) /\ HasTurn(lane) /\ ~lane.closed
    BY <1>1, <1>2 DEF NativeInv, InNative
  <2>2. /\ i = lane.active.last /\ lane.active.pending = i /\ i \notin ToSet(lane.queued)
        /\ lane.state[i] = "submitted" /\ lane.owner[i] = lane.active.id
    BY <1>1, <1>2, <2>1 DEF DispatchShape
  <2>3. i \notin ToSet(context) \union Ids
    BY <1>1, <1>2, <2>1 DEF ContextInv
  <2> QED BY <1>1, <2>1, <2>2, <2>3, LaneAssumption DEF TurnShape
<1>4. /\ lane' \in Lane /\ lane'.active = lane.active /\ lane'.queued = lane.queued
      /\ lane'.carried = lane.carried /\ lane'.closed = lane.closed
      /\ lane'.turns = lane.turns /\ lane'.owner = lane.owner
      /\ lane'.durable = lane.durable /\ lane'.state = lane.state
      /\ lane'.dispatch[i] = "delivered"
      /\ \A j \in Inputs : j # i => lane'.dispatch[j] = lane.dispatch[j]
  BY <1>1, <1>2, DoneIs DEF Dispatches
<1>5. /\ HasTurn(lane') <=> HasTurn(lane)
      /\ InNative(lane') <=> InNative(lane)
      /\ ~InEarly(lane') /\ HasTurn(lane')
      /\ Live(lane') = Live(lane) /\ First(lane') = First(lane) /\ Bound(lane') = Bound(lane)
  BY <1>3, <1>4 DEF HasTurn, Live, Ridden, First, Bound, InNative, InEarly, Native, Early
<1>6. Shape(lane')
  <2>1. TurnShape(lane') /\ StatusShape(lane')
    BY <1>1, <1>4, <1>5 DEF TurnShape, StatusShape
  <2>2. QueueShape(lane')
    BY <1>1, <1>4, <1>5 DEF QueueShape
  <2>3. DispatchShape(lane')
    <3> SUFFICES ASSUME NEW j \in Inputs PROVE DispatchShape(lane')!(j)
      BY DEF DispatchShape
    <3>1. CASE j # i
      BY <1>1, <1>4, <1>5, <3>1 DEF DispatchShape
    <3>2. CASE j = i
      BY <1>3, <1>4, <1>5, <3>2
    <3> QED BY <3>1, <3>2
  <2> QED BY <1>4, <2>1, <2>2, <2>3 DEF Shape
<1>7. m \in Message /\ m.id = i /\ m.parts = <<i>> /\ ToSet(m.parts) = {i} /\ Distinct(m.parts)
  BY OneIs DEF Message
<1> HIDE DEF m
<1>8. /\ n \in Nat /\ Len(inbox') = n + 1 /\ inbox'[n + 1] = m /\ inbox' \in Seq(Message)
      /\ \A k \in 1..n : inbox'[k] = inbox[k]
      /\ \A k \in 1..Len(inbox') : k \in 1..n \/ k = n + 1
  <2>1. inbox \in Seq(Message)
    BY <1>1 DEF EnvType
  <2> QED BY <1>2, <1>7, <2>1
<1> HIDE DEF n
<1>9. EnvType'
  BY <1>1, <1>2, <1>8 DEF EnvType
<1>10. Ids' = Ids \union {i}
  <2>1. Ids = {inbox[k].id : k \in 1..n} /\ Ids' = {inbox'[k].id : k \in 1..Len(inbox')}
    BY DEF Ids, n
  <2> QED BY <1>7, <1>8, <2>1
<1>11. NativeInv(lane)'
  BY <1>1, <1>2, <1>3, <1>4, <1>5 DEF NativeInv
<1>12. KnownInv(lane)'
  <2>1. \A k \in 1..n : \A j \in ToSet(inbox[k].parts) : lane.state[j] # "new"
    BY <1>1 DEF KnownInv, Parts, n
  <2>2. \A k \in 1..Len(inbox') : \A j \in ToSet(inbox'[k].parts) : lane'.state[j] # "new"
    BY <1>3, <1>4, <1>7, <1>8, <2>1
  <2> QED BY <1>1, <1>2, <1>4, <2>2 DEF KnownInv, Parts
<1>13. \A k, j : InFlight(k, j)' <=> InFlight(k, j)
  BY <1>2 DEF InFlight
<1>14. EventInv(lane)'
  <2>1. \A j \in Inputs : ~InFlight("queued", j)
    BY <1>1, <1>2, <1>3 DEF EventInv
  <2> QED BY <1>1, <1>2, <1>4, <1>5, <1>13, <2>1 DEF EventInv
<1>15. InboxInv(lane)'
  <2>1. ASSUME NEW k \in 1..n PROVE inbox[k].id # i /\ i \notin Parts(k)
    <3>1. inbox[k].id # i
      BY <1>3 DEF Ids, n
    <3>2. inbox[k].parts = <<inbox[k].id>> \/ inbox[k].parts = lane.active.prompted
      BY <1>1 DEF InboxInv, n
    <3>3. inbox[k].parts = <<inbox[k].id>> => ToSet(inbox[k].parts) = {inbox[k].id}
      BY <1>1, EnvIs, OneIs DEF n
    <3> QED BY <1>3, <3>1, <3>2, <3>3 DEF Parts
  <2>2. ASSUME NEW k \in 1..Len(inbox')
        PROVE  /\ inbox'[k].id \in ToSet(inbox'[k].parts) /\ Distinct(inbox'[k].parts)
               /\ ToSet(inbox'[k].parts) \intersect ToSet(context) = {}
               /\ \/ inbox'[k].parts = <<inbox'[k].id>>
                  \/ inbox'[k].id = First(lane) /\ inbox'[k].parts = lane.active.prompted
    <3>1. CASE k \in 1..n
      BY <1>1, <1>8, <3>1 DEF InboxInv, Parts, n
    <3>2. CASE k = n + 1
      BY <1>3, <1>7, <1>8, <3>2
    <3> QED BY <1>8, <3>1, <3>2
  <2>3. ASSUME NEW k \in 1..Len(inbox'), NEW l \in 1..Len(inbox'), k # l
        PROVE  ToSet(inbox'[k].parts) \intersect ToSet(inbox'[l].parts) = {}
    <3>1. CASE k \in 1..n /\ l \in 1..n
      BY <1>1, <1>8, <2>3, <3>1 DEF InboxInv, Parts, n
    <3>2. CASE k = n + 1 \/ l = n + 1
      BY <1>7, <1>8, <2>1, <2>3, <3>2 DEF Parts
    <3> QED BY <1>8, <3>1, <3>2
  <2>4. Ids' \intersect ToSet(lane.queued) = {}
    BY <1>1, <1>2, <1>3, <1>10 DEF InboxInv
  <2>5. ASSUME NEW k \in 1..Len(inbox')
        PROVE  \/ inbox'[k].id = First(lane)
               \/ inbox'[k].id \in ToSet(lane.active.steered)
               \/ /\ inbox'[k].id \notin Live(lane)
                  /\ \E l \in 1..Len(inbox') : k < l /\ inbox'[l].id = First(lane)
    <3>1. CASE k \in 1..n
      BY <1>1, <1>2, <1>8, <3>1 DEF InboxInv, n
    <3>2. CASE k = n + 1
      BY <1>3, <1>7, <1>8, <3>2
    <3> QED BY <1>8, <3>1, <3>2
  <2>6. \A j \in Ids' \intersect ToSet(lane.active.steered) :
          j = lane.active.last /\ (lane.active.pending = j \/ lane.active.sealed)
    BY <1>1, <1>3, <1>10 DEF InboxInv
  <2>7. Distinct(context)
    BY <1>1 DEF InboxInv
  <2>8. /\ open' /\ context' = context /\ First(lane') = First(lane) /\ Live(lane') = Live(lane)
        /\ lane'.active = lane.active /\ lane'.queued = lane.queued
    BY <1>2, <1>4, <1>5
  <2>9. \A k \in 1..Len(inbox') :
           /\ inbox'[k].id \in ToSet(inbox'[k].parts) /\ Distinct(inbox'[k].parts)
           /\ ToSet(inbox'[k].parts) \intersect ToSet(context') = {}
           /\ \/ inbox'[k].parts = <<inbox'[k].id>>
              \/ open' /\ inbox'[k].id = First(lane') /\ inbox'[k].parts = lane'.active.prompted
    BY <2>2, <2>8
  <2>10. open' => \A k \in 1..Len(inbox') :
           \/ inbox'[k].id = First(lane')
           \/ inbox'[k].id \in ToSet(lane'.active.steered)
           \/ inbox'[k].id \notin Live(lane') /\ \E l \in 1..Len(inbox') : k < l /\ inbox'[l].id = First(lane')
    BY <2>5, <2>8
  <2>11. /\ \A k, l \in 1..Len(inbox') :
              k # l => ToSet(inbox'[k].parts) \intersect ToSet(inbox'[l].parts) = {}
         /\ open' => Ids' \intersect ToSet(lane'.queued) = {}
         /\ HasTurn(lane') => \A j \in Ids' \intersect ToSet(lane'.active.steered) :
              j = lane'.active.last /\ (lane'.active.pending = j \/ lane'.active.sealed)
         /\ Distinct(context')
    BY <2>3, <2>4, <2>6, <2>7, <2>8
  <2> QED BY <2>8, <2>9, <2>10, <2>11 DEF InboxInv, Parts
<1>16. RetainedInv(lane)'
  BY <1>1, <1>2, <1>4, <1>5 DEF RetainedInv, InEarly, Early
<1>17. ContextInv(lane)'
  <2>1. \A j \in Inputs : lane'.dispatch[j] \in {"saving", "steering"} =>
          j \notin ToSet(context) \union Ids'
    BY <1>1, <1>3, <1>4, <1>10 DEF ContextInv, DispatchShape
  <2> QED BY <1>1, <1>2, <1>4, <1>5, <1>13, <2>1 DEF ContextInv
<1>18. SaveInv(lane)'
  BY <1>1, <1>4, <1>5 DEF SaveInv
<1> QED BY <1>6, <1>9, <1>11, <1>12, <1>14, <1>15, <1>16, <1>17, <1>18 DEF Inv, Env
-----------------------------------------------------------------------------
\* The prompt goes to the provider, or is adopted by it.
LEMMA SendInputStep ==
  ASSUME Inv, SendInput
  PROVE  Inv'
<1> DEFINE m == [id |-> First(lane), parts |-> lane.active.prompted]
           n == Len(inbox)
           P == ToSet(lane.active.prompted)
<1>1. /\ Shape(lane) /\ EnvType /\ Env(lane) /\ lane \in Lane
      /\ TurnShape(lane) /\ QueueShape(lane) /\ DispatchShape(lane) /\ StatusShape(lane)
      /\ NativeInv(lane) /\ KnownInv(lane) /\ EventInv(lane) /\ InboxInv(lane)
      /\ RetainedInv(lane) /\ ContextInv(lane) /\ SaveInv(lane)
  BY DEF Inv, Shape, Env
<1>2. /\ HasTurn(lane) /\ Stage = "sending" /\ ~lane.closed
      /\ lane' = [lane EXCEPT !.active.stage = "sent"] /\ open' = TRUE
      /\ loop' = loop /\ stream' = stream /\ context' = context
      /\ \/ First(lane) \in retained /\ retained' = retained \ {First(lane)} /\ inbox' = inbox
         \/ First(lane) \notin retained /\ retained' = retained /\ inbox' = Append(inbox, m)
  BY DEF SendInput, AtStage
<1>3. Staged(lane, "sent", lane') /\ lane'.state = lane.state /\ lane'.durable = lane.durable
  BY <1>1, <1>2, StageIs DEF Stages
<1>4. /\ HasTurn(lane') /\ First(lane') = First(lane) /\ Live(lane') = Live(lane)
      /\ Bound(lane') = Bound(lane) /\ InNative(lane') /\ ~InEarly(lane') /\ InEarly(lane)
      /\ ~InNative(lane)
  BY <1>2, <1>3 DEF Staged, First, Live, Ridden, Bound, InNative, InEarly, Native, Early, Stage
<1>5. /\ ~open /\ stream = <<>> /\ loop = Idle
      /\ lane.active.last = NoInput /\ ToSet(lane.active.steered) = {}
  BY <1>1, <1>2, <1>4, NoneIs DEF NativeInv, TurnShape, Stage
<1>6. /\ First(lane) \in Inputs /\ First(lane) \in P /\ P \subseteq Live(lane)
      /\ P \subseteq Inputs /\ lane.active.prompted \in Seq(Inputs)
      /\ P \intersect ToSet(lane.queued) = {} /\ ToSet(lane.queued) \subseteq Live(lane)
  BY <1>1, <1>2, EnvIs, LaneIs DEF TurnShape, QueueShape, Live, Ridden, First
<1>7. Shape(lane')
  <2>1. TurnShape(lane') /\ QueueShape(lane')
    <3>1. TurnShape(lane')
      BY <1>1, <1>2, <1>3, <1>4 DEF TurnShape, Staged, Stage
    <3>2. QueueShape(lane')
      BY <1>1, <1>2, <1>3, <1>4 DEF QueueShape, Staged
    <3> QED BY <3>1, <3>2
  <2>2. DispatchShape(lane')
    BY <1>1, <1>2, <1>3, <1>4 DEF DispatchShape, Staged
  <2>3. StatusShape(lane')
    BY <1>1, <1>3 DEF StatusShape, Staged
  <2> QED BY <1>3, <2>1, <2>2, <2>3 DEF Shape, Staged
<1>8. /\ \A j \in Inputs : lane'.dispatch[j] \notin {"saving", "steering"}
  BY <1>1, <1>2, <1>3, <1>5, LaneAssumption DEF DispatchShape, Staged
<1>9. NativeInv(lane)'
  BY <1>2, <1>3, <1>4, <1>5 DEF NativeInv, Idle, Staged
<1>10. \A k, j : ~InFlight(k, j)'
  BY <1>2, <1>5, NoneIs DEF InFlight, Idle
<1>11. EventInv(lane)'
  BY <1>2, <1>5, <1>10 DEF EventInv, Idle
<1>12. ContextInv(lane)'
  <2>1. \A j \in ToSet(context) \intersect Live(lane) : lane.state[j] = "consumed"
    <3>1. \A k, j : ~InFlight(k, j)
      BY <1>5, NoneIs DEF InFlight, Idle
    <3> QED BY <1>1, <1>2, <3>1 DEF ContextInv
  <2>2. \A j \in ToSet(lane'.active.steered) : FALSE
    BY <1>3, <1>5 DEF Staged
  <2>3. ToSet(context) \intersect ToSet(lane'.queued) = {}
    BY <1>1, <1>2, <1>3 DEF Staged, ContextInv
  <2> QED BY <1>2, <1>3, <1>4, <1>8, <2>1, <2>2, <2>3 DEF ContextInv
<1>13. SaveInv(lane)'
  BY <1>3, <1>8 DEF SaveInv, Staged
<1>14. \A k \in 1..n : /\ Len(inbox) = 1 /\ k = 1 /\ inbox[k].id \in retained
                       /\ inbox[k].parts = <<inbox[k].id>> /\ ToSet(inbox[k].parts) = {inbox[k].id}
                       /\ inbox[k].id \in Ids
                       /\ inbox[k].id \in Live(lane) => inbox[k].id = First(lane)
  <2>1. ASSUME NEW k \in 1..n
        PROVE  /\ Len(inbox) = 1 /\ k = 1 /\ inbox[k].id \in retained
               /\ inbox[k].parts = <<inbox[k].id>> /\ ToSet(inbox[k].parts) = {inbox[k].id}
               /\ inbox[k].id \in Ids
    <3>1. inbox # <<>>
      BY <2>1
    <3>2. Len(inbox) = 1 /\ inbox[1].id \in retained
      BY <1>1, <1>5, <3>1 DEF InboxInv
    <3>3. inbox[k].parts = <<inbox[k].id>> /\ inbox[k].id \in Inputs
      BY <1>1, <1>5, <2>1, EnvIs DEF InboxInv
    <3> QED BY <2>1, <3>2, <3>3, OneIs DEF Ids
  <2>2. Ids \intersect Live(lane) \subseteq {First(lane)}
    BY <1>1, <1>4, <1>5 DEF RetainedInv
  <2> QED BY <2>1, <2>2
<1>15. CASE First(lane) \in retained /\ retained' = retained \ {First(lane)} /\ inbox' = inbox
  <2>1. EnvType'
    BY <1>1, <1>2, <1>15 DEF EnvType
  <2>2. KnownInv(lane)'
    BY <1>1, <1>2, <1>3, <1>15 DEF KnownInv, Parts
  <2>3. retained' \intersect Live(lane') = {}
    BY <1>1, <1>4, <1>5, <1>15 DEF RetainedInv
  <2>4. RetainedInv(lane)'
    BY <1>2, <1>4, <2>3 DEF RetainedInv, InEarly
  <2>5. inbox[1].id = First(lane) /\ Len(inbox) = 1
    <3>1. First(lane) \in Ids
      BY <1>1, <1>5, <1>6, <1>15 DEF RetainedInv
    <3> QED BY <1>14, <3>1 DEF Ids
  <2>6. Ids' \intersect ToSet(lane'.queued) = {}
    BY <1>3, <1>6, <1>15, <2>5 DEF Ids, Staged
  <2>7. \A j \in Ids' \intersect ToSet(lane'.active.steered) : FALSE
    BY <1>3, <1>5 DEF Staged
  <2>8. \A k \in 1..Len(inbox') :
           /\ inbox'[k].id \in ToSet(inbox'[k].parts) /\ Distinct(inbox'[k].parts)
           /\ ToSet(inbox'[k].parts) \intersect ToSet(context') = {}
           /\ inbox'[k].parts = <<inbox'[k].id>> /\ inbox'[k].id = First(lane')
    BY <1>1, <1>2, <1>4, <1>14, <1>15, <2>5 DEF InboxInv, Parts
  <2>9. Distinct(context') /\ \A k, l \in 1..Len(inbox') : k = l
    BY <1>1, <1>2, <1>15, <2>5 DEF InboxInv
  <2>10. InboxInv(lane)'
    BY <1>2, <2>6, <2>7, <2>8, <2>9 DEF InboxInv, Parts
  <2> QED BY <1>7, <1>9, <1>11, <1>12, <1>13, <2>1, <2>2, <2>4, <2>10 DEF Inv, Env
<1>16. CASE First(lane) \notin retained /\ retained' = retained /\ inbox' = Append(inbox, m)
  <2>1. m \in Message /\ m.id = First(lane) /\ m.parts = lane.active.prompted
    BY <1>6 DEF Message
  <2> HIDE DEF m
  <2>2. /\ n \in Nat /\ Len(inbox') = n + 1 /\ inbox'[n + 1] = m /\ inbox' \in Seq(Message)
        /\ \A k \in 1..n : inbox'[k] = inbox[k]
        /\ \A k \in 1..Len(inbox') : k \in 1..n \/ k = n + 1
    <3>1. inbox \in Seq(Message)
      BY <1>1 DEF EnvType
    <3> QED BY <1>16, <2>1, <3>1
  <2>3. \A k \in 1..n : inbox[k].id \notin Live(lane)
    BY <1>14, <1>16
  <2>4. Ids' \subseteq Ids \union {First(lane)} /\ Ids \intersect Live(lane) = {}
    <3>1. Ids = {inbox[k].id : k \in 1..n} /\ Ids' = {inbox'[k].id : k \in 1..Len(inbox')}
      BY DEF Ids
    <3> HIDE DEF n
    <3> QED BY <2>1, <2>2, <2>3, <3>1
  <2>5. EnvType'
    BY <1>1, <1>2, <1>16, <2>2 DEF EnvType
  <2>6. KnownInv(lane)'
    <3>1. \A k \in 1..n : \A j \in ToSet(inbox[k].parts) : lane.state[j] # "new"
      BY <1>1 DEF KnownInv, Parts
    <3>2. \A j \in P : lane.state[j] # "new"
      BY <1>1, <1>6 DEF QueueShape
    <3> HIDE DEF n
    <3>3. \A k \in 1..Len(inbox') : \A j \in ToSet(inbox'[k].parts) : lane'.state[j] # "new"
      BY <1>3, <2>1, <2>2, <3>1, <3>2
    <3> QED BY <1>1, <1>2, <1>3, <1>16, <3>3 DEF KnownInv, Parts
  <2>7. RetainedInv(lane)'
    <3>1. retained' \intersect Live(lane') = {}
      BY <1>1, <1>4, <1>5, <1>16, <2>4 DEF RetainedInv
    <3> QED BY <1>2, <1>4, <3>1 DEF RetainedInv, InEarly
  <2>8. P \intersect ToSet(context) = {} /\ Distinct(lane.active.prompted)
    BY <1>1, <1>2, <1>4 DEF ContextInv, TurnShape
  <2>9. ASSUME NEW k \in 1..Len(inbox')
        PROVE  /\ inbox'[k].id \in ToSet(inbox'[k].parts) /\ Distinct(inbox'[k].parts)
               /\ ToSet(inbox'[k].parts) \intersect ToSet(context') = {}
               /\ \/ inbox'[k].parts = <<inbox'[k].id>>
                  \/ open' /\ inbox'[k].id = First(lane') /\ inbox'[k].parts = lane'.active.prompted
               /\ \/ inbox'[k].id = First(lane')
                  \/ /\ inbox'[k].id \notin Live(lane')
                     /\ k < n + 1 /\ inbox'[n + 1].id = First(lane')
    <3>1. CASE k \in 1..n
      BY <1>1, <1>2, <1>4, <1>14, <2>1, <2>2, <2>3, <3>1 DEF InboxInv, Parts
    <3>2. CASE k = n + 1
      BY <1>2, <1>3, <1>4, <1>6, <2>1, <2>2, <2>8, <3>2 DEF Staged
    <3> QED BY <2>2, <3>1, <3>2
  <2>10. open' => \A k \in 1..Len(inbox') :
           \/ inbox'[k].id = First(lane')
           \/ inbox'[k].id \in ToSet(lane'.active.steered)
           \/ inbox'[k].id \notin Live(lane') /\ \E l \in 1..Len(inbox') : k < l /\ inbox'[l].id = First(lane')
    BY <2>2, <2>9
  <2>11. ASSUME NEW k \in 1..Len(inbox'), NEW l \in 1..Len(inbox'), k # l
         PROVE  ToSet(inbox'[k].parts) \intersect ToSet(inbox'[l].parts) = {}
    <3>1. CASE k \in 1..n /\ l \in 1..n
      BY <1>14, <2>11, <3>1
    <3>4. \A j \in 1..n : /\ ToSet(inbox'[j].parts) = {inbox[j].id}
                          /\ inbox[j].id \notin P
      BY <1>6, <1>14, <2>2, <2>3
    <3>5. ToSet(inbox'[n + 1].parts) = P
      BY <2>1, <2>2
    <3>2. CASE k \in 1..n /\ l = n + 1
      BY <3>2, <3>4, <3>5
    <3>3. CASE k = n + 1 /\ l \in 1..n
      BY <3>3, <3>4, <3>5
    <3> QED BY <2>2, <2>11, <3>1, <3>2, <3>3
  <2>12. open' => Ids' \intersect ToSet(lane'.queued) = {}
    BY <1>3, <1>6, <2>4 DEF Staged
  <2>13. \A j \in Ids' \intersect ToSet(lane'.active.steered) : FALSE
    BY <1>3, <1>5 DEF Staged
  <2>14. Distinct(context')
    BY <1>1, <1>2 DEF InboxInv
  <2>15. InboxInv(lane)'
    BY <1>2, <2>9, <2>10, <2>11, <2>12, <2>13, <2>14 DEF InboxInv, Parts
  <2> QED BY <1>7, <1>9, <1>11, <1>12, <1>13, <2>5, <2>6, <2>7, <2>15 DEF Inv, Env
<1> QED BY <1>2, <1>15, <1>16
-----------------------------------------------------------------------------
(* The end of a turn *)

\* A write that failed changes no part of the lane that the invariant reads.
LEMMA BrokenInv ==
  ASSUME Inv, NEW S, S \subseteq Inputs
  PROVE  /\ Shape(Broken(lane, S)) /\ Env(Broken(lane, S))
         /\ Broken(lane, S).active = lane.active /\ Broken(lane, S).closed = lane.closed
         /\ Broken(lane, S).queued = lane.queued /\ Broken(lane, S).carried = lane.carried
         /\ Broken(lane, S).state = lane.state /\ Broken(lane, S).dispatch = lane.dispatch
<1> DEFINE B == Broken(lane, S)
<1>1. /\ Shape(lane) /\ lane \in Lane /\ EnvType /\ Env(lane) /\ SaveInv(lane)
      /\ TurnShape(lane) /\ QueueShape(lane) /\ DispatchShape(lane) /\ StatusShape(lane)
  BY DEF Inv, Shape, Env
<1>2. /\ B \in Lane /\ B.active = lane.active /\ B.queued = lane.queued
      /\ B.carried = lane.carried /\ B.closed = lane.closed /\ B.turns = lane.turns
      /\ B.owner = lane.owner /\ B.durable = lane.durable
      /\ B.state = lane.state /\ B.dispatch = lane.dispatch
  BY <1>1, BooksAre
<1> HIDE DEF B
<1>3. /\ HasTurn(B) <=> HasTurn(lane)
      /\ Live(B) = Live(lane) /\ First(B) = First(lane) /\ Bound(B) = Bound(lane)
  BY <1>2 DEF HasTurn, Live, Ridden, First, Bound
<1>4. TurnShape(B) /\ StatusShape(B)
  BY <1>1, <1>2, <1>3 DEF TurnShape, StatusShape
<1>5. QueueShape(B)
  BY <1>1, <1>2, <1>3 DEF QueueShape
<1>6. DispatchShape(B)
  BY <1>1, <1>2, <1>3 DEF DispatchShape
<1>7. Shape(B)
  BY <1>2, <1>4, <1>5, <1>6 DEF Shape
<1>8. Kept(lane, B)
  <2>1. HasTurn(lane) => KeptTurn(lane, B)
    BY <1>1, <1>2, <1>3 DEF KeptTurn, SaveInv
  <2>2. \A j \in Inputs : KeptInput(lane, B, j)
    BY <1>1, <1>2 DEF KeptInput, SaveInv
  <2> QED BY <1>2, <1>3, <2>1, <2>2 DEF Kept
<1>9. KeptInterrupt(lane, B)
  BY <1>2, <1>3 DEF KeptInterrupt
<1>10. Env(B)
  BY <1>1, <1>7, <1>8, <1>9, KeepEnv
<1> QED BY <1>2, <1>7, <1>10 DEF B

\* A turn ends, by its own way or with a failure, while nothing runs.
LEMMA EndStep ==
  ASSUME NEW L, Shape(L), EnvType, Env(L), HasTurn(L), L.closed \/ Quiet(L),
         lane' = Finish(L), loop' = Idle, stream = <<>>, stream' = stream, ~open, open' = open,
         context' = context, \A k, i : ~InFlight(k, i),
         \/ inbox' = <<>> /\ retained' = {}
         \/ inbox' = inbox /\ retained' = retained /\ L.active.stage # "waiting"
  PROVE  Inv'
<1>1. open' = FALSE /\ stream' = <<>>
  BY DEF EnvType
<1>2. CASE ~L.closed
  BY <1>1, <1>2, FinishOpen
<1>3. CASE L.closed
  <2>1. inbox' = <<>> /\ retained' = {}
    BY <1>3 DEF Env, NativeInv
  <2>2. Distinct(context) /\ \A i \in ToSet(context) : L.state[i] # "new"
    BY DEF Env, InboxInv, KnownInv
  <2> QED BY <1>1, <1>3, <2>1, <2>2, FinishClosed
<1> QED BY <1>2, <1>3

\* Before its message is sent a turn has no event out and no dispatch.
LEMMA EarlyIs ==
  ASSUME NEW L, Shape(L), EnvType, Env(L), InEarly(L)
  PROVE  /\ HasTurn(L) /\ loop = Idle /\ stream = <<>> /\ ~open
         /\ \A k, i : ~InFlight(k, i)
         /\ L.closed \/ Quiet(L)
<1>1. HasTurn(L) /\ ~InNative(L) /\ NativeInv(L) /\ TurnShape(L) /\ DispatchShape(L)
  BY DEF InEarly, InNative, Early, Native, Env, Shape
<1>2. loop = Idle /\ stream = <<>> /\ ~open
  BY <1>1 DEF NativeInv
<1>3. L.active.last = NoInput
  BY <1>1 DEF TurnShape, InEarly, Early
<1>4. L.closed \/ Quiet(L)
  BY <1>1, <1>3, LaneAssumption DEF DispatchShape, Quiet
<1> QED BY <1>1, <1>2, <1>4, NoneIs DEF InFlight, Idle

\* The mutex, for a turn that goes on and for one that ends there.
LEMMA TakeMutexStep ==
  ASSUME Inv, TakeMutex
  PROVE  Inv'
<1>1. Shape(lane) /\ EnvType /\ Env(lane) /\ AtStage("waiting") /\ InEarly(lane)
  BY DEF Inv, TakeMutex, AtStage, InEarly, Early, Stage
<1>2. CASE lane.active.interrupted \/ lane.closed
  <2>1. /\ lane' = Finish(lane) /\ inbox' = <<>> /\ retained' = {}
        /\ stream' = stream /\ context' = context /\ open' = open /\ loop' = loop
    BY <1>2 DEF TakeMutex
  <2> QED BY <1>1, <2>1, EarlyIs, EndStep
<1>3. CASE ~(lane.active.interrupted \/ lane.closed)
  <2>1. lane' = [lane EXCEPT !.active.stage = "current"] /\ UNCHANGED <<loop, providerVars>>
    BY <1>3 DEF TakeMutex
  <2> QED BY <1>1, <1>3, <2>1, TakeMutexMoves
<1> QED BY <1>2, <1>3

\* The turn ends without a call of the model.
LEMMA SkipModelStep ==
  ASSUME Inv, SkipModel
  PROVE  Inv'
<1>1. Shape(lane) /\ EnvType /\ Env(lane) /\ InEarly(lane) /\ lane.active.stage # "waiting"
  BY DEF Inv, SkipModel, AtStage, InEarly, Early, Stage
<1>2. /\ lane' = Finish(lane) /\ inbox' = inbox /\ retained' = retained
      /\ stream' = stream /\ context' = context /\ open' = open /\ loop' = loop
  BY DEF SkipModel, providerVars
<1> QED BY <1>1, <1>2, EarlyIs, EndStep

\* The turn fails before its message is sent.
LEMMA TurnFailsStep ==
  ASSUME Inv, TurnFails
  PROVE  Inv'
<1>1. /\ Shape(lane) /\ EnvType /\ Env(lane) /\ InEarly(lane) /\ lane.active.stage # "waiting"
      /\ HasTurn(lane) /\ First(lane) \in Inputs /\ ToSet(lane.active.prompted) \subseteq Inputs
  <2>1. /\ Shape(lane) /\ EnvType /\ Env(lane) /\ InEarly(lane) /\ lane.active.stage # "waiting"
        /\ HasTurn(lane)
    BY DEF Inv, TurnFails, AtStage, InEarly, Early, Stage
  <2> QED BY <2>1, EnvIs
<1>2. /\ stream' = stream /\ context' = context /\ open' = open /\ loop' = loop
      /\ \/ inbox' = <<>> /\ retained' = {}
         \/ inbox' = inbox /\ retained' = retained
  BY DEF TurnFails
<1>3. \/ lane' = Finish(lane)
      \/ \E i \in Inputs : lane' = Finish(Broken(lane, {i}))
  <2> DEFINE waited == IF Stage = "binding" THEN ToSet(lane.active.prompted)
                       ELSE IF Stage = "answering" THEN {First(lane)} ELSE {}
  <2>1. waited \subseteq Inputs
    BY <1>1
  <2>2. \/ lane' = Finish(lane)
        \/ \E i \in waited : lane' = Finish(Broken(lane, {i}))
    BY DEF TurnFails
  <2> QED BY <2>1, <2>2
<1>4. /\ loop = Idle /\ stream = <<>> /\ ~open /\ \A k, i : ~InFlight(k, i)
      /\ lane.closed \/ Quiet(lane)
  BY <1>1, EarlyIs
<1>5. CASE lane' = Finish(lane)
  BY <1>1, <1>2, <1>4, <1>5, EndStep
<1>6. ASSUME NEW i \in Inputs, lane' = Finish(Broken(lane, {i})) PROVE Inv'
  <2> DEFINE B == Broken(lane, {i})
  <2>1. /\ Shape(B) /\ Env(B) /\ B.active = lane.active /\ B.closed = lane.closed
        /\ B.state = lane.state /\ B.dispatch = lane.dispatch
    BY BrokenInv
  <2>2. lane' = Finish(B)
    BY <1>6
  <2> HIDE DEF B
  <2>3. HasTurn(B) /\ B.active.stage # "waiting" /\ (B.closed \/ Quiet(B))
    BY <1>1, <1>4, <2>1 DEF HasTurn, Quiet
  <2> QED BY <1>1, <1>2, <1>4, <2>1, <2>2, <2>3, EndStep
<1> QED BY <1>3, <1>5, <1>6

\* The terminal ends the turn.
LEMMA LoopFinishesStep ==
  ASSUME Inv, LoopFinishes
  PROVE  Inv'
<1>1. /\ Shape(lane) /\ EnvType /\ Env(lane) /\ NativeInv(lane) /\ DispatchShape(lane)
      /\ loop.pc = "sealing" /\ loop # Idle
  BY DEF Inv, Shape, Env, LoopFinishes, Idle
<1>2. /\ HasTurn(lane) /\ lane.active.id = loop.turn /\ lane.active.stage # "waiting"
      /\ ~open /\ stream = <<>>
  BY <1>1 DEF NativeInv, InNative, Native
<1>3. /\ lane.active.last # NoInput => lane.dispatch[lane.active.last] = "none"
      /\ lane' = Finish(lane) /\ loop' = Idle /\ UNCHANGED providerVars
  BY <1>2 DEF LoopFinishes
<1>4. lane.closed \/ Quiet(lane)
  BY <1>1, <1>3, LaneAssumption DEF DispatchShape, Quiet
<1>5. \A k, i : ~InFlight(k, i)
  BY <1>1, <1>2, NoneIs DEF InFlight
<1> QED BY <1>1, <1>2, <1>3, <1>4, <1>5, EndStep DEF providerVars
-----------------------------------------------------------------------------
(* Closing the lane *)

\* close() leaves the lane in shape whatever it held, and its turn where it was.
LEMMA CloseShape ==
  ASSUME NEW L, Shape(L)
  PROVE  /\ Shape(CloseLane(L)) /\ CloseLane(L).closed
         /\ HasTurn(CloseLane(L)) <=> HasTurn(L)
         /\ \A i \in Inputs : L.state[i] # "new" => CloseLane(L).state[i] # "new"
         /\ HasTurn(L) => LET t == CloseLane(L).active IN
              /\ t.id = L.active.id /\ t.last = L.active.last /\ t.stage = L.active.stage
              /\ t.pending = L.active.pending /\ t.sealed
<1> DEFINE C == [L EXCEPT !.closed = TRUE]
           D == [L EXCEPT !.closed = TRUE, !.active.sealed = TRUE, !.queued = <<>>,
                          !.carried = <<>>]
           W == ToSet(L.queued) \union ToSet(L.carried)
                  \union ({L.active.pending} \ {NoInput})
           U == Update(D, W, "cancelled")
<1>1. /\ L \in Lane /\ TurnShape(L) /\ QueueShape(L) /\ DispatchShape(L) /\ StatusShape(L)
  BY DEF Shape
<1>2. CASE ~HasTurn(L)
  <2>1. CloseLane(L) = C
    BY <1>2 DEF CloseLane
  <2>2. /\ C \in Lane /\ C.active = L.active /\ C.queued = L.queued
        /\ C.carried = L.carried /\ C.closed = TRUE /\ C.turns = L.turns
        /\ C.owner = L.owner /\ C.state = L.state /\ C.dispatch = L.dispatch
    BY <1>1 DEF Lane
  <2> HIDE DEF C
  <2>3. ~HasTurn(C) /\ Live(C) = Live(L)
    BY <1>2, <2>2 DEF HasTurn, Live, Ridden
  <2>4. TurnShape(C) /\ StatusShape(C)
    BY <1>1, <1>2, <2>2, <2>3 DEF TurnShape, StatusShape
  <2>5. QueueShape(C)
    BY <1>1, <1>2, <2>2, <2>3 DEF QueueShape
  <2>6. DispatchShape(C)
    BY <1>1, <1>2, <2>2, <2>3 DEF DispatchShape
  <2> QED BY <1>2, <2>1, <2>2, <2>3, <2>4, <2>5, <2>6 DEF Shape
<1>3. CASE HasTurn(L)
  <2> DEFINE t == [L.active EXCEPT !.sealed = TRUE]
  <2>1. L.active \in Turn
    BY <1>1, <1>3, LaneIs
  <2>2. /\ t \in Turn /\ t.id = L.active.id /\ t.first = L.active.first
        /\ t.prompted = L.active.prompted /\ t.steered = L.active.steered
        /\ t.ready = L.active.ready /\ t.pending = L.active.pending
        /\ t.last = L.active.last /\ t.sealed = TRUE
        /\ t.superseded = L.active.superseded /\ t.stage = L.active.stage
        /\ t.interrupted = L.active.interrupted /\ t.stopped = L.active.stopped
    BY <2>1 DEF Turn
  <2>3. D = [L EXCEPT !.closed = TRUE, !.active = t, !.queued = <<>>, !.carried = <<>>]
    OBVIOUS
  <2>4. CloseLane(L) = U
    <3>1. HasTurn(C) /\ C.queued = L.queued /\ C.carried = L.carried /\ C.active = L.active
      BY <1>1, <1>3 DEF HasTurn, Lane
    <3>2. [C EXCEPT !.active.sealed = TRUE, !.queued = <<>>, !.carried = <<>>] = D
      BY <1>1, <3>1 DEF Lane
    <3>5. CloseLane(L) = Cancel(C)
      BY <1>3 DEF CloseLane
    <3> HIDE DEF C, D
    <3>4. Cancel(C) = Update(D, W, "cancelled")
      BY <3>1, <3>2 DEF Cancel
    <3> QED BY <3>4, <3>5
  <2> HIDE DEF t
  <2>5. /\ D \in Lane /\ D.active = t /\ D.queued = <<>> /\ D.carried = <<>>
        /\ D.closed = TRUE /\ D.turns = L.turns /\ D.owner = L.owner
        /\ D.state = L.state /\ D.dispatch = L.dispatch
    BY <1>1, <2>2, <2>3, NoneIs DEF Lane
  <2> HIDE DEF D
  <2>6. W \subseteq Inputs
    <3>1. /\ ToSet(L.queued) \subseteq Inputs /\ ToSet(L.carried) \subseteq Inputs
          /\ L.active.pending \in Inputs \union {NoInput}
      BY <1>1, <1>3, LaneIs, InSet
    <3> QED BY <3>1
  <2>7. L.active.pending # NoInput => L.active.pending \in W
    OBVIOUS
  <2> HIDE DEF W
  <2>8. Updated(D, W, "cancelled", U)
    BY <2>5, <2>6, UpdateIs DEF States, Settled
  <2> HIDE DEF U
  <2>9. /\ U \in Lane /\ U.active = t /\ U.queued = <<>> /\ U.carried = <<>>
        /\ U.closed = TRUE /\ U.turns = L.turns /\ U.owner = L.owner
        /\ U.dispatch = L.dispatch
        /\ \A i \in Inputs : U.state[i] = IF i \in W THEN "cancelled" ELSE L.state[i]
    BY <2>5, <2>8 DEF Updated
  <2>10. /\ HasTurn(U) /\ First(U) = First(L) /\ Live(U) \subseteq Live(L)
         /\ ToSet(U.queued) = {} /\ ToSet(U.carried) = {}
    BY <1>3, <2>2, <2>9, NoTurnIsNone, NoneIs DEF HasTurn, First, Live, Ridden
  <2>11. TurnShape(U)
    BY <1>1, <1>3, <2>2, <2>9, <2>10 DEF TurnShape
  <2>12. QueueShape(U)
    <3>1. \A i \in Live(U) : U.state[i] # "new"
      <4>1. Live(L) \subseteq Inputs
        BY <1>1, <1>3, LaneIs, InSet DEF Live, Ridden
      <4> QED BY <1>1, <2>9, <2>10, <4>1 DEF QueueShape
    <3> QED BY <1>1, <2>9, <2>10, <3>1, NoneIs DEF QueueShape
  <2>13. DispatchShape(U)
    <3> SUFFICES ASSUME NEW i \in Inputs PROVE DispatchShape(U)!(i)
      BY DEF DispatchShape
    <3>1. U.state[i] = IF i \in W THEN "cancelled" ELSE L.state[i]
      BY <2>9
    <3>2. L.dispatch[i] \in {"saving", "steering"} =>
            /\ U.state[i] = "cancelled"
            /\ L.owner[i] = L.active.id /\ i = L.active.last
      BY <1>1, <1>3, <2>7, <3>1, LaneAssumption DEF DispatchShape
    <3>3. L.dispatch[i] # "none" => U.state[i] # "new"
      BY <1>1, <3>1 DEF DispatchShape
    <3> QED BY <2>2, <2>9, <2>10, <3>2, <3>3
  <2>14. StatusShape(U)
    BY <2>9 DEF StatusShape
  <2>15. Shape(U)
    BY <2>9, <2>11, <2>12, <2>13, <2>14 DEF Shape
  <2> QED BY <1>3, <2>2, <2>4, <2>9, <2>10, <2>15
<1> QED BY <1>2, <1>3

\* The lane closes.
LEMMA CloseStep ==
  ASSUME Inv, Close
  PROVE  Inv'
<1>1. /\ Shape(lane) /\ EnvType /\ Env(lane) /\ NativeInv(lane) /\ KnownInv(lane)
      /\ EventInv(lane) /\ InboxInv(lane)
  BY DEF Inv, Shape, Env
<1>2. /\ lane' = CloseLane(lane) /\ loop' = loop /\ open' = FALSE /\ inbox' = <<>>
      /\ retained' = {} /\ stream' = <<>> /\ context' = context
  BY DEF Close, ProviderCloses
<1>3. /\ Shape(lane') /\ lane'.closed
      /\ HasTurn(lane') <=> HasTurn(lane)
      /\ \A i \in Inputs : lane.state[i] # "new" => lane'.state[i] # "new"
      /\ HasTurn(lane) => /\ lane'.active.id = lane.active.id
                          /\ lane'.active.last = lane.active.last
                          /\ lane'.active.stage = lane.active.stage
                          /\ lane'.active.pending = lane.active.pending /\ lane'.active.sealed
  BY <1>1, <1>2, CloseShape
<1>4. EnvType'
  BY <1>1, <1>2, NoneIs DEF EnvType
<1>5. InNative(lane') <=> InNative(lane)
  BY <1>3 DEF InNative
<1>6. NativeInv(lane)'
  BY <1>1, <1>2, <1>3, <1>5 DEF NativeInv, InNative, Idle
<1>7. KnownInv(lane)'
  BY <1>1, <1>2, <1>3, EnvIs DEF KnownInv
<1>8. EventInv(lane)'
  <2> SUFFICES ASSUME NEW i \in Inputs PROVE (EventInv(lane)!(i))'
    BY DEF EventInv
  <2>1. InFlight("consumed", i)' => InFlight("consumed", i)
    BY <1>2, NoneIs DEF InFlight
  <2>2. InFlight("queued", i)' => InFlight("queued", i) /\ HasTurn(lane)
    BY <1>1, <1>2, NoneIs, InFlightIs DEF InFlight
  <2>3. InFlight("queued", i) /\ HasTurn(lane) => i = lane'.active.last /\ lane'.active.sealed
    BY <1>1, <1>3 DEF EventInv
  <2>4. InFlight("consumed", i) => i \in ToSet(context)
    BY <1>1 DEF EventInv
  <2> QED BY <1>2, <1>3, <2>1, <2>2, <2>3, <2>4
<1>9. Ids' = {} /\ 1..Len(inbox') = {}
  BY <1>2 DEF Ids
<1>10. InboxInv(lane)'
  BY <1>1, <1>2, <1>9 DEF InboxInv
<1>11. RetainedInv(lane)'
  BY <1>2, <1>9 DEF RetainedInv
<1>12. ContextInv(lane)' /\ SaveInv(lane)'
  BY <1>3 DEF ContextInv, SaveInv
<1> QED BY <1>3, <1>4, <1>6, <1>7, <1>8, <1>10, <1>11, <1>12 DEF Inv, Env

\* The loop ends, and closes the lane.
LEMMA LoopEndsStep ==
  ASSUME Inv, LoopEnds
  PROVE  Inv'
<1>1. /\ Shape(lane) /\ EnvType /\ Env(lane) /\ NativeInv(lane) /\ KnownInv(lane)
      /\ InboxInv(lane)
  BY DEF Inv, Env
<1> DEFINE B == IF loop.pc = "observing" THEN Broken(lane, {loop.event.input}) ELSE lane
           L == CloseLane(B)
<1>2. /\ lane' = IF Current THEN Finish(L) ELSE L
      /\ loop' = Idle /\ open' = FALSE /\ inbox' = <<>>
      /\ retained' = {} /\ stream' = <<>> /\ context' = context
      /\ Current \/ loop.pc = "observing"
  BY DEF LoopEnds, ProviderCloses
<1>3. Current /\ HasTurn(lane)
  BY <1>1, <1>2 DEF NativeInv, InNative, Native, Current, Idle, Stage
<1>4. /\ Shape(B) /\ B.active = lane.active /\ B.state = lane.state
  <2>1. CASE loop.pc = "observing"
    <3>1. loop.event.input \in Inputs
      BY <1>1, <2>1 DEF EnvType, Loops, Idle, Event, Terminal, Status
    <3> QED BY <2>1, <3>1, BrokenInv
  <2>2. CASE loop.pc # "observing"
    BY <1>1, <2>2
  <2> QED BY <2>1, <2>2
<1> HIDE DEF B
<1>5. HasTurn(B)
  BY <1>3, <1>4 DEF HasTurn
<1>6. Shape(L) /\ L.closed /\ HasTurn(L) /\ \A i \in Inputs : B.state[i] # "new" => L.state[i] # "new"
  BY <1>4, <1>5, CloseShape
<1>7. lane' = Finish(L)
  BY <1>2, <1>3
<1> HIDE DEF L
<1>8. Distinct(context) /\ \A i \in ToSet(context) : L.state[i] # "new"
  BY <1>1, <1>4, <1>6, EnvIs DEF InboxInv, KnownInv
<1> QED BY <1>1, <1>2, <1>6, <1>7, <1>8, FinishClosed
-----------------------------------------------------------------------------
(* Steps that mark the turn, and the interrupt of the provider *)

\* Only the turn of L becomes t.
Turned(L, t, M) ==
  /\ M \in Lane /\ HasTurn(M) /\ M.active = t
  /\ M.queued = L.queued /\ M.carried = L.carried /\ M.closed = L.closed
  /\ M.turns = L.turns /\ M.owner = L.owner /\ M.durable = L.durable
  /\ M.dispatch = L.dispatch /\ M.state = L.state

\* The fields of a lane whose turn is replaced.
LEMMA TurnedIs ==
  ASSUME NEW L \in Lane, NEW t \in Turn
  PROVE  Turned(L, t, [L EXCEPT !.active = t])
<1> DEFINE M == [L EXCEPT !.active = t]
<1>1. /\ M \in Lane /\ M.active = t
      /\ M.queued = L.queued /\ M.carried = L.carried /\ M.closed = L.closed
      /\ M.turns = L.turns /\ M.owner = L.owner /\ M.durable = L.durable
      /\ M.dispatch = L.dispatch /\ M.state = L.state
  BY DEF Lane
<1> HIDE DEF M
<1>2. t # NoTurn
  BY NoTurnIsNone
<1> QED BY <1>1, <1>2 DEF Turned, HasTurn, M

\* A turn marked as t keeps its inputs and what it waits for.
Marked(L, t) ==
  /\ t \in Turn
  /\ t.id = L.active.id /\ t.first = L.active.first /\ t.prompted = L.active.prompted
  /\ t.steered = L.active.steered /\ t.pending = L.active.pending /\ t.last = L.active.last
  /\ L.active.sealed => t.sealed
  /\ t.ready <=> t.stage = "running"
  /\ t.steered # <<>> => t.stage = "running"
  /\ t.superseded => t.sealed /\ t.interrupted
  /\ t.superseded /\ ~L.closed => L.queued # <<>>
  /\ t.stopped => t.interrupted
  /\ \/ t.stage = L.active.stage
     \/ t.stage \in Native /\ L.active.stage \in Native

\* A marked turn keeps the shape of its lane.
LEMMA MarkedKeeps ==
  ASSUME NEW L, NEW t, NEW M, Shape(L), EnvType, Env(L), HasTurn(L), Marked(L, t), Turned(L, t, M)
  PROVE  Shape(M) /\ Kept(L, M)
<1>1. /\ L \in Lane /\ TurnShape(L) /\ QueueShape(L) /\ DispatchShape(L) /\ StatusShape(L)
      /\ SaveInv(L)
  BY DEF Shape, Env
<1>2. /\ M \in Lane /\ HasTurn(M) /\ M.active = t
      /\ M.queued = L.queued /\ M.carried = L.carried /\ M.closed = L.closed
      /\ M.turns = L.turns /\ M.owner = L.owner /\ M.durable = L.durable
      /\ M.dispatch = L.dispatch /\ M.state = L.state
  BY DEF Turned
<1>3. /\ t.id = L.active.id /\ t.first = L.active.first /\ t.prompted = L.active.prompted
      /\ t.steered = L.active.steered /\ t.pending = L.active.pending /\ t.last = L.active.last
      /\ L.active.sealed => t.sealed
      /\ t.stage = L.active.stage \/ (t.stage \in Native /\ L.active.stage \in Native)
  BY DEF Marked
<1>4. First(M) = First(L) /\ Live(M) = Live(L) /\ Bound(M) = Bound(L)
  BY <1>2, <1>3 DEF First, Live, Ridden, Bound
<1>5. TurnShape(M)
  BY <1>1, <1>2, <1>3, <1>4 DEF TurnShape, Marked
<1>6. QueueShape(M)
  BY <1>1, <1>2, <1>3, <1>4 DEF QueueShape, Marked
<1>7. DispatchShape(M)
  BY <1>1, <1>2, <1>3, <1>4 DEF DispatchShape
<1>8. StatusShape(M)
  BY <1>1, <1>2, <1>3, <1>4 DEF StatusShape, Native
<1>9. Shape(M)
  BY <1>2, <1>5, <1>6, <1>7, <1>8 DEF Shape
<1>10. KeptTurn(L, M)
  BY <1>1, <1>2, <1>3, <1>4 DEF KeptTurn, SaveInv, Native, Early
<1>11. \A j \in Inputs : KeptInput(L, M, j)
  BY <1>1, <1>2 DEF KeptInput, SaveInv
<1> QED BY <1>2, <1>9, <1>10, <1>11 DEF Kept

\* The turn is ready to take steers.
LEMMA ReadyStep ==
  ASSUME Inv, Ready
  PROVE  Inv'
<1> DEFINE t == [lane.active EXCEPT !.stage = "running", !.ready = TRUE]
           M == [lane EXCEPT !.active = t]
<1>1. /\ Shape(lane) /\ EnvType /\ Env(lane) /\ lane \in Lane /\ TurnShape(lane)
      /\ QueueShape(lane) /\ HasTurn(lane) /\ lane.active.stage = "sent" /\ lane.active \in Turn
  BY LaneIs DEF Inv, Shape, Ready, AtStage, Stage
<1>2. lane' = Flush(M) /\ UNCHANGED <<loop, providerVars>>
  BY DEF Ready
<1>3. Marked(lane, t) /\ t \in Turn /\ t.stage = "running"
  BY <1>1 DEF Turn, Marked, Native, Stages, TurnShape, QueueShape
<1> HIDE DEF t
<1>4. Turned(lane, t, M)
  BY <1>1, <1>3, TurnedIs
<1> HIDE DEF M
<1>5. Shape(M) /\ Kept(lane, M)
  BY <1>1, <1>3, <1>4, MarkedKeeps
<1>6. KeptInterrupt(lane, M)
  BY <1>3, <1>4 DEF KeptInterrupt, Turned, Early
<1>7. Env(M)
  BY <1>1, <1>5, <1>6, KeepEnv
<1>8. Shape(lane') /\ Env(lane')
  BY <1>1, <1>2, <1>5, <1>7, FlushShape, FlushEnv
<1> QED BY <1>1, <1>2, <1>8, EnvUnchanged

\* The interrupt ends the native turn, if one runs, and drops what it held.
Drops == /\ open' = FALSE /\ inbox' = <<>> /\ retained' = {} /\ context' = context
         /\ stream' = IF open THEN Append(stream, Terminal) ELSE stream

\* An interrupt ends the native turn and drops what it had not read.
LEMMA DropStep ==
  ASSUME NEW L, Shape(L), EnvType, Env(L), Shape(lane'), Kept(L, lane'), Drops, loop' = loop
  PROVE  Inv'
<1>1. /\ NativeInv(L) /\ KnownInv(L) /\ EventInv(L) /\ InboxInv(L)
      /\ RetainedInv(L) /\ ContextInv(L) /\ SaveInv(L) /\ TurnShape(L)
  BY DEF Env, Shape
<1>2. /\ lane'.closed = L.closed /\ lane'.queued = L.queued
      /\ HasTurn(lane') <=> HasTurn(L)
      /\ HasTurn(L) => KeptTurn(L, lane')
      /\ \A i \in Inputs : KeptInput(L, lane', i)
  BY DEF Kept
<1>3. /\ HasTurn(L) =>
           /\ lane'.active.id = L.active.id /\ First(lane') = First(L)
           /\ lane'.active.prompted = L.active.prompted
           /\ lane'.active.steered = L.active.steered
           /\ lane'.active.last = L.active.last
           /\ lane'.active.pending = L.active.pending \/ lane'.active.sealed
           /\ L.active.sealed => lane'.active.sealed
      /\ InEarly(lane') <=> InEarly(L)
      /\ InNative(lane') <=> InNative(L)
      /\ Live(lane') = Live(L)
  BY <1>2 DEF KeptTurn, InEarly, InNative, Live, Ridden, Kept
<1>4. /\ open' = FALSE /\ inbox' = <<>> /\ retained' = {} /\ context' = context
      /\ Ids' = {} /\ 1..Len(inbox') = {}
  BY DEF Drops, Ids
<1>5. /\ stream \in Seq(Event) /\ stream' \in Seq(Event)
      /\ \A i : Status("consumed", i) # Terminal /\ Status("queued", i) # Terminal
      /\ ToSet(stream') \subseteq ToSet(stream) \union {Terminal}
      /\ ToSet(stream) \subseteq ToSet(stream')
  <2>1. stream \in Seq(Event) /\ Terminal \in Event
    BY DEF EnvType, Event
  <2>2. /\ Append(stream, Terminal) \in Seq(Event)
        /\ ToSet(Append(stream, Terminal)) = ToSet(stream) \union {Terminal}
    BY <2>1, AppendIs
  <2>3. \A i : Status("consumed", i) # Terminal /\ Status("queued", i) # Terminal
    BY DEF Terminal, Status
  <2> QED BY <2>1, <2>2, <2>3 DEF Drops
<1>6. EnvType'
  BY <1>4, <1>5, NoneIs DEF EnvType
<1>7. \A k \in {"consumed", "queued"}, i \in Inputs : InFlight(k, i)' <=> InFlight(k, i)
  BY <1>5 DEF InFlight
<1>8. NativeInv(lane)'
  <2>1. stream' # <<>> => InNative(L) /\ ~L.closed
    BY <1>1 DEF NativeInv, Drops
  <2>2. ASSUME NEW k \in 1..Len(stream'), stream'[k] = Terminal PROVE k = Len(stream')
    <3>1. CASE open
      <4>1. stream' = Append(stream, Terminal) /\ \A l \in 1..Len(stream) : stream[l] # Terminal
        BY <1>1, <3>1 DEF Drops, NativeInv
      <4> QED BY <1>5, <2>2, <4>1
    <3>2. CASE ~open
      BY <1>1, <2>2, <3>2 DEF Drops, NativeInv
    <3> QED BY <3>1, <3>2
  <2>3. loop.pc = "sealing" => stream' = <<>> /\ lane'.active.sealed
    BY <1>1, <1>3 DEF NativeInv, Drops, InNative, Idle
  <2>4. loop # Idle => InNative(lane') /\ loop.turn = lane'.active.id
    BY <1>1, <1>3 DEF NativeInv, InNative
  <2> QED BY <1>2, <1>3, <1>4, <2>1, <2>2, <2>3, <2>4 DEF NativeInv
<1>9. KnownInv(lane)'
  <2>1. \A i \in Inputs : L.state[i] # "new" => lane'.state[i] # "new"
    BY <1>2 DEF KeptInput
  <2> QED BY <1>1, <1>4, <2>1, EnvIs DEF KnownInv
<1>10. EventInv(lane)'
  <2> SUFFICES ASSUME NEW i \in Inputs PROVE (EventInv(lane)!(i))'
    BY DEF EventInv
  <2>1. InFlight("consumed", i)' => i \in ToSet(context')
    BY <1>1, <1>4, <1>7 DEF EventInv
  <2>2. ASSUME InFlight("queued", i)
        PROVE  /\ i = lane'.active.last /\ (lane'.active.pending = i \/ lane'.active.sealed)
               /\ ~lane'.closed => /\ i \notin ToSet(context) /\ i \notin ToSet(lane'.queued)
                                   /\ lane'.dispatch[i] \notin {"saving", "steering"}
    <3>1. HasTurn(L)
      BY <1>1, <2>2, InFlightIs
    <3>2. KeptInput(L, lane', i)
      BY <1>2
    <3> QED BY <1>1, <1>2, <1>3, <2>2, <3>1, <3>2 DEF EventInv, KeptInput
  <2>3. loop.pc = "observing" /\ ~lane'.closed =>
         /\ loop.event = Status("consumed", i) => lane'.state[i] = "consumed"
         /\ loop.event = Status("queued", i) => lane'.state[i] \in {"queued", "unknown"}
    <3>1. KeptInput(L, lane', i)
      BY <1>2
    <3> QED BY <1>1, <1>2, <3>1 DEF EventInv, KeptInput
  <2> QED BY <1>4, <1>7, <2>1, <2>2, <2>3
<1>11. InboxInv(lane)'
  BY <1>1, <1>4 DEF InboxInv
<1>12. RetainedInv(lane)'
  BY <1>4 DEF RetainedInv
<1>13. ContextInv(lane)'
  <2> SUFFICES ASSUME ~lane'.closed PROVE ContextInv(lane)'
    BY DEF ContextInv
  <2>1. \A i \in Inputs :
          /\ lane'.dispatch[i] \in {"saving", "steering"} => L.dispatch[i] \in {"saving", "steering"}
          /\ L.state[i] = "consumed" => lane'.state[i] = "consumed"
          /\ lane'.state[i] = "consumed" =>
               \/ L.state[i] = "consumed" \/ i \in ToSet(context)
               \/ HasTurn(L) /\ i \in ToSet(L.active.prompted)
    BY <1>2 DEF KeptInput
  <2>2. /\ Live(L) \subseteq Inputs
        /\ HasTurn(L) => /\ ToSet(L.active.steered) \subseteq Inputs
                         /\ First(L) \in Inputs
                         /\ ToSet(L.active.prompted) \intersect ToSet(L.active.steered) = {}
    BY <1>1, EnvIs DEF TurnShape
  <2>3. ASSUME NEW i \in ToSet(context) \intersect Live(L)
        PROVE  \/ lane'.state[i] = "consumed" \/ InFlight("consumed", i)'
               \/ HasTurn(lane') /\ i \in ToSet(lane'.active.prompted) /\ InFlight("consumed", First(lane))'
    <3>1. \/ L.state[i] = "consumed" \/ InFlight("consumed", i)
          \/ HasTurn(L) /\ i \in ToSet(L.active.prompted) /\ InFlight("consumed", First(L))
      BY <1>1, <1>2, <2>3 DEF ContextInv
    <3>2. InFlight("consumed", i)' <=> InFlight("consumed", i)
      BY <1>7, <2>2, <2>3
    <3>3. HasTurn(L) => InFlight("consumed", First(lane))' <=> InFlight("consumed", First(L))
      <4>1. HasTurn(L) => First(lane') = First(L)
        BY <1>3
      <4> QED BY <1>5, <4>1 DEF InFlight, Drops
    <3> QED BY <1>2, <1>3, <2>1, <2>2, <2>3, <3>1, <3>2, <3>3
  <2>4. HasTurn(lane') => \A i \in ToSet(lane'.active.steered) :
          lane'.state[i] = "consumed" => i \in ToSet(context)
    BY <1>1, <1>2, <1>3, <2>1, <2>2 DEF ContextInv
  <2>5. \A i \in Inputs : lane'.dispatch[i] \in {"saving", "steering"} => i \notin ToSet(context)
    BY <1>1, <1>2, <2>1 DEF ContextInv
  <2>6. InEarly(lane') => ToSet(context) \intersect ToSet(lane'.active.prompted) = {}
    BY <1>1, <1>2, <1>3 DEF ContextInv, InEarly
  <2>7. ToSet(context) \intersect ToSet(lane'.queued) = {}
    BY <1>1, <1>2 DEF ContextInv
  <2> QED BY <1>3, <1>4, <2>3, <2>4, <2>5, <2>6, <2>7 DEF ContextInv
<1>14. SaveInv(lane)'
  BY <1>2 DEF SaveInv, KeptTurn, KeptInput
<1> QED BY <1>6, <1>8, <1>9, <1>10, <1>11, <1>12, <1>13, <1>14 DEF Inv, Env

\* The guardian's Stop.
LEMMA StopStep ==
  ASSUME Inv, Stop
  PROVE  Inv'
<1> DEFINE t == [lane.active EXCEPT !.interrupted = TRUE, !.stopped = TRUE]
<1>1. /\ Shape(lane) /\ EnvType /\ Env(lane) /\ lane \in Lane /\ TurnShape(lane)
      /\ QueueShape(lane) /\ NativeInv(lane) /\ HasTurn(lane) /\ lane.active \in Turn
  BY LaneIs DEF Inv, Shape, Env, Stop
<1>2. /\ lane' = [lane EXCEPT !.active = t] /\ loop' = loop
      /\ IF Current THEN InterruptProvider ELSE UNCHANGED providerVars
  BY DEF Stop
<1>3. Marked(lane, t) /\ t \in Turn /\ t.stage = lane.active.stage
  BY <1>1 DEF Turn, Marked, TurnShape, QueueShape
<1> HIDE DEF t
<1>4. Turned(lane, t, lane')
  BY <1>1, <1>2, <1>3, TurnedIs
<1>5. Shape(lane') /\ Kept(lane, lane')
  BY <1>1, <1>3, <1>4, MarkedKeeps
<1>6. Drops \/ (UNCHANGED providerVars /\ (open \/ ~Current))
  BY <1>2 DEF InterruptProvider, Drops, Terminal, providerVars
<1>7. CASE Drops
  BY <1>1, <1>2, <1>5, <1>7, DropStep
<1>8. CASE UNCHANGED providerVars /\ (open \/ ~Current)
  <2>1. KeptInterrupt(lane, lane')
    BY <1>1, <1>3, <1>4, <1>8 DEF KeptInterrupt, Turned, Current, Stage, NativeInv, InNative,
                                  Native, Early
  <2> QED BY <1>2, <1>5, <1>8, <2>1, KeepStep
<1> QED BY <1>6, <1>7, <1>8
-----------------------------------------------------------------------------
(* submit() *)

\* submit()'s first assignments, as the fields of the lane.
AcceptedAs(i, A) ==
  /\ A \in Lane /\ A.active = lane.active /\ A.queued = lane.queued
  /\ A.carried = lane.carried /\ A.closed = lane.closed /\ A.turns = lane.turns
  /\ A.owner = lane.owner /\ A.durable = lane.durable /\ A.dispatch = lane.dispatch
  /\ \A j \in Inputs : A.state[j] = IF j = i THEN "queued" ELSE lane.state[j]

\* And they are those.
LEMMA AcceptedIs ==
  ASSUME lane \in Lane, NEW i \in Inputs, NEW p \in {"next", "now"}
  PROVE  AcceptedAs(i, Accepted(i, p))
BY DEF Lane, Accepted, AcceptedAs, States, Settled

\* An input that was not submitted yet is nowhere.
LEMMA FreshIs ==
  ASSUME Inv, NEW i \in Inputs, lane.state[i] = "new"
  PROVE  /\ i \notin Live(lane) /\ i \notin ToSet(context) /\ i \notin retained /\ i \notin Ids
         /\ i \notin ToSet(lane.queued) /\ i \notin ToSet(lane.carried)
         /\ HasTurn(lane) => /\ i \notin ToSet(lane.active.prompted)
                             /\ i \notin ToSet(lane.active.steered)
         /\ lane.dispatch[i] = "none"
         /\ ~InFlight("consumed", i) /\ ~InFlight("queued", i)
<1>1. /\ QueueShape(lane) /\ DispatchShape(lane) /\ KnownInv(lane) /\ InboxInv(lane)
      /\ EventInv(lane) /\ NativeInv(lane) /\ TurnShape(lane)
  BY DEF Inv, Shape, Env
<1>2. /\ i \notin Live(lane) /\ i \notin ToSet(context) /\ i \notin retained
      /\ lane.dispatch[i] = "none"
  BY <1>1 DEF QueueShape, DispatchShape, KnownInv
<1>3. /\ i \notin ToSet(lane.queued) /\ i \notin ToSet(lane.carried)
      /\ HasTurn(lane) => /\ i \notin ToSet(lane.active.prompted)
                          /\ i \notin ToSet(lane.active.steered)
  BY <1>2 DEF Live, Ridden
<1>4. i \notin Ids
  BY <1>1 DEF Ids, KnownInv, InboxInv
<1>5. ~InFlight("consumed", i)
  BY <1>1, <1>2 DEF EventInv
<1>6. ~InFlight("queued", i)
  <2> SUFFICES ASSUME InFlight("queued", i) PROVE FALSE
    OBVIOUS
  <2>1. HasTurn(lane) /\ i = lane.active.last
    BY <1>1, InFlightIs DEF EventInv
  <2> QED BY <1>1, <1>3, <2>1, LaneAssumption DEF TurnShape
<1> QED BY <1>2, <1>3, <1>4, <1>5, <1>6

\* submit() to an idle lane.
LEMMA SubmitFirstStep ==
  ASSUME Inv, NEW i \in Inputs, NEW p \in {"next", "now"}, lane.state[i] = "new", ~lane.closed,
         SubmitFirst(i, p), loop' = loop
  PROVE  Inv'
<1> DEFINE A == Accepted(i, p)
<1>1. /\ Shape(lane) /\ EnvType /\ lane \in Lane /\ TurnShape(lane) /\ QueueShape(lane)
      /\ DispatchShape(lane) /\ NativeInv(lane) /\ KnownInv(lane) /\ EventInv(lane)
      /\ InboxInv(lane) /\ RetainedInv(lane) /\ ContextInv(lane) /\ SaveInv(lane)
      /\ ~HasTurn(lane)
  BY DEF Inv, Shape, Env, SubmitFirst
<1>2. AcceptedAs(i, A)
  BY <1>1, AcceptedIs
<1>3. lane' = Start(A, i) /\ UNCHANGED <<loop, providerVars>>
  BY DEF SubmitFirst
<1> HIDE DEF A
<1>4. Started(A, i, lane')
  BY <1>2, <1>3, StartIs DEF AcceptedAs
<1>5. /\ lane.queued = <<>> /\ lane.carried = <<>> /\ A.queued = <<>> /\ A.carried = <<>>
      /\ A.closed = lane.closed /\ A \in Lane
  BY <1>1, <1>2 DEF QueueShape, AcceptedAs
<1>6. /\ i \notin ToSet(context) /\ i \notin retained /\ i \notin Ids
      /\ lane.dispatch[i] = "none"
  BY FreshIs
<1>7. \A j \in Inputs : /\ A.dispatch[j] = lane.dispatch[j]
                        /\ \/ lane.dispatch[j] = "none"
                           \/ /\ lane.dispatch[j] = "delivered" /\ lane.state[j] = "consumed"
                              /\ A.state[j] = "consumed"
  BY <1>1, <1>2, <1>6 DEF DispatchShape, AcceptedAs
<1>8. Shape(lane')
  <2>1. /\ Distinct(A.queued) /\ Distinct(A.carried)
        /\ ToSet(A.queued) = {} /\ ToSet(A.carried) = {}
    BY <1>5, NoneIs
  <2>2. A.state[i] = "queued" /\ \A j \in Inputs : A.owner[j] <= A.turns
    BY <1>1, <1>2 DEF AcceptedAs, QueueShape
  <2> QED BY <1>4, <1>5, <1>7, <2>1, <2>2, StartShape
<1>9. /\ HasTurn(lane') /\ lane'.active.stage = "waiting" /\ ToSet(lane'.active.prompted) = {i}
      /\ ToSet(lane'.active.steered) = {} /\ ToSet(lane'.queued) = {} /\ lane'.carried = <<>>
      /\ lane'.closed = lane.closed /\ First(lane') = i /\ lane'.dispatch = lane.dispatch
      /\ \A j \in Inputs : lane.state[j] # "new" => lane'.state[j] # "new"
  <2>1. /\ ToSet(Prompt(A, i)) = ToSet(A.carried) \union {i} \union ToSet(Absorbed(A, i))
        /\ ToSet(Absorbed(A, i)) \subseteq ToSet(A.queued)
        /\ ToSet(Rest(A, i)) = ToSet(A.queued) \ ToSet(Absorbed(A, i))
    BY <1>5, PromptIs
  <2>2. ToSet(Prompt(A, i)) = {i} /\ ToSet(Rest(A, i)) = {}
    BY <1>5, <2>1, NoneIs
  <2>3. \A j \in Inputs : lane.state[j] # "new" => lane'.state[j] # "new"
    BY <1>2, <1>4 DEF Started, AcceptedAs
  <2>4. ToSet(lane'.active.steered) = {}
    BY <1>4, NoneIs DEF Started
  <2> QED BY <1>2, <1>4, <1>5, <2>2, <2>3, <2>4 DEF Started, First, AcceptedAs
<1>10. Live(lane') = {i} /\ InEarly(lane') /\ ~InNative(lane')
  BY <1>9, NoneIs DEF Live, Ridden, InEarly, InNative, Early, Native
<1>11. ~open /\ stream = <<>> /\ loop = Idle /\ \A k, j : ~InFlight(k, j)
  <2>1. ~open /\ stream = <<>> /\ loop = Idle
    BY <1>1 DEF NativeInv, InNative
  <2> QED BY <2>1, NoneIs DEF InFlight, Idle
<1>12. NativeInv(lane')
  BY <1>1, <1>9, <1>11 DEF NativeInv, Idle
<1>13. KnownInv(lane')
  BY <1>1, <1>8, <1>9, EnvIs DEF KnownInv, EnvType
<1>14. EventInv(lane')
  BY <1>11 DEF EventInv, Idle
<1>15. InboxInv(lane')
  BY <1>1, <1>9, <1>11 DEF InboxInv
<1>16. RetainedInv(lane')
  BY <1>6, <1>9, <1>10, <1>11 DEF RetainedInv
<1>17. ContextInv(lane')
  BY <1>1, <1>6, <1>7, <1>9, <1>10 DEF ContextInv
<1>18. SaveInv(lane')
  BY <1>7, <1>9 DEF SaveInv
<1>19. Env(lane')
  BY <1>12, <1>13, <1>14, <1>15, <1>16, <1>17, <1>18 DEF Env
<1> QED BY <1>1, <1>3, <1>8, <1>19, EnvUnchanged

\* An accepted input joins the queue behind a running turn.
Joined(i, L) ==
  /\ L \in Lane /\ L.active = lane.active /\ L.queued = Append(lane.queued, i)
  /\ L.carried = lane.carried /\ L.closed = lane.closed /\ L.turns = lane.turns
  /\ L.owner = lane.owner /\ L.durable = lane.durable /\ L.dispatch = lane.dispatch
  /\ \A j \in Inputs : L.state[j] = IF j = i THEN "queued" ELSE lane.state[j]

\* The fields of a lane with a submitted input at the end of its queue.
LEMMA JoinedIs ==
  ASSUME lane \in Lane, NEW i \in Inputs, NEW p \in {"next", "now"}
  PROVE  Joined(i, [Accepted(i, p) EXCEPT !.queued = Append(@, i)])
<1> DEFINE A == Accepted(i, p)
           L == [A EXCEPT !.queued = Append(@, i)]
<1>1. AcceptedAs(i, A)
  BY AcceptedIs
<1>2. Append(lane.queued, i) \in Seq(Inputs)
  BY LaneIs
<1> HIDE DEF A
<1>3. A \in Lane /\ A.queued = lane.queued
  BY <1>1 DEF AcceptedAs
<1>4. /\ L \in Lane /\ L.active = A.active /\ L.queued = Append(lane.queued, i)
      /\ L.carried = A.carried /\ L.closed = A.closed /\ L.turns = A.turns
      /\ L.owner = A.owner /\ L.durable = A.durable /\ L.dispatch = A.dispatch
      /\ L.state = A.state
  BY <1>2, <1>3 DEF Lane
<1> HIDE DEF L
<1>5. Joined(i, L)
  BY <1>1, <1>4 DEF AcceptedAs, Joined
<1> QED BY <1>5 DEF L, A

\* Queueing a submitted input keeps the invariant.
LEMMA JoinedInv ==
  ASSUME Inv, NEW i \in Inputs, lane.state[i] = "new", ~lane.closed, HasTurn(lane),
         NEW L, Joined(i, L)
  PROVE  Shape(L) /\ Env(L) /\ L.queued # <<>>
<1>1. /\ Shape(lane) /\ EnvType /\ lane \in Lane /\ TurnShape(lane) /\ QueueShape(lane)
      /\ DispatchShape(lane) /\ StatusShape(lane) /\ NativeInv(lane) /\ KnownInv(lane)
      /\ EventInv(lane) /\ InboxInv(lane) /\ RetainedInv(lane) /\ ContextInv(lane)
      /\ SaveInv(lane)
  BY DEF Inv, Shape, Env
<1>2. /\ i \notin Live(lane) /\ i \notin ToSet(context) /\ i \notin retained /\ i \notin Ids
      /\ i \notin ToSet(lane.queued) /\ i \notin ToSet(lane.carried)
      /\ i \notin ToSet(lane.active.prompted) /\ i \notin ToSet(lane.active.steered)
      /\ lane.dispatch[i] = "none" /\ ~InFlight("consumed", i) /\ ~InFlight("queued", i)
  BY FreshIs
<1>3. /\ L \in Lane /\ L.active = lane.active /\ L.carried = lane.carried
      /\ L.closed = lane.closed /\ L.turns = lane.turns /\ L.owner = lane.owner
      /\ L.durable = lane.durable /\ L.dispatch = lane.dispatch
      /\ \A j \in Inputs : L.state[j] = IF j = i THEN "queued" ELSE lane.state[j]
  BY DEF Joined
<1>4. /\ ToSet(L.queued) = ToSet(lane.queued) \union {i} /\ Distinct(L.queued)
      /\ L.queued # <<>>
      /\ lane.queued # <<>> => Head(L.queued) = Head(lane.queued)
  <2>1. lane.queued \in Seq(Inputs) /\ L.queued = Append(lane.queued, i) /\ Distinct(lane.queued)
    BY <1>1, LaneIs DEF Joined, QueueShape
  <2>2. lane.queued # <<>> => Head(Append(lane.queued, i)) = Head(lane.queued)
    BY <2>1
  <2> QED BY <1>2, <2>1, <2>2, AppendIs
<1>5. /\ HasTurn(L) /\ First(L) = First(lane) /\ Bound(L) = Bound(lane)
      /\ Live(L) = Live(lane) \union {i} /\ Live(lane) \subseteq Inputs
      /\ InEarly(L) <=> InEarly(lane)
      /\ InNative(L) <=> InNative(lane)
  BY <1>1, <1>3, <1>4, EnvIs DEF HasTurn, First, Bound, Live, Ridden, InEarly, InNative
<1>6. TurnShape(L)
  BY <1>1, <1>3, <1>5 DEF TurnShape
<1>7. QueueShape(L)
  BY <1>1, <1>2, <1>3, <1>4, <1>5 DEF QueueShape
<1>8. DispatchShape(L)
  BY <1>1, <1>2, <1>3, <1>4, <1>5 DEF DispatchShape
<1>9. StatusShape(L)
  <2>1. \A j \in ToSet(L.queued) : L.state[j] \in {"queued", "unknown"}
    BY <1>1, <1>3, <1>4, EnvIs DEF StatusShape
  <2>2. \A j \in ToSet(lane.active.prompted) : L.state[j] = lane.state[j]
    BY <1>1, <1>2, <1>3, EnvIs
  <2>3. Bound(lane) \subseteq ToSet(lane.active.prompted)
    BY DEF Bound
  <2> QED BY <1>1, <1>3, <1>5, <2>1, <2>2, <2>3 DEF StatusShape
<1>10. Shape(L)
  BY <1>3, <1>6, <1>7, <1>8, <1>9 DEF Shape
<1>11. NativeInv(L)
  BY <1>1, <1>3, <1>5 DEF NativeInv
<1>12. KnownInv(L)
  BY <1>1, <1>3, EnvIs DEF KnownInv, EnvType
<1>13. EventInv(L)
  BY <1>1, <1>2, <1>3, <1>4, <1>5 DEF EventInv
<1>14. InboxInv(L)
  <2>1. /\ open => Ids \intersect ToSet(L.queued) = {}
        /\ i \notin Ids /\ \A k \in 1..Len(inbox) : inbox[k].id # i
    BY <1>1, <1>2, <1>4 DEF InboxInv, Ids
  <2> QED BY <1>1, <1>3, <1>5, <2>1 DEF InboxInv
<1>15. RetainedInv(L)
  BY <1>1, <1>2, <1>3, <1>4, <1>5, NoneIs DEF RetainedInv
<1>16. ContextInv(L)
  <2>1. \A j \in ToSet(L.active.steered) : L.state[j] = "consumed" => j \in ToSet(context)
    BY <1>1, <1>2, <1>3, EnvIs DEF ContextInv
  <2>2. \A j \in ToSet(context) \intersect Live(L) :
         \/ L.state[j] = "consumed" \/ InFlight("consumed", j)
         \/ HasTurn(L) /\ j \in ToSet(L.active.prompted) /\ InFlight("consumed", First(L))
    BY <1>1, <1>2, <1>3, <1>5 DEF ContextInv
  <2> QED BY <1>1, <1>2, <1>3, <1>4, <1>5, <2>1, <2>2 DEF ContextInv, InEarly
<1>17. SaveInv(L)
  BY <1>1, <1>3, <1>5 DEF SaveInv
<1> QED BY <1>4, <1>10, <1>11, <1>12, <1>13, <1>14, <1>15, <1>16, <1>17 DEF Env

\* submit().
LEMMA SubmitStep ==
  ASSUME Inv, NEW i \in Inputs, NEW p \in Priorities, Submit(i, p)
  PROVE  Inv'
<1>1. /\ lane \in Lane /\ ~lane.closed /\ lane.state[i] = "new" /\ p \in {"next", "now"}
      /\ loop' = loop /\ EnvType /\ Env(lane) /\ NativeInv(lane)
      /\ SubmitFirst(i, p) \/ (p = "next" /\ SubmitNext(i)) \/ (p = "now" /\ SubmitNow(i))
  BY LaneAssumption DEF Inv, Shape, Submit, Env
<1>2. CASE SubmitFirst(i, p)
  BY <1>1, <1>2, SubmitFirstStep
<1>3. CASE SubmitNext(i)
  <2> DEFINE L == [Accepted(i, "next") EXCEPT !.queued = Append(@, i)]
  <2>1. Joined(i, L)
    BY <1>1, JoinedIs
  <2>2. HasTurn(lane) /\ lane' = Flush(L) /\ UNCHANGED <<loop, providerVars>>
    BY <1>1, <1>3 DEF SubmitNext
  <2> HIDE DEF L
  <2>3. Shape(L) /\ Env(L)
    BY <1>1, <2>1, <2>2, JoinedInv
  <2>4. Shape(lane') /\ Env(lane')
    BY <1>1, <2>2, <2>3, FlushShape, FlushEnv
  <2> QED BY <1>1, <2>2, <2>4, EnvUnchanged
<1>4. CASE SubmitNow(i)
  <2> DEFINE L == [Accepted(i, "now") EXCEPT !.queued = Append(@, i)]
             t == [lane.active EXCEPT !.superseded = TRUE, !.sealed = TRUE, !.interrupted = TRUE]
  <2>1. Joined(i, L) /\ HasTurn(lane)
    BY <1>1, <1>4, JoinedIs DEF SubmitNow
  <2>2. L \in Lane /\ L.active = lane.active /\ L.closed = lane.closed
    BY <2>1 DEF Joined
  <2>3. \/ lane' = L /\ UNCHANGED providerVars
        \/ /\ lane' = [L EXCEPT !.active = [@ EXCEPT !.superseded = TRUE,
                                               !.sealed = TRUE, !.interrupted = TRUE]]
           /\ IF Current THEN InterruptProvider ELSE UNCHANGED providerVars
    BY <1>4 DEF SubmitNow
  <2> HIDE DEF L
  <2>4. Shape(L) /\ Env(L) /\ L.queued # <<>>
    BY <1>1, <2>1, JoinedInv
  <2>5. CASE lane' = L /\ UNCHANGED providerVars
    BY <1>1, <2>4, <2>5, EnvUnchanged
  <2>6. CASE /\ lane' = [L EXCEPT !.active = [@ EXCEPT !.superseded = TRUE,
                                               !.sealed = TRUE, !.interrupted = TRUE]]
             /\ IF Current THEN InterruptProvider ELSE UNCHANGED providerVars
    <3>1. lane' = [L EXCEPT !.active = t]
      BY <2>2, <2>6 DEF Lane
    <3>2. HasTurn(L) /\ L.active \in Turn /\ TurnShape(L) /\ QueueShape(L) /\ NativeInv(L)
      BY <2>1, <2>2, <2>4, LaneIs DEF HasTurn, Shape, Env
    <3>3. Marked(L, t) /\ t \in Turn /\ t.stage = L.active.stage
      BY <2>2, <2>4, <3>2 DEF Turn, Marked, TurnShape
    <3> HIDE DEF t
    <3>4. Turned(L, t, lane')
      BY <2>2, <3>1, <3>3, TurnedIs
    <3>5. Shape(lane') /\ Kept(L, lane')
      BY <1>1, <2>4, <3>2, <3>3, <3>4, MarkedKeeps
    <3>6. Drops \/ (UNCHANGED providerVars /\ (open \/ ~Current))
      BY <2>6 DEF InterruptProvider, Drops, Terminal, providerVars
    <3>7. CASE Drops
      BY <1>1, <2>4, <3>5, <3>7, DropStep
    <3>8. CASE UNCHANGED providerVars /\ (open \/ ~Current)
      <4>1. KeptInterrupt(L, lane')
        BY <2>1, <2>2, <3>2, <3>3, <3>4, <3>8 DEF KeptInterrupt, Turned, Current, Stage, NativeInv,
                                      InNative, Native, Early
      <4>2. Env(lane')
        BY <1>1, <2>4, <3>5, <4>1, KeepEnv
      <4> QED BY <1>1, <3>5, <3>8, <4>2, EnvUnchanged
    <3> QED BY <3>6, <3>7, <3>8
  <2> QED BY <2>3, <2>5, <2>6
<1> QED BY <1>1, <1>2, <1>3, <1>4
-----------------------------------------------------------------------------
(* The provider *)

\* The native turn fails.
LEMMA ProviderErrsStep ==
  ASSUME Inv, ProviderErrs
  PROVE  Inv'
<1>1. /\ Shape(lane) /\ EnvType /\ NativeInv(lane) /\ KnownInv(lane) /\ EventInv(lane)
      /\ InboxInv(lane) /\ RetainedInv(lane) /\ ContextInv(lane) /\ SaveInv(lane)
  BY DEF Inv, Env
<1>2. /\ open /\ open' = FALSE /\ inbox' = <<>> /\ stream' = Append(stream, Terminal)
      /\ lane' = lane /\ loop' = loop /\ context' = context /\ retained' = retained
      /\ Ids' = {} /\ 1..Len(inbox') = {}
  BY DEF ProviderErrs, Terminal, Ids
<1>3. /\ stream \in Seq(Event) /\ stream' \in Seq(Event) /\ Len(stream) \in Nat
      /\ \A i : Status("consumed", i) # Terminal /\ Status("queued", i) # Terminal
      /\ ToSet(stream') = ToSet(stream) \union {Terminal}
  <2>1. stream \in Seq(Event) /\ Terminal \in Event
    BY <1>1 DEF EnvType, Event
  <2>2. \A i : Status("consumed", i) # Terminal /\ Status("queued", i) # Terminal
    BY DEF Terminal, Status
  <2> QED BY <1>2, <2>1, <2>2, AppendIs
<1>4. EnvType'
  BY <1>1, <1>2, <1>3, NoneIs DEF EnvType
<1>5. \A i : /\ InFlight("consumed", i)' <=> InFlight("consumed", i)
             /\ InFlight("queued", i)' <=> InFlight("queued", i)
  BY <1>2, <1>3 DEF InFlight
<1>6. NativeInv(lane)'
  <2>1. \A k \in 1..Len(stream) : stream[k] # Terminal
    BY <1>1, <1>2 DEF NativeInv
  <2>2. \A k \in 1..Len(stream') : stream'[k] = Terminal => k = Len(stream')
    BY <1>2, <1>3, <2>1
  <2> QED BY <1>1, <1>2, <2>2 DEF NativeInv
<1>7. KnownInv(lane)'
  BY <1>1, <1>2 DEF KnownInv
<1>8. EventInv(lane)'
  BY <1>1, <1>2, <1>5 DEF EventInv
<1>9. InboxInv(lane)'
  BY <1>1, <1>2 DEF InboxInv
<1>10. RetainedInv(lane)'
  BY <1>1, <1>2 DEF RetainedInv, NativeInv, InNative, Native, Early
<1>11. ContextInv(lane)'
  BY <1>1, <1>2, <1>5 DEF ContextInv
<1>12. SaveInv(lane)'
  BY <1>1, <1>2 DEF SaveInv
<1> QED BY <1>1, <1>2, <1>4, <1>6, <1>7, <1>8, <1>9, <1>10, <1>11, <1>12 DEF Inv, Env

\* The provider reads its oldest message.
LEMMA ProviderReadsStep ==
  ASSUME Inv, ProviderReads
  PROVE  Inv'
<1>0. PICK h : h = inbox[1]
  OBVIOUS
<1> DEFINE i == h.id
           P == ToSet(h.parts)
           n == Len(inbox)
<1>1. /\ Shape(lane) /\ EnvType /\ NativeInv(lane) /\ KnownInv(lane) /\ EventInv(lane)
      /\ InboxInv(lane) /\ RetainedInv(lane) /\ ContextInv(lane) /\ SaveInv(lane)
      /\ TurnShape(lane) /\ QueueShape(lane) /\ DispatchShape(lane)
  BY DEF Inv, Env, Shape
<1>2. /\ open /\ open' = open /\ inbox # <<>> /\ context' = context \o h.parts
      /\ inbox' = Tail(inbox) /\ stream' = Append(stream, Status("consumed", i))
      /\ lane' = lane /\ loop' = loop /\ retained' = retained
      /\ inbox \in Seq(Message) /\ n \in Nat \ {0} /\ Len(inbox') = n - 1
      /\ \A k \in 1..Len(inbox') : inbox'[k] = inbox[k + 1] /\ k + 1 \in 1..n
      /\ inbox' \in Seq(Message)
  <2>1. inbox \in Seq(Message) /\ inbox # <<>>
    BY <1>1 DEF EnvType, ProviderReads
  <2>2. Head(inbox) = h /\ inbox[1] = h /\ n \in Nat \ {0}
    BY <1>0, <2>1
  <2>3. /\ open /\ open' = open /\ inbox # <<>> /\ context' = context \o h.parts
        /\ inbox' = Tail(inbox) /\ stream' = Append(stream, Status("consumed", i))
        /\ lane' = lane /\ loop' = loop /\ retained' = retained
    BY <2>2 DEF ProviderReads
  <2> QED BY <2>1, <2>2, <2>3
<1>3. /\ 1 \in 1..n /\ i \in Inputs /\ i \in Ids /\ h.parts \in Seq(Inputs) /\ P \subseteq Inputs
      /\ i \in P /\ Distinct(h.parts) /\ P \intersect ToSet(context) = {}
      /\ \/ h.parts = <<i>> /\ P = {i}
         \/ i = First(lane) /\ h.parts = lane.active.prompted
      /\ \A j \in P : lane.state[j] # "new"
  <2>1. 1 \in 1..n
    BY <1>2
  <2>2. i \in Inputs /\ h.parts \in Seq(Inputs) /\ P \subseteq Inputs
    BY <1>0, <1>1, <2>1, EnvIs DEF Parts
  <2>3. /\ i \in P /\ Distinct(h.parts) /\ P \intersect ToSet(context) = {}
        /\ h.parts = <<i>> \/ (i = First(lane) /\ h.parts = lane.active.prompted)
    BY <1>0, <1>1, <2>1 DEF InboxInv, Parts
  <2>4. \A j \in P : lane.state[j] # "new"
    BY <1>0, <1>1, <2>1 DEF KnownInv, Parts
  <2>5. i \in Ids
    BY <1>0, <2>1 DEF Ids
  <2> QED BY <2>1, <2>2, <2>3, <2>4, <2>5, OneIs
<1> HIDE DEF n
<1>4. InNative(lane) /\ HasTurn(lane) /\ ~lane.closed /\ ~InEarly(lane)
  BY <1>1, <1>2 DEF NativeInv, InNative, InEarly, Native, Early
<1>5. /\ Status("consumed", i) \in Event /\ Status("consumed", i) # Terminal
      /\ \A j : Status("consumed", i) # Status("queued", j)
      /\ stream \in Seq(Event) /\ stream' \in Seq(Event) /\ Len(stream) \in Nat
      /\ ToSet(stream') = ToSet(stream) \union {Status("consumed", i)}
  <2>1. Status("consumed", i) \in Event /\ stream \in Seq(Event)
    BY <1>1, <1>3 DEF EnvType, Event
  <2>2. /\ Status("consumed", i) # Terminal
        /\ \A j : Status("consumed", i) # Status("queued", j)
    BY DEF Terminal, Status
  <2> QED BY <1>2, <2>1, <2>2, AppendIs
<1>6. /\ \A j : InFlight("queued", j)' <=> InFlight("queued", j)
      /\ \A j : InFlight("consumed", j) => InFlight("consumed", j)'
      /\ InFlight("consumed", i)'
      /\ \A j \in Inputs : InFlight("consumed", j)' => InFlight("consumed", j) \/ j = i
  <2>1. \A j : Status("consumed", j) = Status("consumed", i) => j = i
    BY DEF Status
  <2> QED BY <1>2, <1>5, <2>1 DEF InFlight
<1>7. /\ context \in Seq(Inputs) /\ context' \in Seq(Inputs)
      /\ ToSet(context') = ToSet(context) \union P /\ Distinct(context')
  <2>1. context \in Seq(Inputs) /\ Distinct(context)
    BY <1>1 DEF EnvType, InboxInv
  <2> QED BY <1>2, <1>3, <2>1, JoinIs
<1>8. EnvType'
  BY <1>1, <1>2, <1>5, <1>7 DEF EnvType
<1>9. NativeInv(lane)'
  <2>1. \A k \in 1..Len(stream) : stream[k] # Terminal
    BY <1>1, <1>2 DEF NativeInv
  <2>2. \A k \in 1..Len(stream') : stream'[k] # Terminal
    BY <1>2, <1>5, <2>1
  <2> QED BY <1>1, <1>2, <1>4, <2>2 DEF NativeInv
<1>10. KnownInv(lane)'
  <2>1. \A k \in 1..n : \A j \in ToSet(inbox[k].parts) : lane.state[j] # "new"
    BY <1>1 DEF KnownInv, Parts, n
  <2> QED BY <1>1, <1>2, <1>3, <1>7, <2>1 DEF KnownInv, Parts
<1>11. Ids' \subseteq Ids
  BY <1>2 DEF Ids, n
<1>12. EventInv(lane)'
  <2> SUFFICES ASSUME NEW j \in Inputs PROVE (EventInv(lane)!(j))'
    BY DEF EventInv
  <2>1. InFlight("consumed", j)' => j \in ToSet(context')
    BY <1>1, <1>3, <1>6, <1>7 DEF EventInv
  <2>2. ~InFlight("queued", j)'
    BY <1>1, <1>2, <1>4, <1>6 DEF EventInv
  <2> QED BY <1>1, <1>2, <2>1, <2>2 DEF EventInv
<1>13. InboxInv(lane)'
  <2>1. ASSUME NEW k \in 1..Len(inbox')
        PROVE  /\ inbox'[k].id \in ToSet(inbox'[k].parts) /\ Distinct(inbox'[k].parts)
               /\ ToSet(inbox'[k].parts) \intersect ToSet(context') = {}
               /\ \/ inbox'[k].parts = <<inbox'[k].id>>
                  \/ open' /\ inbox'[k].id = First(lane) /\ inbox'[k].parts = lane.active.prompted
    <3>1. k + 1 \in 1..n /\ k + 1 # 1 /\ inbox'[k] = inbox[k + 1]
      BY <1>2
    <3>2. ToSet(inbox[k + 1].parts) \intersect P = {}
      BY <1>0, <1>1, <1>3, <3>1 DEF InboxInv, Parts, n
    <3> QED BY <1>1, <1>2, <1>7, <3>1, <3>2 DEF InboxInv, Parts, n
  <2>2. ASSUME NEW k \in 1..Len(inbox'), NEW l \in 1..Len(inbox'), k # l
        PROVE  ToSet(inbox'[k].parts) \intersect ToSet(inbox'[l].parts) = {}
    <3>1. /\ k + 1 \in 1..n /\ l + 1 \in 1..n /\ k + 1 # l + 1
          /\ inbox'[k] = inbox[k + 1] /\ inbox'[l] = inbox[l + 1]
      BY <1>2, <2>2
    <3>2. ToSet(inbox[k + 1].parts) \intersect ToSet(inbox[l + 1].parts) = {}
      <4> HIDE <2>2
      <4> QED BY <1>1, <3>1 DEF InboxInv, Parts, n
    <3> QED BY <3>1, <3>2
  <2>3. ASSUME NEW k \in 1..Len(inbox')
        PROVE  \/ inbox'[k].id = First(lane)
               \/ inbox'[k].id \in ToSet(lane.active.steered)
               \/ /\ inbox'[k].id \notin Live(lane)
                  /\ \E l \in 1..Len(inbox') : k < l /\ inbox'[l].id = First(lane)
    <3>1. k + 1 \in 1..n /\ inbox'[k] = inbox[k + 1]
      BY <1>2
    <3>2. \/ inbox[k + 1].id = First(lane)
          \/ inbox[k + 1].id \in ToSet(lane.active.steered)
          \/ inbox[k + 1].id \notin Live(lane) /\ \E m \in 1..n : k + 1 < m /\ inbox[m].id = First(lane)
      BY <1>1, <1>2, <3>1 DEF InboxInv, n
    <3>3. ASSUME NEW m \in 1..n, k + 1 < m, inbox[m].id = First(lane)
          PROVE  \E l \in 1..Len(inbox') : k < l /\ inbox'[l].id = First(lane)
      <4>1. m - 1 \in 1..Len(inbox') /\ k < m - 1 /\ inbox'[m - 1] = inbox[(m - 1) + 1] /\ (m - 1) + 1 = m
        BY <1>2, <3>3
      <4> QED BY <3>3, <4>1
    <3> QED BY <3>1, <3>2, <3>3
  <2>4. /\ open' => Ids' \intersect ToSet(lane.queued) = {}
        /\ \A j \in Ids' \intersect ToSet(lane.active.steered) :
              j = lane.active.last /\ (lane.active.pending = j \/ lane.active.sealed)
    BY <1>1, <1>2, <1>4, <1>11 DEF InboxInv
  <2>5. /\ \A k, l \in 1..Len(inbox') :
              k # l => ToSet(inbox'[k].parts) \intersect ToSet(inbox'[l].parts) = {}
        /\ \A k \in 1..Len(inbox') :
           \/ inbox'[k].id = First(lane)
           \/ inbox'[k].id \in ToSet(lane.active.steered)
           \/ inbox'[k].id \notin Live(lane) /\ \E l \in 1..Len(inbox') : k < l /\ inbox'[l].id = First(lane)
        /\ \A k \in 1..Len(inbox') :
           /\ inbox'[k].id \in ToSet(inbox'[k].parts) /\ Distinct(inbox'[k].parts)
           /\ ToSet(inbox'[k].parts) \intersect ToSet(context') = {}
           /\ \/ inbox'[k].parts = <<inbox'[k].id>>
              \/ open' /\ inbox'[k].id = First(lane) /\ inbox'[k].parts = lane.active.prompted
    BY <2>1, <2>2, <2>3
  <2> QED BY <1>2, <1>7, <2>4, <2>5 DEF InboxInv, Parts
<1>14. RetainedInv(lane)'
  BY <1>1, <1>2, <1>4 DEF RetainedInv, InEarly, InNative, Native, Early
<1>15. ContextInv(lane)'
  <2>1. ASSUME NEW j \in ToSet(context') \intersect Live(lane)
        PROVE  \/ lane.state[j] = "consumed" \/ InFlight("consumed", j)'
               \/ j \in ToSet(lane.active.prompted) /\ InFlight("consumed", First(lane))'
    <3>1. CASE j \in ToSet(context)
      <4>1. \/ lane.state[j] = "consumed" \/ InFlight("consumed", j)
            \/ j \in ToSet(lane.active.prompted) /\ InFlight("consumed", First(lane))
        BY <1>1, <1>4, <2>1, <3>1 DEF ContextInv
      <4>2. InFlight("consumed", First(lane)) => InFlight("consumed", First(lane))'
        BY <1>2, <1>5 DEF InFlight, First
      <4> QED BY <1>6, <4>1, <4>2
    <3>2. CASE j \in P
      <4>1. i = First(lane) => InFlight("consumed", First(lane))'
        BY <1>2, <1>5 DEF InFlight, First
      <4> QED BY <1>3, <1>6, <3>2, <4>1
    <3> QED BY <1>7, <2>1, <3>1, <3>2
  <2>2. P \intersect ToSet(lane.queued) = {}
    BY <1>1, <1>2, <1>3, <1>4 DEF InboxInv, QueueShape
  <2>3. ASSUME NEW j \in Inputs, lane.dispatch[j] \in {"saving", "steering"}
        PROVE  j \notin ToSet(context') \union Ids'
    <3>1. j \notin ToSet(context) \union Ids
      BY <1>1, <1>4, <2>3 DEF ContextInv
    <3>2. j \notin ToSet(lane.active.prompted)
      BY <1>1, <1>4, <2>3, LaneAssumption DEF DispatchShape, TurnShape
    <3> QED BY <1>3, <1>7, <1>11, <3>1, <3>2
  <2>4. ToSet(context') \intersect ToSet(lane.queued) = {}
    BY <1>1, <1>4, <1>7, <2>2 DEF ContextInv
  <2>5. \A j \in ToSet(lane.active.steered) : lane.state[j] = "consumed" => j \in ToSet(context')
    BY <1>1, <1>4, <1>7 DEF ContextInv
  <2> QED BY <1>2, <1>4, <2>1, <2>3, <2>4, <2>5 DEF ContextInv
<1>16. SaveInv(lane)'
  BY <1>1, <1>2 DEF SaveInv
<1> QED BY <1>1, <1>2, <1>8, <1>9, <1>10, <1>12, <1>13, <1>14, <1>15, <1>16 DEF Inv, Env
-----------------------------------------------------------------------------
\* A retaining provider's last events name the messages it keeps, in their order.
LEMMA ClosingIs ==
  ASSUME NEW kept \in Seq(Message)
  PROVE  /\ Closing(kept) \in Seq(Event) /\ Len(Closing(kept)) = Len(kept) + 1
         /\ Closing(kept)[Len(kept) + 1] = Terminal
         /\ \A k \in 1..Len(kept) : Closing(kept)[k] = Status("queued", kept[k].id)
<1> DEFINE s == [k \in 1..Len(kept) |-> Status("queued", kept[k].id)]
<1>1. \A k \in 1..Len(kept) : kept[k].id \in Inputs
  <2>1. \A k \in 1..Len(kept) : kept[k] \in Message
    BY ElementOfSeq
  <2> QED BY <2>1 DEF Message
<1>2. s \in Seq(Event) /\ Len(s) = Len(kept) /\ Len(kept) \in Nat
  BY <1>1 DEF Event
<1>3. Terminal \in Event /\ Closing(kept) = s \o <<Terminal>>
  BY DEF Event, Closing, Terminal
<1> HIDE DEF s
<1>4. /\ <<Terminal>> \in Seq(Event) /\ Len(<<Terminal>>) = 1 /\ <<Terminal>>[1] = Terminal
  BY <1>3
<1>5. /\ s \o <<Terminal>> \in Seq(Event) /\ Len(s \o <<Terminal>>) = Len(s) + 1
      /\ \A a \in 1..Len(s) : (s \o <<Terminal>>)[a] = s[a]
      /\ (s \o <<Terminal>>)[Len(s) + 1] = Terminal
  BY <1>2, <1>4, JoinIs
<1>6. \A k \in 1..Len(kept) : s[k] = Status("queued", kept[k].id)
  BY DEF s
<1> QED BY <1>2, <1>3, <1>5, <1>6

\* What a native turn that completes leaves at the provider: at most the one
\* message steered in last, and after its events the turn's result.
Completes(kept) ==
  /\ kept \in Seq(Message) /\ Len(kept) \in {0, 1} /\ (kept = inbox \/ kept = <<>>)
  /\ inbox' = kept /\ retained' = {kept[k].id : k \in 1..Len(kept)}
  /\ stream' = stream \o Closing(kept) /\ open' = FALSE
  /\ \A k, l \in 1..Len(kept) : k = l
  /\ \A k \in 1..Len(kept) :
       /\ k \in 1..Len(inbox) /\ kept[k] = inbox[k] /\ kept[k].id \in Ids
       /\ kept[k].id = lane.active.last /\ kept[k].parts = <<kept[k].id>>
       /\ lane.active.pending = kept[k].id \/ lane.active.sealed
       /\ kept[k].id \notin ToSet(context) /\ kept[k].id \notin ToSet(lane.queued)
       /\ kept[k].id \in Inputs
       /\ lane.dispatch[kept[k].id] \notin {"saving", "steering"}

\* The events it ends the stream with.
Ends(kept) ==
  /\ stream \in Seq(Event) /\ Len(stream) \in Nat /\ stream' \in Seq(Event)
  /\ Len(stream') = Len(stream) + Len(kept) + 1
  /\ \A a \in 1..Len(stream) : stream'[a] = stream[a]
  /\ \A k \in 1..Len(kept) : stream'[Len(stream) + k] = Status("queued", kept[k].id)
  /\ stream'[Len(stream) + Len(kept) + 1] = Terminal
  /\ ToSet(stream') = ToSet(stream) \union ToSet(Closing(kept))

\* Whatever the provider, its native turn completes that way.
LEMMA CompletesIs ==
  ASSUME Inv, ProviderCompletes
  PROVE  \E kept : Completes(kept) /\ Ends(kept)
<1>0. PICK kept : kept = IF Retains THEN inbox ELSE <<>>
  OBVIOUS
<1>1. /\ Shape(lane) /\ EnvType /\ NativeInv(lane) /\ KnownInv(lane) /\ EventInv(lane)
      /\ InboxInv(lane) /\ RetainedInv(lane) /\ ContextInv(lane) /\ SaveInv(lane)
      /\ TurnShape(lane) /\ QueueShape(lane) /\ DispatchShape(lane)
  BY DEF Inv, Env, Shape
<1>2. /\ open /\ open' = FALSE /\ HasTurn(lane)
      /\ \A k \in 1..Len(inbox) : inbox[k].id # First(lane)
      /\ inbox' = kept /\ retained' = {kept[k].id : k \in 1..Len(kept)}
      /\ stream' = stream \o Closing(kept)
      /\ lane' = lane /\ loop' = loop /\ context' = context
  BY <1>0 DEF ProviderCompletes
<1>3. kept \in Seq(Message) /\ Len(kept) \in Nat /\ (kept = inbox \/ kept = <<>>)
  BY <1>0, <1>1 DEF EnvType
<1>4. InNative(lane) /\ ~lane.closed /\ ~InEarly(lane)
  BY <1>1, <1>2 DEF NativeInv, InNative, InEarly, Native, Early
<1>5. /\ \A k \in 1..Len(kept) :
           /\ k \in 1..Len(inbox) /\ kept[k] = inbox[k] /\ kept[k].id \in Ids
           /\ kept[k].id = lane.active.last /\ kept[k].parts = <<kept[k].id>>
           /\ lane.active.pending = kept[k].id \/ lane.active.sealed
           /\ kept[k].id \notin ToSet(context) /\ kept[k].id \notin ToSet(lane.queued)
           /\ kept[k].id \in Inputs
           /\ lane.dispatch[kept[k].id] \notin {"saving", "steering"}
  <2> SUFFICES ASSUME NEW k \in 1..Len(inbox)
        PROVE  /\ inbox[k].id \in Ids
               /\ inbox[k].id = lane.active.last /\ inbox[k].parts = <<inbox[k].id>>
               /\ lane.active.pending = inbox[k].id \/ lane.active.sealed
               /\ inbox[k].id \notin ToSet(context) /\ inbox[k].id \notin ToSet(lane.queued)
               /\ inbox[k].id \in Inputs
               /\ lane.dispatch[inbox[k].id] \notin {"saving", "steering"}
    <3>1. kept = <<>> => 1..Len(kept) = {}
      OBVIOUS
    <3> QED BY <1>3, <3>1
  <2>1. inbox[k].id \in Ids /\ inbox[k].id # First(lane)
    BY <1>2 DEF Ids
  <2>2. inbox[k].id \in Inputs
    BY <1>1, EnvIs
  <2>3. inbox[k].id \in ToSet(lane.active.steered)
    <3>1. \/ inbox[k].id = First(lane)
          \/ inbox[k].id \in ToSet(lane.active.steered)
          \/ \E m \in 1..Len(inbox) : inbox[m].id = First(lane)
      BY <1>1, <1>2 DEF InboxInv
    <3> QED BY <1>2, <3>1
  <2>4. inbox[k].id = lane.active.last /\ (lane.active.pending = inbox[k].id \/ lane.active.sealed)
    BY <1>1, <1>2, <2>1, <2>3 DEF InboxInv
  <2>5. inbox[k].parts = <<inbox[k].id>> /\ inbox[k].id \notin ToSet(context)
    BY <1>1, <2>1 DEF InboxInv
  <2>6. inbox[k].id \notin ToSet(lane.queued)
    BY <1>1, <1>2, <2>1 DEF InboxInv
  <2>7. lane.dispatch[inbox[k].id] \notin {"saving", "steering"}
    BY <1>1, <1>4, <2>1, <2>2 DEF ContextInv
  <2> QED BY <2>1, <2>2, <2>4, <2>5, <2>6, <2>7
<1>6. Len(kept) \in {0, 1} /\ \A k, l \in 1..Len(kept) : k = l
  <2>1. ASSUME NEW k \in 1..Len(kept), NEW l \in 1..Len(kept) PROVE k = l
    <3>1. /\ k \in 1..Len(inbox) /\ l \in 1..Len(inbox) /\ inbox[k].id = inbox[l].id
          /\ inbox[k].id \in Parts(k) /\ inbox[l].id \in Parts(l)
      BY <1>1, <1>5 DEF InboxInv
    <3>2. k # l => Parts(k) \intersect Parts(l) = {}
      BY <1>1, <3>1 DEF InboxInv
    <3> QED BY <3>1, <3>2
  <2>2. Len(kept) > 1 => 1 \in 1..Len(kept) /\ 2 \in 1..Len(kept)
    BY <1>3
  <2>3. 1 \in 1..Len(kept) /\ 2 \in 1..Len(kept) => 1 = 2
    BY <2>1
  <2> DEFINE n == Len(kept)
  <2> HIDE DEF n
  <2>4. n \in Nat /\ n <= 1
    <3>1. n \in Nat /\ ~(n > 1)
      BY <1>3, <2>2, <2>3 DEF n
    <3> QED BY <3>1
  <2>5. n \in {0, 1}
    BY <2>4
  <2> QED BY <2>1, <2>5 DEF n
<1>7. /\ stream \in Seq(Event) /\ Len(stream) \in Nat /\ stream' \in Seq(Event)
      /\ Len(stream') = Len(stream) + Len(kept) + 1
      /\ \A a \in 1..Len(stream) : stream'[a] = stream[a]
      /\ \A k \in 1..Len(kept) : stream'[Len(stream) + k] = Status("queued", kept[k].id)
      /\ stream'[Len(stream) + Len(kept) + 1] = Terminal
      /\ ToSet(stream') = ToSet(stream) \union ToSet(Closing(kept))
  <2>1. stream \in Seq(Event)
    BY <1>1 DEF EnvType
  <2>2. /\ Closing(kept) \in Seq(Event) /\ Len(Closing(kept)) = Len(kept) + 1
        /\ Closing(kept)[Len(kept) + 1] = Terminal
        /\ \A k \in 1..Len(kept) : Closing(kept)[k] = Status("queued", kept[k].id)
    BY <1>3, ClosingIs
  <2>3. /\ stream' \in Seq(Event) /\ ToSet(stream') = ToSet(stream) \union ToSet(Closing(kept))
        /\ Len(stream') = Len(stream) + Len(Closing(kept)) /\ Len(stream) \in Nat
        /\ \A a \in 1..Len(stream) : stream'[a] = stream[a]
        /\ \A a \in 1..Len(Closing(kept)) : stream'[Len(stream) + a] = Closing(kept)[a]
    <3> DEFINE c == Closing(kept)
    <3>1. c \in Seq(Event)
      BY <2>2
    <3> HIDE DEF c
    <3>2. /\ stream \o c \in Seq(Event) /\ ToSet(stream \o c) = ToSet(stream) \union ToSet(c)
          /\ Len(stream \o c) = Len(stream) + Len(c) /\ Len(stream) \in Nat
          /\ \A a \in 1..Len(stream) : (stream \o c)[a] = stream[a]
          /\ \A a \in 1..Len(c) : (stream \o c)[Len(stream) + a] = c[a]
      BY <2>1, <3>1, JoinIs
    <3>3. stream' = stream \o c
      BY <1>2 DEF c
    <3> QED BY <3>2, <3>3 DEF c
  <2>4. /\ Len(kept) + 1 \in 1..Len(Closing(kept))
        /\ \A k \in 1..Len(kept) : k \in 1..Len(Closing(kept))
    BY <1>3, <2>2
  <2>5. Len(stream') = Len(stream) + Len(kept) + 1
    BY <1>3, <2>2, <2>3
  <2>6. stream'[Len(stream) + (Len(kept) + 1)] = Terminal
    BY <2>2, <2>3, <2>4
  <2>7. Len(stream) + (Len(kept) + 1) = Len(stream) + Len(kept) + 1
    BY <1>3, <2>3
  <2> QED BY <2>1, <2>2, <2>3, <2>4, <2>5, <2>6, <2>7
<1> WITNESS kept
<1> QED BY <1>2, <1>3, <1>5, <1>6, <1>7 DEF Completes, Ends

\* The native turn completes.
LEMMA ProviderCompletesStep ==
  ASSUME Inv, ProviderCompletes
  PROVE  Inv'
<1>0. PICK kept : Completes(kept) /\ Ends(kept)
  BY CompletesIs
<1>1. /\ Shape(lane) /\ EnvType /\ NativeInv(lane) /\ KnownInv(lane) /\ EventInv(lane)
      /\ InboxInv(lane) /\ RetainedInv(lane) /\ ContextInv(lane) /\ SaveInv(lane)
      /\ TurnShape(lane) /\ QueueShape(lane) /\ DispatchShape(lane)
  BY DEF Inv, Env, Shape
<1>2. /\ open /\ open' = FALSE /\ HasTurn(lane)
      /\ inbox' = kept /\ retained' = {kept[k].id : k \in 1..Len(kept)}
      /\ stream' = stream \o Closing(kept)
      /\ lane' = lane /\ loop' = loop /\ context' = context
  BY <1>0 DEF ProviderCompletes, Completes
<1>3. kept \in Seq(Message) /\ Len(kept) \in Nat /\ (kept = inbox \/ kept = <<>>)
  BY <1>0 DEF Completes
<1>4. InNative(lane) /\ ~lane.closed /\ ~InEarly(lane)
  BY <1>1, <1>2 DEF NativeInv, InNative, InEarly, Native, Early
<1>5. /\ \A k \in 1..Len(kept) :
           /\ k \in 1..Len(inbox) /\ kept[k] = inbox[k] /\ kept[k].id \in Ids
           /\ kept[k].id = lane.active.last /\ kept[k].parts = <<kept[k].id>>
           /\ lane.active.pending = kept[k].id \/ lane.active.sealed
           /\ kept[k].id \notin ToSet(context) /\ kept[k].id \notin ToSet(lane.queued)
           /\ kept[k].id \in Inputs
           /\ lane.dispatch[kept[k].id] \notin {"saving", "steering"}
  BY <1>0 DEF Completes
<1>6. Len(kept) \in {0, 1} /\ \A k, l \in 1..Len(kept) : k = l
  BY <1>0 DEF Completes
<1>7. /\ stream \in Seq(Event) /\ Len(stream) \in Nat /\ stream' \in Seq(Event)
      /\ Len(stream') = Len(stream) + Len(kept) + 1
      /\ \A a \in 1..Len(stream) : stream'[a] = stream[a]
      /\ \A k \in 1..Len(kept) : stream'[Len(stream) + k] = Status("queued", kept[k].id)
      /\ stream'[Len(stream) + Len(kept) + 1] = Terminal
      /\ ToSet(stream') = ToSet(stream) \union ToSet(Closing(kept))
  BY <1>0 DEF Ends
<1>8. /\ \A j : Status("consumed", j) # Terminal /\ Status("queued", j) # Terminal
      /\ \A j, l : Status("consumed", j) # Status("queued", l)
      /\ \A j, l : Status("queued", j) = Status("queued", l) => j = l
  BY DEF Terminal, Status
<1>9. \A j \in Inputs : ~InFlight("queued", j)
  BY <1>1, <1>2, <1>4 DEF EventInv
<1>10. /\ \A j : Status("queued", j) \in ToSet(Closing(kept)) <=>
                   \E k \in 1..Len(kept) : j = kept[k].id
       /\ \A j : Status("consumed", j) \notin ToSet(Closing(kept))
  <2>1. /\ Closing(kept) \in Seq(Event) /\ Len(Closing(kept)) = Len(kept) + 1
        /\ Closing(kept)[Len(kept) + 1] = Terminal
        /\ \A k \in 1..Len(kept) : Closing(kept)[k] = Status("queued", kept[k].id)
    BY <1>3, ClosingIs
  <2>2. \A e : e \in ToSet(Closing(kept)) <=> \E a \in 1..Len(Closing(kept)) : Closing(kept)[a] = e
    BY <2>1, InSet
  <2>3. \A a \in 1..Len(Closing(kept)) : a \in 1..Len(kept) \/ a = Len(kept) + 1
    BY <1>3, <2>1
  <2>4. \A k \in 1..Len(kept) : k \in 1..Len(Closing(kept))
    BY <1>3, <2>1
  <2>5. \A e : e \in ToSet(Closing(kept)) <=>
                 e = Terminal \/ \E k \in 1..Len(kept) : e = Status("queued", kept[k].id)
    <3>1. Len(kept) + 1 \in 1..Len(Closing(kept))
      BY <1>3, <2>1
    <3> QED BY <2>1, <2>2, <2>3, <2>4, <3>1
  <2> QED BY <1>8, <2>5
<1>11. /\ \A j : InFlight("consumed", j)' <=> InFlight("consumed", j)
       /\ \A j \in Inputs : InFlight("queued", j)' <=> \E k \in 1..Len(kept) : j = kept[k].id
  BY <1>2, <1>7, <1>9, <1>10 DEF InFlight
<1>12. EnvType'
  <2>1. retained' \subseteq Inputs
    BY <1>2, <1>5
  <2>2. inbox' \in Seq(Message)
    BY <1>2, <1>3
  <2>3. loop' \in Loops /\ context' \in Seq(Inputs) /\ open' \in BOOLEAN
    BY <1>1, <1>2 DEF EnvType
  <2> QED BY <1>7, <2>1, <2>2, <2>3 DEF EnvType
<1>13. NativeInv(lane)'
  <2>1. \A k \in 1..Len(stream) : stream[k] # Terminal
    BY <1>1, <1>2 DEF NativeInv
  <2>2. ASSUME NEW k \in 1..Len(stream'), stream'[k] = Terminal PROVE k = Len(stream')
    <3>1. CASE k \in 1..Len(stream)
      BY <1>7, <2>1, <2>2, <3>1
    <3>2. CASE k \notin 1..Len(stream) /\ k # Len(stream')
      <4>1. k - Len(stream) \in 1..Len(kept) /\ k = Len(stream) + (k - Len(stream))
        BY <1>3, <1>7, <3>2
      <4>2. stream'[k] = Status("queued", kept[k - Len(stream)].id)
        BY <1>7, <4>1
      <4> QED BY <1>8, <2>2, <4>2
    <3> QED BY <3>1, <3>2
  <2>3. loop.pc # "sealing"
    BY <1>1, <1>2 DEF NativeInv
  <2> QED BY <1>1, <1>2, <1>4, <2>2, <2>3 DEF NativeInv
<1>14. KnownInv(lane)'
  <2>1. \A k \in 1..Len(kept) : \A j \in ToSet(kept[k].parts) : lane.state[j] # "new"
    BY <1>1, <1>5 DEF KnownInv, Parts
  <2>2. \A k \in 1..Len(kept) : kept[k].id \in ToSet(kept[k].parts)
    BY <1>1, <1>5 DEF InboxInv, Parts
  <2> QED BY <1>1, <1>2, <2>1, <2>2 DEF KnownInv, Parts
<1>15. EventInv(lane)'
  <2> SUFFICES ASSUME NEW j \in Inputs PROVE (EventInv(lane)!(j))'
    BY DEF EventInv
  <2>1. InFlight("consumed", j)' => j \in ToSet(context')
    BY <1>1, <1>2, <1>11 DEF EventInv
  <2>2. InFlight("queued", j)' =>
           /\ j = lane.active.last /\ (lane.active.pending = j \/ lane.active.sealed)
           /\ j \notin ToSet(context) /\ j \notin ToSet(lane.queued)
           /\ lane.dispatch[j] \notin {"saving", "steering"}
    BY <1>5, <1>11
  <2>3. loop.pc = "observing" =>
         /\ loop.event = Status("consumed", j) => lane.state[j] = "consumed"
         /\ loop.event # Status("queued", j)
    BY <1>1, <1>4, <1>9 DEF EventInv, InFlight
  <2> QED BY <1>2, <2>1, <2>2, <2>3
<1>16. Ids' = retained' /\ Ids' \subseteq Ids
  BY <1>2, <1>5 DEF Ids
<1>17. InboxInv(lane)'
  <2>1. \A k \in 1..Len(kept) :
          /\ kept[k].id \in ToSet(kept[k].parts) /\ Distinct(kept[k].parts)
          /\ ToSet(kept[k].parts) \intersect ToSet(context) = {}
          /\ kept[k].parts = <<kept[k].id>>
    BY <1>1, <1>5 DEF InboxInv, Parts
  <2>2. Distinct(context) /\ \A j \in Ids' \intersect ToSet(lane.active.steered) :
          j = lane.active.last /\ (lane.active.pending = j \/ lane.active.sealed)
    BY <1>1, <1>2, <1>16 DEF InboxInv
  <2>3. kept # <<>> => Len(kept) = 1 /\ kept[1].id \in retained'
    <3>1. kept # <<>> => Len(kept) = 1
      BY <1>3, <1>6
    <3> QED BY <1>2, <3>1
  <2> QED BY <1>2, <1>6, <2>1, <2>2, <2>3 DEF InboxInv, Parts
<1>18. RetainedInv(lane)'
  <2>1. \A j \in Ids' : j = lane.active.last /\ InFlight("queued", j)'
    BY <1>2, <1>5, <1>11 DEF Ids
  <2> QED BY <1>2, <1>4, <1>16, <2>1 DEF RetainedInv, InEarly, InNative, Native, Early
<1>19. ContextInv(lane)'
  <2>1. InFlight("consumed", First(lane))' <=> InFlight("consumed", First(lane))
    <3>1. First(lane') = First(lane)
      BY <1>2
    <3> QED BY <1>2, <1>7, <1>10, <3>1 DEF InFlight
  <2>2. \A j \in ToSet(context) \intersect Live(lane) :
         \/ lane.state[j] = "consumed" \/ InFlight("consumed", j)'
         \/ HasTurn(lane) /\ j \in ToSet(lane.active.prompted) /\ InFlight("consumed", First(lane))'
    BY <1>1, <1>4, <1>11, <2>1 DEF ContextInv
  <2>3. \A j \in Inputs : lane.dispatch[j] \in {"saving", "steering"} =>
         j \notin ToSet(context) \union Ids'
    BY <1>1, <1>4, <1>16 DEF ContextInv
  <2> QED BY <1>1, <1>2, <1>4, <2>2, <2>3 DEF ContextInv
<1>20. SaveInv(lane)'
  BY <1>1, <1>2 DEF SaveInv
<1> QED BY <1>1, <1>2, <1>12, <1>13, <1>14, <1>15, <1>17, <1>18, <1>19, <1>20 DEF Inv, Env
-----------------------------------------------------------------------------
\* An event passes from the stream to the loop: what holds for a lane holds
\* on, when the event in the loop's hands has its status.
LEMMA EventMoves ==
  ASSUME Shape(lane'), EnvType, Env(lane'), EnvType', NativeInv(lane)',
         \A k, i : InFlight(k, i)' <=> InFlight(k, i),
         \A i \in Inputs : loop'.pc = "observing" =>
           /\ loop'.event = Status("consumed", i) => lane'.state[i] = "consumed"
           /\ loop'.event = Status("queued", i) => lane'.state[i] \in {"queued", "unknown"},
         UNCHANGED <<inbox, context, retained, open>>
  PROVE  Inv'
<1>1. Shape(lane)'
  OBVIOUS
<1>2. KnownInv(lane)'
  BY DEF Env, KnownInv, Parts
<1>3. EventInv(lane)'
  <2> SUFFICES ASSUME NEW i \in Inputs PROVE (EventInv(lane)!(i))'
    BY DEF EventInv
  <2>1. /\ InFlight("consumed", i) => i \in ToSet(context)
        /\ InFlight("queued", i) =>
             /\ i = lane'.active.last /\ (lane'.active.pending = i \/ lane'.active.sealed)
             /\ ~lane'.closed => /\ ~open /\ i \notin ToSet(context) /\ i \notin ToSet(lane'.queued)
                                 /\ lane'.dispatch[i] \notin {"saving", "steering"}
    BY DEF Env, EventInv
  <2>2. (InFlight("consumed", i)' <=> InFlight("consumed", i))
        /\ (InFlight("queued", i)' <=> InFlight("queued", i))
    OBVIOUS
  <2>3. loop'.pc = "observing" =>
          /\ loop'.event = Status("consumed", i) => lane'.state[i] = "consumed"
          /\ loop'.event = Status("queued", i) => lane'.state[i] \in {"queued", "unknown"}
    OBVIOUS
  <2>4. open' = open /\ context' = context
    OBVIOUS
  <2> QED BY <2>1, <2>2, <2>3, <2>4
<1>4. InboxInv(lane)'
  <2>1. InboxInv(lane')
    BY DEF Env
  <2>2. inbox' = inbox /\ context' = context /\ retained' = retained /\ open' = open
    OBVIOUS
  <2>3. Ids' = Ids /\ \A k : Parts(k)' = Parts(k)
    BY <2>2 DEF Ids, Parts
  <2> QED BY <2>1, <2>2, <2>3 DEF InboxInv
<1>5. RetainedInv(lane)'
  BY DEF Env, RetainedInv, Ids
<1>6. ContextInv(lane)' /\ SaveInv(lane)'
  BY DEF Env, ContextInv, SaveInv, Ids
<1> QED BY <1>1, <1>2, <1>3, <1>4, <1>5, <1>6 DEF Inv, Env

\* The loop takes the terminal: the turn is sealed.
LEMMA TakeTerminal ==
  ASSUME Inv, TakeEvent, Head(stream).kind = "terminal"
  PROVE  Inv'
<1> DEFINE t == [lane.active EXCEPT !.sealed = TRUE]
<1>1. /\ Shape(lane) /\ EnvType /\ Env(lane) /\ NativeInv(lane)
      /\ TurnShape(lane) /\ QueueShape(lane)
  BY DEF Inv, Env, Shape
<1>2. /\ loop = Idle /\ stream # <<>> /\ HasTurn(lane) /\ lane' = [lane EXCEPT !.active = t]
      /\ loop' = [pc |-> "sealing", turn |-> lane.active.id] /\ stream' = Tail(stream)
      /\ inbox' = inbox /\ context' = context /\ retained' = retained /\ open' = open
  BY DEF TakeEvent, Current
<1>3. /\ InNative(lane) /\ ~lane.closed /\ stream \in Seq(Event) /\ Len(stream) \in Nat
  BY <1>1, <1>2 DEF NativeInv, EnvType
<1>4. stream = <<Terminal>> /\ ~open /\ stream' = <<>>
  <2>1. Len(stream) >= 1 /\ Head(stream) = stream[1] /\ 1 \in 1..Len(stream)
    BY <1>2, <1>3
  <2>2. stream[1] \in Event
    BY <1>3, <2>1, ElementOfSeq
  <2>3. stream[1] = Terminal
    BY <2>1, <2>2 DEF Event, Terminal, Status
  <2>4. Len(stream) = 1 /\ ~open
    BY <1>1, <2>1, <2>3 DEF NativeInv
  <2> QED BY <1>2, <1>3, <2>3, <2>4
<1>5. lane \in Lane /\ lane.active \in Turn
  BY <1>1, <1>2, EnvIs, LaneIs
<1>6. /\ t \in Turn /\ t.id = lane.active.id /\ t.first = lane.active.first
      /\ t.prompted = lane.active.prompted /\ t.steered = lane.active.steered
      /\ t.pending = lane.active.pending /\ t.last = lane.active.last /\ t.sealed
      /\ t.ready = lane.active.ready /\ t.stage = lane.active.stage
      /\ t.superseded = lane.active.superseded /\ t.interrupted = lane.active.interrupted
      /\ t.stopped = lane.active.stopped
  BY <1>5 DEF Turn
<1> HIDE DEF t
<1>7. Marked(lane, t)
  BY <1>1, <1>2, <1>3, <1>6 DEF Marked, TurnShape, QueueShape
<1>8. Turned(lane, t, lane')
  BY <1>2, <1>5, <1>6, TurnedIs
<1>9. Shape(lane') /\ Kept(lane, lane')
  BY <1>1, <1>2, <1>7, <1>8, MarkedKeeps
<1>10. /\ HasTurn(lane') /\ lane'.active = t /\ lane'.closed = lane.closed
  BY <1>8 DEF Turned
<1>11. InNative(lane') /\ KeptInterrupt(lane, lane')
  BY <1>3, <1>6, <1>10 DEF InNative, KeptInterrupt, Native, Early
<1>12. Env(lane')
  BY <1>1, <1>9, <1>11, KeepEnv
<1>13. EnvType'
  BY <1>1, <1>2, <1>4, <1>6, EnvIs, NoneIs DEF EnvType, Loops
<1>14. NativeInv(lane)'
  BY <1>2, <1>3, <1>4, <1>6, <1>10, <1>11 DEF NativeInv, Idle
<1>15. \A k, i : ~InFlight(k, i) /\ ~InFlight(k, i)'
  <2>1. \A k, i : Status(k, i) # Terminal
    BY DEF Status, Terminal
  <2>2. ToSet(stream) = {Terminal} /\ ToSet(stream') = {}
    BY <1>4, NoneIs, OneIs DEF Event
  <2>3. loop.pc # "observing" /\ loop'.pc # "observing"
    BY <1>2 DEF Idle
  <2> QED BY <2>1, <2>2, <2>3 DEF InFlight
<1> QED BY <1>1, <1>2, <1>9, <1>12, <1>13, <1>14, <1>15, EventMoves

\* The loop takes a status: it is set at once.
LEMMA TakeStatus ==
  ASSUME Inv, TakeEvent, Head(stream).kind # "terminal"
  PROVE  Inv'
<1>1. /\ Shape(lane) /\ EnvType /\ Env(lane) /\ NativeInv(lane) /\ EventInv(lane)
      /\ TurnShape(lane) /\ QueueShape(lane) /\ DispatchShape(lane) /\ StatusShape(lane)
      /\ ContextInv(lane) /\ SaveInv(lane)
  BY DEF Inv, Env, Shape
<1>2. PICK ev : ev = Head(stream)
  OBVIOUS
<1>3. /\ loop = Idle /\ stream # <<>> /\ HasTurn(lane)
      /\ lane' = Update(lane, {ev.input}, ev.kind)
      /\ loop' = [pc |-> "observing", turn |-> lane.active.id, event |-> ev]
      /\ stream' = Tail(stream)
      /\ inbox' = inbox /\ context' = context /\ retained' = retained /\ open' = open
  BY <1>2 DEF TakeEvent, Current
<1>4. /\ InNative(lane) /\ ~lane.closed /\ stream \in Seq(Event) /\ Len(stream) \in Nat
  BY <1>1, <1>3 DEF NativeInv, EnvType
<1>5. /\ ev \in Event /\ ToSet(stream) = {ev} \union ToSet(stream') /\ stream' \in Seq(Event)
      /\ Len(stream') = Len(stream) - 1 /\ \A k \in 1..Len(stream') : stream'[k] = stream[k + 1]
  <2> DEFINE r == Tail(stream)
  <2>1. /\ Head(stream) \in Event /\ ToSet(stream) = {Head(stream)} \union ToSet(r)
        /\ r \in Seq(Event) /\ Len(r) = Len(stream) - 1
        /\ \A k \in 1..Len(r) : r[k] = stream[k + 1]
    <3> DEFINE s == stream
    <3>1. s \in Seq(Event) /\ s # <<>>
      BY <1>3, <1>4
    <3> HIDE DEF s
    <3>2. /\ Head(s) \in Event /\ ToSet(s) = {Head(s)} \union ToSet(Tail(s))
          /\ Tail(s) \in Seq(Event) /\ Len(Tail(s)) = Len(s) - 1
      BY <3>1, TailIs
    <3>3. \A a \in 1..Len(Tail(s)) : Tail(s)[a] = s[a + 1]
      BY <3>1
    <3> QED BY <3>2, <3>3 DEF s
  <2>2. stream' = r
    BY <1>3
  <2> HIDE DEF r
  <2> QED BY <1>2, <2>1, <2>2
<1>6. PICK kind \in {"consumed", "queued"}, i \in Inputs : ev = Status(kind, i)
  BY <1>2, <1>5 DEF Event, Terminal
<1>7. /\ ev # Terminal /\ ev.kind = kind /\ ev.input = i
      /\ \A k, j : ev = Status(k, j) => k = kind /\ j = i
  BY <1>6 DEF Status, Terminal
<1>8. InFlight(kind, i) /\ i \in Inputs
  BY <1>5, <1>6 DEF InFlight
<1>9. \A k, j : InFlight(k, j)' <=> InFlight(k, j)
  <2>1. loop.pc # "observing" /\ loop'.pc = "observing" /\ loop'.event = ev
    BY <1>3 DEF Idle
  <2> QED BY <1>5, <2>1 DEF InFlight
<1>10. Updated(lane, {i}, kind, lane')
  <2>1. lane \in Lane /\ kind \in States /\ {i} \in SUBSET Inputs
    BY <1>1, <1>6, EnvIs DEF States, Settled
  <2> QED BY <1>3, <1>7, <2>1, UpdateIs
<1>11. /\ lane' \in Lane /\ lane'.active = lane.active /\ lane'.queued = lane.queued
       /\ lane'.carried = lane.carried /\ lane'.closed = lane.closed /\ lane'.turns = lane.turns
       /\ lane'.dispatch = lane.dispatch /\ lane'.owner = lane.owner
       /\ \A j \in Inputs : lane'.state[j] = IF j = i THEN kind ELSE lane.state[j]
       /\ \A j : j \in lane.durable /\ j # i => j \in lane'.durable
       /\ kind = "consumed" => lane'.durable = lane.durable
  BY <1>6, <1>10 DEF Updated
<1>12. /\ HasTurn(lane') /\ First(lane') = First(lane) /\ Live(lane') = Live(lane)
       /\ Bound(lane') = Bound(lane)
       /\ InNative(lane') /\ ~InEarly(lane')
       /\ lane.active.stage \notin Early /\ lane.active.stage \in Native
  BY <1>3, <1>4, <1>11 DEF HasTurn, First, Live, Ridden, InNative, InEarly, Native, Early, Bound
<1>13. kind = "consumed" =>
         /\ i \in ToSet(context) /\ i \notin ToSet(lane.queued)
         /\ lane.dispatch[i] \notin {"saving", "steering"}
  BY <1>1, <1>4, <1>6, <1>8 DEF EventInv, ContextInv
<1>14. kind = "queued" =>
         /\ i = lane.active.last /\ i \notin ToSet(context) /\ i \notin ToSet(lane.queued)
         /\ lane.dispatch[i] \notin {"saving", "steering"}
         /\ lane.state[i] # "consumed"
  <2> SUFFICES ASSUME kind = "queued"
               PROVE  /\ i = lane.active.last /\ i \notin ToSet(context)
                      /\ i \notin ToSet(lane.queued)
                      /\ lane.dispatch[i] \notin {"saving", "steering"}
                      /\ lane.state[i] # "consumed"
    OBVIOUS
  <2>1. /\ i = lane.active.last /\ i \notin ToSet(context) /\ i \notin ToSet(lane.queued)
        /\ lane.dispatch[i] \notin {"saving", "steering"}
    BY <1>1, <1>4, <1>8 DEF EventInv
  <2>2. i \in ToSet(lane.active.steered)
    BY <1>1, <1>3, <1>6, <2>1, LaneAssumption DEF TurnShape
  <2> QED BY <1>1, <1>3, <1>4, <2>1, <2>2 DEF ContextInv
<1>15. TurnShape(lane') /\ QueueShape(lane')
  <2>0. /\ lane'.active = lane.active /\ lane'.queued = lane.queued
        /\ lane'.carried = lane.carried /\ lane'.closed = lane.closed /\ lane'.turns = lane.turns
        /\ lane'.owner = lane.owner /\ First(lane') = First(lane)
        /\ HasTurn(lane) /\ HasTurn(lane')
    BY <1>3, <1>11, <1>12
  <2>1. TurnShape(lane')
    BY <1>1, <2>0 DEF TurnShape
  <2>2. \A j \in Live(lane') : lane'.state[j] # "new"
    BY <1>1, <1>6, <1>11, <1>12, EnvIs DEF QueueShape
  <2> QED BY <1>1, <2>0, <2>1, <2>2 DEF QueueShape
<1>16. DispatchShape(lane')
  <2> SUFFICES ASSUME NEW j \in Inputs PROVE DispatchShape(lane')!(j)
    BY DEF DispatchShape
  <2>1. CASE j # i
    <3>1. lane'.state[j] = lane.state[j]
      BY <1>11, <2>1
    <3> QED BY <1>1, <1>11, <1>12, <3>1 DEF DispatchShape, HasTurn
  <2>2. CASE j = i
    <3>1. lane'.state[j] = kind /\ lane'.dispatch[j] = lane.dispatch[j]
          /\ lane'.owner[j] = lane.owner[j] /\ lane.dispatch[j] \notin {"saving", "steering"}
      BY <1>6, <1>11, <1>13, <1>14, <2>2
    <3>2. kind = "queued" => lane.state[j] # "consumed"
      BY <1>14, <2>2
    <3> QED BY <1>1, <1>3, <1>4, <1>6, <1>11, <1>12, <3>1, <3>2 DEF DispatchShape
  <2> QED BY <2>1, <2>2
<1>17. StatusShape(lane')
  <2>1. \A j \in ToSet(lane'.queued) : lane'.state[j] \in {"queued", "unknown"}
    BY <1>1, <1>4, <1>6, <1>11, <1>13, EnvIs DEF StatusShape
  <2> QED BY <1>11, <1>12, <2>1 DEF StatusShape, Early
<1>18. Shape(lane')
  BY <1>11, <1>15, <1>16, <1>17 DEF Shape
<1>19. Kept(lane, lane')
  <2>1. KeptTurn(lane, lane')
    BY <1>11, <1>12 DEF KeptTurn, Early
  <2>2. ASSUME NEW j \in Inputs PROVE KeptInput(lane, lane', j)
    <3>1. loop.pc # "observing"
      BY <1>3 DEF Idle
    <3>2. CASE j # i
      <4>1. lane'.state[j] = lane.state[j] /\ lane'.dispatch[j] = lane.dispatch[j]
        BY <1>11, <3>2
      <4>2. lane.dispatch[j] = "steering" => j \in lane.durable
        BY <1>1, <1>4 DEF SaveInv
      <4> QED BY <1>11, <3>1, <3>2, <4>1, <4>2 DEF KeptInput
    <3>3. CASE j = i
      BY <1>6, <1>11, <1>13, <1>14, <3>1, <3>3 DEF KeptInput
    <3> QED BY <3>2, <3>3
  <2> QED BY <1>3, <1>11, <1>12, <2>1, <2>2 DEF Kept
<1>20. KeptInterrupt(lane, lane')
  BY <1>11, <1>12 DEF KeptInterrupt
<1>21. Env(lane')
  BY <1>1, <1>18, <1>19, <1>20, KeepEnv
<1>22. EnvType'
  <2>1. lane.active.id \in Nat
    BY <1>1, <1>3, EnvIs
  <2>2. loop' \in Loops
    BY <1>3, <1>5, <1>7, <2>1 DEF Loops
  <2> QED BY <1>1, <1>3, <1>5, <2>2 DEF EnvType
<1>23. NativeInv(lane)'
  <2>1. ASSUME NEW k \in 1..Len(stream'), stream'[k] = Terminal
        PROVE  k = Len(stream') /\ ~open'
    <3>1. k + 1 \in 1..Len(stream) /\ stream[k + 1] = Terminal
      BY <1>4, <1>5, <2>1
    <3>2. k + 1 = Len(stream) /\ ~open
      BY <1>1, <3>1 DEF NativeInv
    <3>3. Len(stream') + 1 = Len(stream) /\ k \in Nat /\ Len(stream') \in Nat
      BY <1>4, <1>5
    <3> QED BY <1>3, <3>2, <3>3
  <2>2. loop'.pc = "observing" /\ loop'.turn = lane'.active.id
    BY <1>3, <1>11
  <2> QED BY <1>1, <1>3, <1>4, <1>11, <1>12, <2>1, <2>2 DEF NativeInv
<1>24. \A j \in Inputs : loop'.pc = "observing" =>
           /\ loop'.event = Status("consumed", j) => lane'.state[j] = "consumed"
           /\ loop'.event = Status("queued", j) => lane'.state[j] \in {"queued", "unknown"}
  <2>1. loop'.event = ev
    BY <1>3
  <2> SUFFICES ASSUME NEW j \in Inputs, NEW k \in {"consumed", "queued"}, ev = Status(k, j)
               PROVE  lane'.state[j] = k
    BY <2>1
  <2>2. k = kind /\ j = i
    BY <1>7
  <2> QED BY <1>11, <2>2
<1> QED BY <1>1, <1>3, <1>9, <1>18, <1>21, <1>22, <1>23, <1>24, EventMoves

\* The loop takes an event.
LEMMA TakeEventStep == ASSUME Inv, TakeEvent PROVE Inv'
BY TakeTerminal, TakeStatus
-----------------------------------------------------------------------------
\* What the loop holds is one of the provider's statuses, and its turn runs.
LEMMA ObservingIs ==
  ASSUME NEW L, EnvType, NativeInv(L), loop.pc = "observing"
  PROVE  /\ InNative(L) /\ HasTurn(L) /\ loop.turn = L.active.id /\ loop # Idle
         /\ \E kind \in {"consumed", "queued"}, i \in Inputs :
              /\ loop.event = Status(kind, i) /\ loop.event.kind = kind /\ loop.event.input = i
              /\ InFlight(kind, i)
<1>1. loop # Idle
  BY DEF Idle
<1>2. InNative(L) /\ HasTurn(L) /\ loop.turn = L.active.id
  BY <1>1 DEF NativeInv, InNative
<1>3. loop.event \in Event \ {Terminal}
  BY DEF EnvType, Loops, Idle
<1>4. PICK kind \in {"consumed", "queued"}, i \in Inputs : loop.event = Status(kind, i)
  BY <1>3 DEF Event
<1>5. loop.event.kind = kind /\ loop.event.input = i
  BY <1>4 DEF Status
<1>6. InFlight(kind, i)
  BY <1>4 DEF InFlight
<1> QED BY <1>1, <1>2, <1>4, <1>5, <1>6

\* The loop lets go of a consumed event that the lane has taken in.
LEMMA LoopIdle ==
  ASSUME Shape(lane'), EnvType, Env(lane'), loop.pc = "observing", loop' = Idle,
         UNCHANGED providerVars, NEW i \in Inputs, loop.event = Status("consumed", i),
         ~lane'.closed =>
           /\ lane'.state[i] = "consumed"
           /\ i = First(lane') =>
                \A j \in ToSet(context) \intersect ToSet(lane'.active.prompted) :
                  lane'.state[j] = "consumed"
  PROVE  Inv'
<1>1. /\ stream' = stream /\ inbox' = inbox /\ context' = context /\ retained' = retained
      /\ open' = open
  BY DEF providerVars
<1>2. Ids' = Ids /\ \A k : Parts(k)' = Parts(k)
  BY <1>1 DEF Ids, Parts
<1>3. \A j : Status("consumed", i) # Status("queued", j)
  BY DEF Status
<1>4. /\ \A k, j : InFlight(k, j)' => InFlight(k, j)
      /\ \A j : InFlight("queued", j) => InFlight("queued", j)'
      /\ \A j : InFlight("consumed", j) => InFlight("consumed", j)' \/ j = i
  <2>1. loop'.pc # "observing"
    BY DEF Idle
  <2>2. \A j : Status("consumed", j) = Status("consumed", i) => j = i
    BY DEF Status
  <2> QED BY <1>1, <1>3, <2>1, <2>2 DEF InFlight
<1>5. /\ NativeInv(lane') /\ KnownInv(lane') /\ EventInv(lane') /\ InboxInv(lane')
      /\ RetainedInv(lane') /\ ContextInv(lane') /\ SaveInv(lane')
  BY DEF Env
<1>6. EnvType'
  BY <1>1 DEF EnvType, Loops
<1>7. NativeInv(lane)'
  BY <1>1, <1>5 DEF NativeInv, Idle
<1>8. KnownInv(lane)'
  BY <1>1, <1>2, <1>5 DEF KnownInv
<1>9. EventInv(lane)'
  <2>1. loop'.pc # "observing"
    BY DEF Idle
  <2> QED BY <1>1, <1>4, <1>5, <2>1 DEF EventInv
<1>10. InboxInv(lane)'
  BY <1>1, <1>2, <1>5 DEF InboxInv
<1>11. RetainedInv(lane)'
  BY <1>1, <1>2, <1>4, <1>5 DEF RetainedInv
<1>12. ContextInv(lane)'
  <2> SUFFICES ASSUME ~lane'.closed PROVE ContextInv(lane)'
    BY DEF ContextInv
  <2>1. ASSUME NEW j \in ToSet(context) \intersect Live(lane')
        PROVE  \/ lane'.state[j] = "consumed" \/ InFlight("consumed", j)'
               \/ /\ HasTurn(lane') /\ j \in ToSet(lane'.active.prompted)
                  /\ InFlight("consumed", First(lane))'
    <3> DEFINE f == First(lane')
    <3>1. \/ lane'.state[j] = "consumed" \/ InFlight("consumed", j)
          \/ HasTurn(lane') /\ j \in ToSet(lane'.active.prompted) /\ InFlight("consumed", f)
      BY <1>5 DEF ContextInv
    <3>2. InFlight("consumed", j) => lane'.state[j] = "consumed" \/ InFlight("consumed", j)'
      BY <1>4
    <3>3. PICK g : g = First(lane')
      OBVIOUS
    <3>4. InFlight("consumed", g) => InFlight("consumed", g)' \/ g = i
      BY <1>4
    <3>5. InFlight("consumed", g)' => InFlight("consumed", First(lane))'
      BY <3>3 DEF InFlight
    <3> QED BY <3>1, <3>2, <3>3, <3>4, <3>5
  <2> QED BY <1>1, <1>2, <1>5, <2>1 DEF ContextInv
<1>13. SaveInv(lane)'
  BY <1>5 DEF SaveInv
<1> QED BY <1>6, <1>7, <1>8, <1>9, <1>10, <1>11, <1>12, <1>13 DEF Inv, Env

\* The steer the turn waited for was read: flush() may send the next.
LEMMA ObservesPending ==
  ASSUME Inv, loop.pc = "observing", NEW i \in Inputs, loop.event = Status("consumed", i),
         lane.active.pending = i,
         NEW t, t = [lane.active EXCEPT !.pending = NoInput],
         lane' = Flush([lane EXCEPT !.active = t]), loop' = Idle, UNCHANGED providerVars
  PROVE  Inv'
<1>1. /\ Shape(lane) /\ EnvType /\ NativeInv(lane) /\ KnownInv(lane) /\ EventInv(lane)
      /\ InboxInv(lane) /\ RetainedInv(lane) /\ ContextInv(lane) /\ SaveInv(lane)
      /\ TurnShape(lane) /\ QueueShape(lane) /\ DispatchShape(lane) /\ StatusShape(lane)
  BY DEF Inv, Env, Shape
<1>2. /\ InNative(lane) /\ HasTurn(lane) /\ InFlight("consumed", i)
  BY <1>1, ObservingIs DEF InFlight
<1>3. lane \in Lane /\ lane.active \in Turn /\ i # NoInput
  BY <1>1, <1>2, EnvIs, LaneIs, LaneAssumption
<1>4. /\ i = lane.active.last /\ i \in ToSet(lane.active.steered)
      /\ i \notin ToSet(lane.active.prompted) /\ i # First(lane) /\ i \in ToSet(context)
      /\ ~lane.closed => /\ lane.state[i] = "consumed" /\ i \notin ToSet(lane.queued)
                         /\ lane.dispatch[i] \notin {"saving", "steering"}
  <2>1. i = lane.active.last /\ i \in ToSet(lane.active.steered)
    BY <1>1, <1>2, <1>3 DEF TurnShape
  <2>2. i \notin ToSet(lane.active.prompted) /\ i # First(lane)
    BY <1>1, <1>2, <2>1 DEF TurnShape
  <2>3. i \in ToSet(context)
    BY <1>1, <1>2 DEF EventInv
  <2>4. ~lane.closed => lane.state[i] = "consumed"
    BY <1>1 DEF EventInv
  <2>5. ~lane.closed => /\ i \notin ToSet(lane.queued)
                        /\ lane.dispatch[i] \notin {"saving", "steering"}
    BY <1>1, <2>3 DEF ContextInv
  <2> QED BY <2>1, <2>2, <2>3, <2>4, <2>5
<1>5. /\ t \in Turn /\ t.id = lane.active.id /\ t.first = lane.active.first
      /\ t.prompted = lane.active.prompted /\ t.steered = lane.active.steered
      /\ t.pending = NoInput /\ t.last = lane.active.last /\ t.sealed = lane.active.sealed
      /\ t.ready = lane.active.ready /\ t.stage = lane.active.stage
      /\ t.superseded = lane.active.superseded /\ t.interrupted = lane.active.interrupted
      /\ t.stopped = lane.active.stopped
  BY <1>3 DEF Turn
<1>6. PICK M : M = [lane EXCEPT !.active = t]
  OBVIOUS
<1>7. Turned(lane, t, M)
  BY <1>3, <1>5, <1>6, TurnedIs
<1>8. /\ M \in Lane /\ HasTurn(M) /\ M.active = t
      /\ M.queued = lane.queued /\ M.carried = lane.carried /\ M.closed = lane.closed
      /\ M.turns = lane.turns /\ M.owner = lane.owner /\ M.durable = lane.durable
      /\ M.dispatch = lane.dispatch /\ M.state = lane.state
  BY <1>7 DEF Turned
<1>9. /\ First(M) = First(lane) /\ Live(M) = Live(lane) /\ Bound(M) = Bound(lane)
      /\ InNative(M) /\ ~InEarly(M)
  BY <1>2, <1>5, <1>8 DEF First, Live, Ridden, Bound, InNative, InEarly, Native, Early
<1>10. TurnShape(M)
  BY <1>1, <1>2, <1>5, <1>8, <1>9 DEF TurnShape
<1>11. QueueShape(M)
  BY <1>1, <1>2, <1>5, <1>8, <1>9 DEF QueueShape
<1>12. DispatchShape(M)
  <2> SUFFICES ASSUME NEW j \in Inputs PROVE DispatchShape(M)!(j)
    BY DEF DispatchShape
  <2>1. lane.dispatch[j] \in {"saving", "steering"} => lane.closed
    BY <1>1, <1>2, <1>4 DEF DispatchShape
  <2>2. lane.dispatch[j] = "delivered" /\ ~lane.closed =>
          lane.state[j] = "consumed" \/ lane.active.sealed
    BY <1>1, <1>2, <1>4 DEF DispatchShape
  <2> QED BY <1>1, <1>2, <1>5, <1>8, <2>1, <2>2 DEF DispatchShape
<1>13. StatusShape(M)
  BY <1>1, <1>2, <1>5, <1>8, <1>9 DEF StatusShape
<1>14. Shape(M)
  BY <1>8, <1>10, <1>11, <1>12, <1>13 DEF Shape
<1>15. NativeInv(M) /\ KnownInv(M) /\ SaveInv(M)
  <2>1. NativeInv(M)
    BY <1>1, <1>5, <1>8, <1>9 DEF NativeInv
  <2>2. KnownInv(M)
    BY <1>1, <1>8 DEF KnownInv
  <2> QED BY <1>1, <1>2, <1>5, <1>8, <2>1, <2>2 DEF SaveInv
<1>16. EventInv(M)
  <2> SUFFICES ASSUME NEW j \in Inputs PROVE EventInv(M)!(j)
    BY DEF EventInv
  <2>1. InFlight("queued", j) => M.active.sealed
    <3>1. InFlight("queued", j) => lane.closed
      BY <1>1, <1>4 DEF EventInv
    <3> QED BY <1>1, <1>2, <1>5, <1>8, <3>1 DEF TurnShape
  <2> QED BY <1>1, <1>5, <1>8, <2>1 DEF EventInv
<1>17. InboxInv(M)
  <2>1. i \notin Ids
    BY <1>1, <1>4 DEF InboxInv, Ids
  <2>2. \A j \in Ids \intersect ToSet(lane.active.steered) : FALSE
    BY <1>1, <1>2, <1>4, <2>1 DEF InboxInv
  <2> QED BY <1>1, <1>5, <1>8, <1>9, <2>2 DEF InboxInv
<1>18. RetainedInv(M)
  BY <1>1, <1>2, <1>5, <1>8, <1>9 DEF RetainedInv
<1>19. ContextInv(M)
  BY <1>1, <1>2, <1>5, <1>8, <1>9 DEF ContextInv
<1>20. Env(M)
  BY <1>15, <1>16, <1>17, <1>18, <1>19 DEF Env
<1>21. Shape(lane') /\ Env(lane')
  BY <1>1, <1>6, <1>14, <1>20, FlushShape, FlushEnv
<1>22. /\ lane'.closed = lane.closed /\ First(lane') = First(lane)
       /\ ~lane.closed => lane'.state[i] = "consumed"
  <2>1. lane' = Flush(M)
    BY <1>6
  <2>2. CASE ~MaySteer(M)
    <3>1. lane' = M
      BY <1>8, <2>1, <2>2, FlushIs
    <3> QED BY <1>4, <1>8, <1>9, <3>1
  <2>3. CASE MaySteer(M)
    <3>1. Flushed(M, lane')
      BY <1>8, <2>1, <2>3, FlushIs
    <3>2. /\ lane'.closed = M.closed /\ lane'.active.first = M.active.first
          /\ \A j \in Inputs : j # Head(M.queued) => lane'.state[j] = M.state[j]
      BY <3>1 DEF Flushed
    <3>3. Head(M.queued) \in ToSet(M.queued)
      <4>1. M.queued \in Seq(Inputs) /\ M.queued # <<>>
        BY <1>8, <2>3, LaneIs DEF MaySteer
      <4> DEFINE q == M.queued
      <4>2. q \in Seq(Inputs) /\ q # <<>>
        BY <4>1
      <4> HIDE DEF q
      <4>3. ToSet(q) = {Head(q)} \union ToSet(Tail(q))
        BY <4>2, TailIs
      <4>4. Head(q) \in ToSet(q)
        BY <4>3
      <4> QED BY <4>4 DEF q
    <3> QED BY <1>4, <1>5, <1>8, <3>2, <3>3 DEF First
  <2> QED BY <2>2, <2>3
<1> QED BY <1>1, <1>4, <1>21, <1>22, LoopIdle
-----------------------------------------------------------------------------
\* A returned input is the last thing said before the terminal, so that
\* nothing else is in flight when the queue takes it back.
StreamInv ==
  /\ \A k \in 1..Len(stream) : \A i \in Inputs :
       stream[k] = Status("queued", i) => k + 1 = Len(stream) /\ stream[k + 1] = Terminal
  /\ \A i \in Inputs : loop.pc = "observing" /\ loop.event = Status("queued", i) =>
       \A k \in 1..Len(stream) : stream[k] = Terminal

\* The prompt was read: all that rode in it is consumed.
LEMMA ObservesPrompt ==
  ASSUME Inv, loop.pc = "observing", NEW i \in Inputs, loop.event = Status("consumed", i),
         i = First(lane), lane' = Update(lane, Bound(lane), "consumed"),
         loop' = Idle, UNCHANGED providerVars
  PROVE  Inv'
<1>1. /\ Shape(lane) /\ EnvType /\ Env(lane) /\ NativeInv(lane) /\ EventInv(lane) /\ SaveInv(lane)
      /\ TurnShape(lane) /\ QueueShape(lane) /\ DispatchShape(lane) /\ StatusShape(lane)
  BY DEF Inv, Env, Shape
<1>2. /\ InNative(lane) /\ HasTurn(lane)
      /\ lane.active.stage \notin Early /\ lane.active.stage \in Native
  BY <1>1, ObservingIs DEF InNative, Native, Early
<1>3. /\ lane \in Lane /\ ToSet(lane.active.prompted) \subseteq Inputs
      /\ Bound(lane) \subseteq Inputs
      /\ \A j : j \in Bound(lane) <=> j \in ToSet(lane.active.prompted) /\ j # i
  BY <1>1, <1>2, EnvIs DEF Bound
<1>4. Updated(lane, Bound(lane), "consumed", lane')
  BY <1>3, UpdateIs DEF States, Settled
<1>5. /\ lane' \in Lane /\ lane'.active = lane.active /\ lane'.queued = lane.queued
      /\ lane'.carried = lane.carried /\ lane'.closed = lane.closed /\ lane'.turns = lane.turns
      /\ lane'.dispatch = lane.dispatch /\ lane'.owner = lane.owner /\ lane'.durable = lane.durable
      /\ \A j \in Inputs : lane'.state[j] = IF j \in Bound(lane) THEN "consumed" ELSE lane.state[j]
  BY <1>4 DEF Updated
<1>6. /\ HasTurn(lane') /\ First(lane') = First(lane) /\ Live(lane') = Live(lane)
      /\ InNative(lane') /\ ~InEarly(lane')
  BY <1>2, <1>5 DEF HasTurn, First, Live, Ridden, InNative, InEarly
<1>7. TurnShape(lane') /\ QueueShape(lane')
  <2>0. /\ lane'.active = lane.active /\ lane'.queued = lane.queued
        /\ lane'.carried = lane.carried /\ lane'.closed = lane.closed /\ lane'.turns = lane.turns
        /\ lane'.owner = lane.owner /\ First(lane') = First(lane)
        /\ HasTurn(lane) /\ HasTurn(lane')
    BY <1>2, <1>5, <1>6
  <2>1. TurnShape(lane')
    BY <1>1, <2>0 DEF TurnShape
  <2>2. \A j \in Live(lane') : lane'.state[j] # "new"
    BY <1>1, <1>5, <1>6, EnvIs DEF QueueShape
  <2> QED BY <1>1, <2>0, <2>1, <2>2 DEF QueueShape
<1>8. \A j \in Bound(lane) : lane.dispatch[j] \notin {"saving", "steering"}
  <2>1. \A j \in Bound(lane) : j \notin ToSet(lane.active.steered)
    BY <1>1, <1>2, <1>3 DEF TurnShape
  <2>2. \A j \in Inputs : lane.dispatch[j] \in {"saving", "steering"} =>
          j \in ToSet(lane.active.steered)
    BY <1>1, <1>2, LaneAssumption DEF DispatchShape, TurnShape
  <2> QED BY <1>3, <2>1, <2>2
<1>9. DispatchShape(lane')
  <2> SUFFICES ASSUME NEW j \in Inputs PROVE DispatchShape(lane')!(j)
    BY DEF DispatchShape
  <2>1. CASE j \notin Bound(lane)
    <3>1. lane'.state[j] = lane.state[j]
      BY <1>5, <2>1
    <3> QED BY <1>1, <1>2, <1>5, <1>6, <3>1 DEF DispatchShape
  <2>2. CASE j \in Bound(lane)
    <3>1. lane'.state[j] = "consumed" /\ lane'.dispatch[j] = lane.dispatch[j]
          /\ lane'.owner[j] = lane.owner[j] /\ lane.dispatch[j] \notin {"saving", "steering"}
      BY <1>5, <1>8, <2>2
    <3> QED BY <1>1, <1>2, <1>5, <1>6, <3>1 DEF DispatchShape
  <2> QED BY <2>1, <2>2
<1>10. StatusShape(lane')
  <2>1. \A j \in ToSet(lane.queued) : j \notin Bound(lane) /\ j \in Inputs
    BY <1>1, <1>2, <1>3, EnvIs DEF QueueShape
  <2>2. ~lane.closed => \A j \in ToSet(lane'.queued) : lane'.state[j] \in {"queued", "unknown"}
    BY <1>1, <1>5, <2>1 DEF StatusShape
  <2> QED BY <1>2, <1>5, <2>2 DEF StatusShape, Early
<1>11. Shape(lane')
  BY <1>5, <1>7, <1>9, <1>10 DEF Shape
<1>12. Kept(lane, lane')
  <2>1. KeptTurn(lane, lane')
    BY <1>2, <1>5, <1>6 DEF KeptTurn, Early
  <2>2. \A j : Status("consumed", i) # Status("queued", j)
    BY DEF Status
  <2>3. ASSUME NEW j \in Inputs PROVE KeptInput(lane, lane', j)
    <3>1. lane.dispatch[j] = "steering" => lane.closed \/ j \in lane.durable
      BY <1>1 DEF SaveInv
    <3> QED BY <1>2, <1>3, <1>5, <2>2, <3>1 DEF KeptInput
  <2> QED BY <1>2, <1>5, <1>6, <2>1, <2>3 DEF Kept
<1>13. KeptInterrupt(lane, lane')
  BY <1>2, <1>5 DEF KeptInterrupt
<1>14. Env(lane')
  BY <1>1, <1>11, <1>12, <1>13, KeepEnv
<1>15. ~lane'.closed =>
         /\ lane'.state[i] = "consumed"
         /\ i = First(lane') =>
              \A j \in ToSet(context) \intersect ToSet(lane'.active.prompted) :
                lane'.state[j] = "consumed"
  <2>1. ~lane.closed => lane.state[i] = "consumed"
    BY <1>1 DEF EventInv
  <2> QED BY <1>3, <1>5, <2>1
<1> QED BY <1>1, <1>11, <1>14, <1>15, LoopIdle

\* What the lane makes of a message that is kept for the next turn.
SealedTurn(i) == [lane.active EXCEPT !.sealed = TRUE, !.pending = IF @ = i THEN NoInput ELSE @]

\* The queue with a returned input at its head, once.
WithHead(i) == IF i \in ToSet(lane.queued) THEN lane.queued ELSE <<i>> \o lane.queued

\* The lane after observe() of a returned input.
Returned(t, q) == lane' = [lane EXCEPT !.active = t, !.queued = q]

\* A message kept for the next turn goes back to the head of the queue.
LEMMA ObservesQueued ==
  ASSUME Inv, StreamInv, loop.pc = "observing", NEW i \in Inputs, loop.event = Status("queued", i),
         NEW t, t = SealedTurn(i), NEW q, q = WithHead(i), Returned(t, q),
         loop' = Idle, UNCHANGED providerVars
  PROVE  Inv'
<1>1. /\ Shape(lane) /\ EnvType /\ NativeInv(lane) /\ KnownInv(lane) /\ EventInv(lane)
      /\ InboxInv(lane) /\ RetainedInv(lane) /\ ContextInv(lane) /\ SaveInv(lane)
      /\ TurnShape(lane) /\ QueueShape(lane) /\ DispatchShape(lane) /\ StatusShape(lane)
  BY DEF Inv, Env, Shape
<1>2. /\ InNative(lane) /\ HasTurn(lane) /\ InFlight("queued", i)
      /\ lane.active.stage \notin Early /\ lane.active.stage \in Native
  BY <1>1, ObservingIs DEF InFlight, InNative, Native, Early
<1>3. /\ lane \in Lane /\ lane.active \in Turn /\ i # NoInput
      /\ lane.queued \in Seq(Inputs) /\ lane.active.pending \in Inputs \union {NoInput}
  BY <1>1, <1>2, EnvIs, LaneIs, LaneAssumption
<1>4. /\ i = lane.active.last /\ i \in ToSet(lane.active.steered)
      /\ i \notin ToSet(lane.active.prompted)
      /\ lane.active.pending \in {i, NoInput}
  <2>1. i = lane.active.last
    BY <1>1, <1>2 DEF EventInv
  <2> QED BY <1>1, <1>2, <1>3, <2>1 DEF TurnShape
<1>5. ~lane.closed =>
        /\ ~open /\ i \notin ToSet(context) /\ i \notin ToSet(lane.queued)
        /\ lane.dispatch[i] \notin {"saving", "steering"}
        /\ lane.state[i] \in {"queued", "unknown"}
  BY <1>1, <1>2 DEF EventInv
<1>6. /\ t \in Turn /\ t.id = lane.active.id /\ t.first = lane.active.first
      /\ t.prompted = lane.active.prompted /\ t.steered = lane.active.steered
      /\ t.pending = NoInput /\ t.last = lane.active.last /\ t.sealed
      /\ t.ready = lane.active.ready /\ t.stage = lane.active.stage
      /\ t.superseded = lane.active.superseded /\ t.interrupted = lane.active.interrupted
      /\ t.stopped = lane.active.stopped
  BY <1>3, <1>4 DEF Turn, SealedTurn
<1>7. /\ q \in Seq(Inputs) /\ ToSet(q) = ToSet(lane.queued) \union {i} /\ Distinct(q)
      /\ ~lane.closed => q # <<>> /\ Head(q) = i
  <2> DEFINE s == lane.queued
             o == <<i>>
  <2>1. s \in Seq(Inputs) /\ Distinct(s)
    BY <1>1, <1>3 DEF QueueShape
  <2>2. /\ o \in Seq(Inputs) /\ ToSet(o) = {i} /\ Distinct(o) /\ Len(o) = 1 /\ o[1] = i
    BY OneIs
  <2> HIDE DEF s, o
  <2>3. /\ o \o s \in Seq(Inputs) /\ ToSet(o \o s) = ToSet(o) \union ToSet(s)
        /\ i \notin ToSet(s) => Distinct(o \o s)
        /\ Len(o \o s) = 1 + Len(s) /\ Len(s) \in Nat /\ \A a \in 1..Len(o) : (o \o s)[a] = o[a]
    <3>1. ToSet(o) \intersect ToSet(s) = {} <=> i \notin ToSet(s)
      BY <2>2
    <3> QED BY <2>1, <2>2, <3>1, JoinIs
  <2>4. o \o s # <<>> /\ Head(o \o s) = i
    <3>1. (o \o s)[1] = i
      BY <2>2, <2>3
    <3> QED BY <2>3, <3>1
  <2>5. q = IF i \in ToSet(s) THEN s ELSE o \o s
    BY DEF s, o, WithHead
  <2>6. ~lane.closed => i \notin ToSet(s)
    BY <1>5 DEF s
  <2>7. ToSet(q) = ToSet(s) \union {i} /\ q \in Seq(Inputs) /\ Distinct(q)
    BY <2>1, <2>2, <2>3, <2>5
  <2> QED BY <2>4, <2>5, <2>6, <2>7 DEF s
<1>8. /\ lane' \in Lane /\ lane'.active = t /\ lane'.queued = q /\ lane'.carried = lane.carried
      /\ lane'.closed = lane.closed /\ lane'.turns = lane.turns /\ lane'.owner = lane.owner
      /\ lane'.dispatch = lane.dispatch /\ lane'.state = lane.state
      /\ lane'.durable = lane.durable
  BY <1>3, <1>6, <1>7 DEF Lane, Returned
<1>9. HasTurn(lane')
  BY <1>6, <1>8, NoTurnIsNone DEF HasTurn
<1>10. /\ First(lane') = First(lane) /\ Live(lane') = Live(lane)
       /\ InNative(lane') /\ ~InEarly(lane')
  BY <1>2, <1>4, <1>6, <1>7, <1>8, <1>9 DEF First, Live, Ridden, InNative, InEarly
<1>11. TurnShape(lane')
  BY <1>1, <1>2, <1>6, <1>8, <1>9, <1>10 DEF TurnShape
<1>12. QueueShape(lane')
  <2>1. lane.carried = <<>>
    BY <1>1, <1>2 DEF QueueShape
  <2>2. ToSet(q) \intersect ToSet(lane.active.prompted) = {}
    BY <1>1, <1>2, <1>4, <1>7 DEF QueueShape
  <2>3. /\ \A j \in Inputs : lane.owner[j] <= lane.turns
        /\ \A j \in Live(lane) : lane.state[j] # "new" /\ Distinct(lane.carried)
    BY <1>1 DEF QueueShape
  <2>4. ToSet(q) \intersect ToSet(lane'.carried) = {} /\ Distinct(lane'.carried)
    BY <1>1, <1>8, <2>1, NoneIs
  <2> QED BY <1>6, <1>7, <1>8, <1>9, <1>10, <2>1, <2>2, <2>3, <2>4 DEF QueueShape
<1>13. DispatchShape(lane')
  <2> SUFFICES ASSUME NEW j \in Inputs PROVE DispatchShape(lane')!(j)
    BY DEF DispatchShape
  <2>1. lane.dispatch[j] \in {"saving", "steering"} => lane.closed
    BY <1>1, <1>2, <1>4, <1>5 DEF DispatchShape
  <2> QED BY <1>1, <1>2, <1>6, <1>7, <1>8, <1>9, <2>1 DEF DispatchShape
<1>14. StatusShape(lane')
  <2>1. ~lane.closed => \A j \in ToSet(q) : lane.state[j] \in {"queued", "unknown"}
    BY <1>1, <1>5, <1>7 DEF StatusShape
  <2> QED BY <1>2, <1>6, <1>8, <2>1 DEF StatusShape, Early
<1>15. Shape(lane')
  BY <1>8, <1>11, <1>12, <1>13, <1>14 DEF Shape
<1>16. /\ stream' = stream /\ inbox' = inbox /\ context' = context /\ retained' = retained
       /\ open' = open
  BY DEF providerVars
<1>17. Distinct(context) /\ ToSet(context) \subseteq Inputs
  BY <1>1, EnvIs DEF InboxInv
<1>18. CASE lane.closed
  <2>1. ~open /\ stream = <<>> /\ inbox = <<>> /\ retained = {}
    BY <1>1, <1>18 DEF NativeInv, EnvType
  <2>2. \A j \in ToSet(context) : lane'.state[j] # "new"
    BY <1>1, <1>8 DEF KnownInv
  <2>3. lane'.closed /\ open' = FALSE
    BY <1>1, <1>8, <1>16, <1>18, <2>1 DEF EnvType
  <2> QED BY <1>1, <1>15, <1>16, <1>17, <2>1, <2>2, <2>3, ClosedEnv
<1>19. CASE ~lane.closed
  <2>1. Ids' = Ids /\ \A k : Parts(k)' = Parts(k)
    BY <1>16 DEF Ids, Parts
  <2>2. loop'.pc # "observing"
    BY DEF Idle
  <2>3. \A j : ~InFlight("queued", j)'
    <3>1. \A k \in 1..Len(stream) : stream[k] = Terminal
      BY DEF StreamInv
    <3>2. \A j : Status("queued", j) # Terminal
      BY DEF Status, Terminal
    <3>3. \A j : Status("queued", j) \notin ToSet(stream)
      <4>1. stream \in Seq(Event)
        BY <1>1 DEF EnvType
      <4> QED BY <3>1, <3>2, <4>1, InSet
    <3> QED BY <1>16, <2>2, <3>3 DEF InFlight
  <2>4. \A j : InFlight("consumed", j)' <=> InFlight("consumed", j)
    <3>1. \A j : Status("consumed", j) # Status("queued", i)
      BY DEF Status
    <3> QED BY <1>16, <2>2, <3>1 DEF InFlight
  <2>5. EnvType'
    BY <1>1, <1>16 DEF EnvType, Loops
  <2>6. NativeInv(lane)'
    BY <1>1, <1>2, <1>8, <1>10, <1>16 DEF NativeInv, Idle
  <2>7. KnownInv(lane)'
    BY <1>1, <1>8, <1>16, <2>1 DEF KnownInv
  <2>8. EventInv(lane)'
    <3> SUFFICES ASSUME NEW j \in Inputs PROVE (EventInv(lane)!(j))'
      BY DEF EventInv
    <3>1. InFlight("consumed", j)' => j \in ToSet(context')
      BY <1>1, <1>16, <2>4 DEF EventInv
    <3> QED BY <2>2, <2>3, <3>1
  <2>9. InboxInv(lane)'
    <3>1. ~open'
      BY <1>5, <1>16, <1>19
    <3> QED BY <1>1, <1>2, <1>4, <1>6, <1>8, <1>9, <1>10, <1>16, <2>1, <3>1 DEF InboxInv
  <2>10. RetainedInv(lane)'
    <3>1. ~open'
      BY <1>5, <1>16, <1>19
    <3>2. retained' \intersect Live(lane') \subseteq Ids'
      BY <1>1, <1>5, <1>10, <1>16, <1>19, <2>1 DEF RetainedInv
    <3>3. \A j \in Ids \intersect Live(lane) : j = i
      BY <1>1, <1>2, <1>4, <1>5, <1>19 DEF RetainedInv
    <3>4. lane'.active.stage \notin Early
      BY <1>2, <1>6, <1>8
    <3> QED BY <1>4, <1>6, <1>7, <1>8, <1>10, <1>19, <2>1, <3>1, <3>2, <3>3, <3>4 DEF RetainedInv
  <2>11. ContextInv(lane)'
    <3>1. PICK f : f = First(lane)
      OBVIOUS
    <3>2. InFlight("consumed", First(lane))' <=> InFlight("consumed", f)'
      BY <1>10, <3>1 DEF InFlight
    <3>3. ASSUME NEW j \in ToSet(context) \intersect Live(lane)
          PROVE  \/ lane'.state[j] = "consumed" \/ InFlight("consumed", j)'
                 \/ /\ HasTurn(lane') /\ j \in ToSet(lane'.active.prompted)
                    /\ InFlight("consumed", First(lane))'
      <4>1. \/ lane.state[j] = "consumed" \/ InFlight("consumed", j)
            \/ j \in ToSet(lane.active.prompted) /\ InFlight("consumed", f)
        BY <1>1, <1>19, <3>1 DEF ContextInv
      <4>2. InFlight("consumed", f) => InFlight("consumed", f)'
        BY <2>4
      <4>3. InFlight("consumed", j) => InFlight("consumed", j)'
        BY <2>4
      <4> QED BY <1>6, <1>8, <1>9, <3>2, <4>1, <4>2, <4>3
    <3>4. ToSet(context) \intersect ToSet(q) = {}
      BY <1>1, <1>5, <1>7, <1>19 DEF ContextInv
    <3>5. \A j \in Inputs : lane.dispatch[j] \in {"saving", "steering"} =>
            j \notin ToSet(context) \union Ids
      BY <1>1, <1>19 DEF ContextInv
    <3>6. \A j \in ToSet(lane.active.steered) : lane.state[j] = "consumed" => j \in ToSet(context)
      BY <1>1, <1>2, <1>19 DEF ContextInv
    <3> QED BY <1>6, <1>8, <1>10, <1>16, <2>1, <3>3, <3>4, <3>5, <3>6 DEF ContextInv
  <2>12. SaveInv(lane)'
    BY <1>1, <1>2, <1>6, <1>8, <1>19 DEF SaveInv, Native
  <2> QED BY <1>15, <2>5, <2>6, <2>7, <2>8, <2>9, <2>10, <2>11, <2>12 DEF Inv, Env
<1> QED BY <1>18, <1>19

\* observe() after its write.
LEMMA ObserveSavedStep == ASSUME Inv, StreamInv, ObserveSaved PROVE Inv'
<1>1. /\ Shape(lane) /\ EnvType /\ Env(lane) /\ NativeInv(lane) /\ EventInv(lane) /\ TurnShape(lane)
  BY DEF Inv, Env, Shape
<1>2. /\ loop.pc = "observing" /\ loop' = Idle /\ UNCHANGED providerVars
  BY DEF ObserveSaved
<1>3. /\ InNative(lane) /\ HasTurn(lane) /\ loop.turn = lane.active.id
  BY <1>1, <1>2, ObservingIs
<1>4. PICK kind \in {"consumed", "queued"}, i \in Inputs :
        loop.event = Status(kind, i) /\ loop.event.kind = kind /\ loop.event.input = i
  BY <1>1, <1>2, ObservingIs
<1>5. lane' = Observed(lane, i, kind)
  BY <1>3, <1>4 DEF ObserveSaved
<1>6. CASE kind = "queued"
  <2>1. PICK t, q : t = SealedTurn(i) /\ q = WithHead(i)
    OBVIOUS
  <2>2. lane' = [lane EXCEPT !.active = SealedTurn(i), !.queued = WithHead(i)]
    <3> DEFINE seen == [lane EXCEPT
                 !.active = [lane.active EXCEPT !.sealed = TRUE,
                                                !.pending = IF @ = i THEN NoInput ELSE @],
                 !.queued = IF i \in ToSet(@) THEN @ ELSE <<i>> \o @]
    <3>1. lane' = seen
      BY <1>5, <1>6 DEF Observed
    <3>2. seen = [lane EXCEPT !.active = SealedTurn(i), !.queued = WithHead(i)]
      BY DEF SealedTurn, WithHead
    <3> QED BY <3>1, <3>2
  <2>3. Returned(t, q)
    BY <2>1, <2>2 DEF Returned
  <2> QED BY <1>2, <1>4, <1>6, <2>1, <2>3, ObservesQueued
<1>7. CASE kind = "consumed" /\ lane.active.pending = i
  <2>1. i # First(lane)
    BY <1>1, <1>3, <1>7, LaneAssumption DEF TurnShape
  <2> QED BY <1>2, <1>4, <1>5, <1>7, <2>1, ObservesPending DEF Observed
<1>8. CASE kind = "consumed" /\ lane.active.pending # i /\ i = First(lane)
  BY <1>2, <1>4, <1>5, <1>8, ObservesPrompt DEF Observed
<1>9. CASE kind = "consumed" /\ lane.active.pending # i /\ i # First(lane)
  <2>1. lane' = lane
    BY <1>5, <1>9 DEF Observed
  <2>2. ~lane.closed => lane.state[i] = "consumed"
    BY <1>1, <1>2, <1>4, <1>9 DEF EventInv
  <2> QED BY <1>1, <1>2, <1>4, <1>9, <2>1, <2>2, LoopIdle
<1> QED BY <1>4, <1>6, <1>7, <1>8, <1>9
-----------------------------------------------------------------------------
(* A message kept for the next turn is the last word before the result *)

\* While the native turn runs no such event is out.
LEMMA NoneKeptYet ==
  ASSUME Inv, open
  PROVE  \A i \in Inputs : ~InFlight("queued", i)
<1>1. ~lane.closed
  BY DEF Inv, Env, NativeInv
<1> QED BY <1>1 DEF Inv, Env, EventInv

\* A consumed status or a terminal at the end of an orderly stream.
LEMMA EmitsStream ==
  ASSUME Inv, open, NEW e \in Event, \A i \in Inputs : e # Status("queued", i),
         stream' = Append(stream, e), loop' = loop
  PROVE  StreamInv'
<1>1. \A i \in Inputs : ~InFlight("queued", i)
  BY NoneKeptYet
<1>2. stream \in Seq(Event) /\ Len(stream) \in Nat
  BY DEF Inv, EnvType
<1>3. /\ Len(stream') = Len(stream) + 1 /\ stream'[Len(stream) + 1] = e
      /\ \A k \in 1..Len(stream) : stream'[k] = stream[k]
  BY <1>2
<1>4. ASSUME NEW k \in 1..Len(stream'), NEW i \in Inputs PROVE stream'[k] # Status("queued", i)
  <2>1. CASE k \in 1..Len(stream)
    <3>1. stream[k] \in ToSet(stream) /\ stream'[k] = stream[k]
      BY <1>2, <1>3, <2>1, InSet
    <3> QED BY <1>1, <3>1 DEF InFlight
  <2>2. CASE k \notin 1..Len(stream)
    <3>1. k = Len(stream) + 1
      BY <1>2, <1>3, <2>2
    <3> QED BY <1>3, <3>1
  <2> QED BY <2>1, <2>2
<1>5. \A i \in Inputs : ~(loop'.pc = "observing" /\ loop'.event = Status("queued", i))
  BY <1>1 DEF InFlight
<1> QED BY <1>4, <1>5 DEF StreamInv

\* An empty stream is orderly.
LEMMA EmptyStream == ASSUME stream' = <<>> PROVE StreamInv'
<1>1. 1..Len(stream') = {}
  OBVIOUS
<1> QED BY <1>1 DEF StreamInv

\* And one the loop has let go of.
LEMMA IdleStream == ASSUME StreamInv, stream' = stream, loop' = Idle PROVE StreamInv'
BY DEF StreamInv, Idle

\* And one that no step touches.
LEMMA SameStream == ASSUME StreamInv, stream' = stream, loop' = loop PROVE StreamInv'
BY DEF StreamInv

\* And one after an interrupt.
LEMMA InterruptStream ==
  ASSUME Inv, StreamInv, InterruptProvider \/ UNCHANGED providerVars, loop' = loop
  PROVE  StreamInv'
<1>1. \A i \in Inputs : Terminal # Status("queued", i)
  BY DEF Terminal, Status
<1>2. Terminal \in Event
  BY DEF Event
<1>3. stream' = stream \/ (open /\ stream' = Append(stream, Terminal))
  BY DEF InterruptProvider, providerVars, Terminal
<1> QED BY <1>1, <1>2, <1>3, SameStream, EmitsStream

\* And one after the last events of a native turn.
LEMMA CompletesStream == ASSUME Inv, ProviderCompletes PROVE StreamInv'
<1>1. PICK kept : Completes(kept) /\ Ends(kept)
  BY CompletesIs
<1>2. open /\ loop' = loop
  BY DEF ProviderCompletes
<1>3. \A i \in Inputs : ~InFlight("queued", i)
  BY <1>2, NoneKeptYet
<1>4. Len(kept) \in {0, 1}
  BY <1>1 DEF Completes
<1>5. /\ stream \in Seq(Event) /\ Len(stream) \in Nat
      /\ Len(stream') = Len(stream) + Len(kept) + 1
      /\ \A a \in 1..Len(stream) : stream'[a] = stream[a]
      /\ stream'[Len(stream) + Len(kept) + 1] = Terminal
  BY <1>1 DEF Ends
<1>6. ASSUME NEW k \in 1..Len(stream'), NEW i \in Inputs, stream'[k] = Status("queued", i)
      PROVE  k + 1 = Len(stream') /\ stream'[k + 1] = Terminal
  <2>1. k \notin 1..Len(stream)
    <3> SUFFICES ASSUME k \in 1..Len(stream) PROVE FALSE
      OBVIOUS
    <3>1. stream[k] \in ToSet(stream) /\ stream'[k] = stream[k]
      BY <1>5, InSet
    <3> QED BY <1>3, <1>6, <3>1 DEF InFlight
  <2>2. k # Len(stream')
    <3>1. Terminal # Status("queued", i)
      BY DEF Terminal, Status
    <3>2. stream'[Len(stream')] = Terminal
      BY <1>5
    <3> QED BY <1>6, <3>1, <3>2
  <2>3. k \in Nat /\ k >= 1 /\ k <= Len(stream')
    BY <1>4, <1>5
  <2> DEFINE n == Len(stream)
             m == Len(stream')
             d == Len(kept)
  <2>5. n \in Nat /\ d \in {0, 1} /\ m = n + d + 1 /\ k \notin 1..n /\ k # m /\ k \in 1..m
    BY <1>4, <1>5, <2>1, <2>2
  <2> HIDE DEF n, m, d
  <2>6. k + 1 = m
    BY <2>5
  <2>4. k + 1 = Len(stream')
    BY <2>6 DEF m
  <2>7. stream'[Len(stream')] = Terminal
    BY <1>5
  <2> QED BY <2>4, <2>7
<1>7. \A i \in Inputs : ~(loop'.pc = "observing" /\ loop'.event = Status("queued", i))
  BY <1>2, <1>3 DEF InFlight
<1> QED BY <1>6, <1>7 DEF StreamInv

\* And one of which the loop takes the next event.
LEMMA TakeStream == ASSUME Inv, StreamInv, TakeEvent PROVE StreamInv'
<1>1. /\ stream # <<>> /\ stream' = Tail(stream) /\ stream \in Seq(Event)
      /\ loop'.pc = "observing" => loop'.event = Head(stream)
  BY DEF TakeEvent, Inv, EnvType
<1>2. /\ Len(stream) \in Nat /\ Len(stream) >= 1 /\ Head(stream) = stream[1]
      /\ Len(stream') = Len(stream) - 1
      /\ \A k \in 1..Len(stream') : stream'[k] = stream[k + 1]
  BY <1>1
<1>3. ASSUME NEW k \in 1..Len(stream'), NEW i \in Inputs, stream'[k] = Status("queued", i)
      PROVE  k + 1 = Len(stream') /\ stream'[k + 1] = Terminal
  <2>1. k + 1 \in 1..Len(stream) /\ stream[k + 1] = Status("queued", i) /\ k \in Nat
    BY <1>2, <1>3
  <2>2. (k + 1) + 1 = Len(stream) /\ stream[(k + 1) + 1] = Terminal
    BY <2>1 DEF StreamInv
  <2>3. k + 1 = Len(stream') /\ k + 1 \in 1..Len(stream')
    BY <1>2, <2>1, <2>2
  <2> QED BY <1>2, <2>2, <2>3
<1>4. ASSUME NEW i \in Inputs, loop'.pc = "observing", loop'.event = Status("queued", i),
             NEW k \in 1..Len(stream')
      PROVE  stream'[k] = Terminal
  <2>1. stream[1] = Status("queued", i) /\ 1 \in 1..Len(stream)
    BY <1>1, <1>2, <1>4
  <2>2. 1 + 1 = Len(stream) /\ stream[1 + 1] = Terminal
    BY <2>1 DEF StreamInv
  <2>3. k = 1
    <3> DEFINE m == Len(stream')
    <3>1. m = Len(stream) - 1 /\ k \in 1..m
      BY <1>2
    <3>2. Len(stream) = 2
      BY <2>2
    <3> HIDE DEF m
    <3>3. m = 1
      BY <3>1, <3>2
    <3>4. k \in 1..1
      BY <3>1, <3>3
    <3> QED BY <3>4, SMTT(30)
  <2> QED BY <1>2, <2>2, <2>3
<1> QED BY <1>3, <1>4 DEF StreamInv

\* And one after a message was read.
LEMMA ReadsStream == ASSUME Inv, ProviderReads PROVE StreamInv'
<1>1. /\ open /\ inbox # <<>> /\ loop' = loop
      /\ stream' = Append(stream, Status("consumed", Head(inbox).id))
  BY DEF ProviderReads
<1>2. Head(inbox).id \in Inputs
  <2>1. Head(inbox) \in Message
    BY <1>1 DEF Inv, EnvType
  <2> QED BY <2>1 DEF Message
<1>3. /\ Status("consumed", Head(inbox).id) \in Event
      /\ \A i \in Inputs : Status("consumed", Head(inbox).id) # Status("queued", i)
  BY <1>2 DEF Event, Status
<1> QED BY <1>1, <1>3, EmitsStream

\* And one after the native turn failed.
LEMMA ErrsStream == ASSUME Inv, ProviderErrs PROVE StreamInv'
<1>1. open /\ loop' = loop /\ stream' = Append(stream, Terminal)
  BY DEF ProviderErrs, Terminal
<1>2. Terminal \in Event /\ \A i \in Inputs : Terminal # Status("queued", i)
  BY DEF Event, Terminal, Status
<1> QED BY <1>1, <1>2, EmitsStream

\* So every step keeps it.
LEMMA StreamStep == ASSUME Inv, StreamInv, [Next]_vars PROVE StreamInv'
<1>1. CASE UNCHANGED vars
  BY <1>1, SameStream DEF vars, providerVars
<1>2. CASE CallerStep
  <2>1. CASE Stop
    BY <2>1, InterruptStream DEF Stop
  <2>2. CASE Close
    BY <2>2, EmptyStream DEF Close, ProviderCloses
  <2>3. CASE \E i \in Inputs, p \in Priorities : Submit(i, p)
    BY <2>3, InterruptStream DEF Submit, SubmitFirst, SubmitNext, SubmitNow
  <2> QED BY <1>2, <2>1, <2>2, <2>3 DEF CallerStep
<1>3. CASE TurnStep
  <2>1. stream' = stream /\ loop' = loop
    BY <1>3 DEF TurnStep, TakeMutex, SkipModel, BeforeSend, BeforeSendSaved, SendInput, TurnFails,
                Ready, AnswerSaved, MiddlewareAnswers, providerVars
  <2> QED BY <2>1, SameStream
<1>4. CASE \E i \in Inputs : DispatchStep(i)
  <2>1. stream' = stream /\ loop' = loop
    BY <1>4 DEF DispatchStep, DispatchSaved, DispatchRequeued, SteerDelivered, SteerDeferred,
                SteerAccepted, DispatchFails, providerVars
  <2> QED BY <2>1, SameStream
<1>5. CASE LoopStep
  <2>1. CASE TakeEvent
    BY <2>1, TakeStream
  <2>2. CASE ObserveSaved \/ LoopFinishes
    BY <2>2, IdleStream DEF ObserveSaved, LoopFinishes, providerVars
  <2>3. CASE LoopEnds
    BY <2>3, EmptyStream DEF LoopEnds, ProviderCloses
  <2> QED BY <1>5, <2>1, <2>2, <2>3 DEF LoopStep
<1>6. CASE ProviderStep
  BY <1>6, ReadsStream, CompletesStream, ErrsStream DEF ProviderStep
<1> QED BY <1>1, <1>2, <1>3, <1>4, <1>5, <1>6 DEF Next

-----------------------------------------------------------------------------
(* The inductive invariant *)

\* The inductive invariant of the lane and its environment.
LaneInv == Inv /\ StreamInv

\* It holds at the start.
LEMMA InitInv == Init => LaneInv
<1> SUFFICES ASSUME Init PROVE LaneInv
  OBVIOUS
<1>1. /\ lane \in Lane /\ lane.active = NoTurn /\ lane.queued = <<>> /\ lane.carried = <<>>
      /\ lane.closed = FALSE /\ lane.turns = 0
      /\ \A i \in Inputs : lane.state[i] = "new" /\ lane.dispatch[i] = "none" /\ lane.owner[i] = 0
  <2> DEFINE none == <<>>
  <2>1. none \in Seq(Inputs)
    BY NoneIs
  <2> HIDE DEF none
  <2>2. PICK p \in Providers :
          lane = [provider |-> p, active |-> NoTurn, queued |-> none, carried |-> none,
             closed |-> FALSE, turns |-> 0,
             state |-> [i \in Inputs |-> "new"],
             priority |-> [i \in Inputs |-> "next"],
             dispatch |-> [i \in Inputs |-> "none"],
             owner |-> [i \in Inputs |-> 0],
             durable |-> {}, broken |-> {}, answered |-> {}, doubtful |-> {}, stopped |-> {}]
    BY DEF Init, none
  <2>3. p \in {"local", "remote"}
    BY LaneAssumption
  <2>4. lane \in Lane
    BY <2>1, <2>2, <2>3 DEF Lane, States, Dispatches
  <2> QED BY <2>2, <2>4 DEF none
<1>2. /\ loop = Idle /\ stream = <<>> /\ inbox = <<>> /\ context = <<>> /\ retained = {}
      /\ open = FALSE
  BY DEF Init
<1>3. ~HasTurn(lane) /\ Live(lane) = {} /\ ToSet(<<>>) = {} /\ Distinct(<<>>)
  BY <1>1, NoneIs DEF HasTurn, Live, Ridden
<1>4. Shape(lane)
  <2>1. TurnShape(lane) /\ QueueShape(lane)
    BY <1>1, <1>3 DEF TurnShape, QueueShape
  <2>2. DispatchShape(lane) /\ StatusShape(lane)
    BY <1>1, <1>3 DEF DispatchShape, StatusShape
  <2> QED BY <1>1, <2>1, <2>2 DEF Shape
<1>5. EnvType
  BY <1>2, NoneIs DEF EnvType, Loops
<1>6. 1..Len(stream) = {} /\ 1..Len(inbox) = {} /\ loop.pc # "observing" /\ loop.pc # "sealing"
  BY <1>2 DEF Idle
<1>7. \A k, i : ~InFlight(k, i)
  BY <1>2, <1>3, <1>6 DEF InFlight
<1>8. Ids = {}
  BY <1>6 DEF Ids
<1>9. NativeInv(lane) /\ KnownInv(lane) /\ EventInv(lane)
  BY <1>1, <1>2, <1>3, <1>6, <1>7 DEF NativeInv, KnownInv, EventInv
<1>10. InboxInv(lane)
  BY <1>1, <1>2, <1>3, <1>6, <1>8 DEF InboxInv
<1>11. RetainedInv(lane) /\ ContextInv(lane) /\ SaveInv(lane)
  BY <1>1, <1>2, <1>3, <1>8 DEF RetainedInv, ContextInv, SaveInv, InEarly, InNative
<1>12. StreamInv
  BY <1>6 DEF StreamInv
<1> QED BY <1>4, <1>5, <1>9, <1>10, <1>11, <1>12 DEF LaneInv, Inv, Env

\* A stuttering step keeps it.
LEMMA StutterInv == ASSUME Inv, UNCHANGED vars PROVE Inv'
<1>1. lane' = lane /\ UNCHANGED <<loop, providerVars>>
  BY DEF vars, providerVars
<1>2. Shape(lane') /\ Env(lane') /\ EnvType
  BY <1>1 DEF Inv
<1> QED BY <1>1, <1>2, EnvUnchanged

\* And so does every step.
LEMMA NextInv == ASSUME LaneInv, [Next]_vars PROVE LaneInv'
<1>1. Inv /\ StreamInv
  BY DEF LaneInv
<1>2. Inv'
  <2>1. CASE UNCHANGED vars
    BY <1>1, <2>1, StutterInv
  <2>2. CASE CallerStep
    BY <1>1, <2>2, StopStep, CloseStep, SubmitStep DEF CallerStep
  <2>3. CASE TurnStep
    BY <1>1, <2>3, TakeMutexStep, SkipModelStep, BeforeSendStep, BeforeSendSavedStep, SendInputStep,
       TurnFailsStep, ReadyStep, AnswerSavedStep, MiddlewareAnswersStep DEF TurnStep
  <2>4. CASE \E i \in Inputs : DispatchStep(i)
    BY <1>1, <2>4, DispatchSavedStep, DispatchRequeuedStep, SteerDeliveredStep, SteerDeferredStep,
       SteerAcceptedStep, DispatchFailsStep DEF DispatchStep
  <2>5. CASE LoopStep
    BY <1>1, <2>5, TakeEventStep, ObserveSavedStep, LoopFinishesStep, LoopEndsStep DEF LoopStep
  <2>6. CASE ProviderStep
    BY <1>1, <2>6, ProviderReadsStep, ProviderCompletesStep, ProviderErrsStep DEF ProviderStep
  <2> QED BY <2>1, <2>2, <2>3, <2>4, <2>5, <2>6 DEF Next
<1> QED BY <1>1, <1>2, StreamStep DEF LaneInv

\* The inductive invariant holds of every run: the queue's bookkeeping, the
\* provider's books and the events in flight agree.
THEOREM LaneSafe == Spec => []LaneInv
<1>1. LaneInv /\ [Next]_vars => LaneInv'
  BY NextInv
<1> QED BY <1>1, InitInv, PTL DEF Spec
=============================================================================
