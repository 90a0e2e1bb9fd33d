----------------------------- MODULE RelayDrain ------------------------------
(***************************************************************************)
(* One drain connection of the webhook relay: the socket and its reconnect *)
(* timer, the promise queue of frames, the delivery that owns the queue    *)
(* with its retry budget, the gate of a blocked event, stop and reload,    *)
(* and the relay, which replays what is not acknowledged on every open.    *)
(*                                                                         *)
(* The process runs one callback at a time, and a resolved promise before  *)
(* the next callback: while no frame is being handled the queue is empty,  *)
(* or a step of HandleFrame is next.                                       *)
(*                                                                         *)
(* A frame or handler is `cur` while its socket is this.ws. Backoff,       *)
(* Retry-After and the deadline of a retry are times: a wait ends whenever *)
(* it may. Attempts past the budget behave as the budget does.             *)
(***************************************************************************)
EXTENDS Naturals, Sequences

CONSTANTS
  N,          \* bound: events deposited at the relay, numbered by seq
  Budget,     \* attempts before an event blocks: the retry delays plus one
  MaxFrames   \* bound: frames waiting in the promise queue

ASSUME DrainAssumption == N \in Nat /\ Budget \in Nat \ {0} /\ MaxFrames \in Nat

VARIABLES
  posted, pruned,  \* the relay's: events 1..posted came, 1..pruned are gone
  next,            \* the event it sends next on the open connection
  acks,            \* acknowledgements on their way to it
  life,            \* the DrainConnection: "on", "stopping", or "off" (none)
  sock,            \* this.ws: "none", "connecting", "open", or "closing"
  timer,           \* reconnectTimer is armed
  frames,          \* the promise queue: frames not yet handled
  handler,         \* the frame handler at its await
  delivery,        \* the un-acked event that owns the queue, and its budget
  blocked,         \* the event whose budget is spent, 0 if none
  settled,         \* history: events answered 2xx or rejected for good
  skipped,         \* history: events resumed while the socket was closing
  failures         \* history: failed attempts since the budget was last fresh,
                   \* seen or late, counted up to the budget

relayVars == <<posted, pruned, next, acks>>
connVars == <<life, sock, timer>>
history == <<settled, skipped, failures>>
vars == <<relayVars, connVars, frames, handler, delivery, blocked, history>>

Seqs == 1..N
Frame == [seq : Seqs, cur : BOOLEAN]
Handler == [at : {"idle", "delivering", "waiting", "held"},
            seq : Seqs \union {0}, cur : BOOLEAN]
Delivery == [seq : Seqs \union {0}, attempts : 0..Budget, due : BOOLEAN]
Idle == [at |-> "idle", seq |-> 0, cur |-> FALSE]
NoDelivery == [seq |-> 0, attempts |-> 0, due |-> FALSE]

NoFailures == [s \in Seqs |-> 0]

Init ==
  /\ posted = 0 /\ pruned = 0 /\ next = 1 /\ acks = {}
  /\ life = "off" /\ sock = "none" /\ timer = FALSE
  /\ frames = <<>> /\ handler = Idle /\ delivery = NoDelivery /\ blocked = 0
  /\ settled = {} /\ skipped = {} /\ failures = NoFailures
-----------------------------------------------------------------------------
(* The relay (external) *)

Post ==
  /\ posted < N /\ posted' = posted + 1
  /\ UNCHANGED <<pruned, next, acks, connVars, frames, handler, delivery, blocked, history>>

\* An acknowledgement prunes every event up to its own.
AckArrives(s) ==
  /\ s \in acks
  /\ pruned' = IF pruned < s THEN s ELSE pruned
  /\ acks' = {a \in acks : a > s}
  /\ UNCHANGED <<posted, next, connVars, frames, handler, delivery, blocked, history>>

-----------------------------------------------------------------------------
(* The socket *)

\* A new connection replays everything the relay still holds; what has not
\* arrived on the old one by now is lost.
Opens ==
  /\ sock = "connecting"
  /\ sock' = "open" /\ next' = pruned + 1 /\ acks' = {}
  /\ UNCHANGED <<posted, pruned, life, timer, frames, handler, delivery, blocked, history>>

\* "message"
FrameArrives ==
  /\ sock = "open" /\ next <= posted /\ Len(frames) < MaxFrames
  /\ frames' = Append(frames, [seq |-> next, cur |-> TRUE])
  /\ next' = next + 1
  /\ UNCHANGED <<posted, pruned, acks, connVars, handler, delivery, blocked, history>>

\* A close frame came, or a heartbeat was missed: readyState leaves OPEN,
\* "close" is still to come.
StartsClosing ==
  /\ sock = "open" /\ sock' = "closing"
  /\ UNCHANGED <<relayVars, life, timer, frames, handler, delivery, blocked, history>>

\* The wait of a handler is cancelled, and it returns.
WaitsCancelled ==
  IF handler.at = "delivering" THEN [handler EXCEPT !.cur = FALSE] ELSE Idle

ClosesSilently ==
  /\ sock # "none" /\ sock' = "none"
  /\ frames' = [i \in DOMAIN frames |-> [frames[i] EXCEPT !.cur = FALSE]]
  /\ handler' = WaitsCancelled
  /\ UNCHANGED <<relayVars, life, timer, delivery, blocked, history>>

ClosesAfresh ==
  /\ sock # "none" /\ sock' = "none" /\ timer' = (life = "on")
  /\ frames' = [i \in DOMAIN frames |-> [frames[i] EXCEPT !.cur = FALSE]]
  /\ handler' = WaitsCancelled /\ delivery' = NoDelivery
  /\ UNCHANGED <<relayVars, life, blocked, history>>

\* "close", or "unexpected-response" while connecting: the delivery and the
\* blocked event survive.
Closes ==
  /\ sock # "none" /\ sock' = "none" /\ timer' = (life = "on")
  /\ frames' = [i \in DOMAIN frames |-> [frames[i] EXCEPT !.cur = FALSE]]
  /\ handler' = WaitsCancelled
  /\ UNCHANGED <<relayVars, life, delivery, blocked, history>>

Connect ==
  /\ timer /\ life = "on" /\ timer' = FALSE /\ sock' = "connecting"
  /\ UNCHANGED <<relayVars, life, frames, handler, delivery, blocked, history>>

-----------------------------------------------------------------------------
(* The frame handler *)

Live == life = "on" /\ handler.cur /\ sock = "open"   \* may go on after an await
Attempt(s, used) ==
  /\ handler' = [at |-> "delivering", seq |-> s, cur |-> TRUE]
  /\ delivery' = [seq |-> s, due |-> FALSE,
                  attempts |-> IF used < Budget THEN used + 1 ELSE used]

\* The head frame is of a stopped connection, an older socket, or behind the
\* event that owns the queue.
Ignored(f) == \/ life # "on" \/ ~f.cur
              \/ delivery.seq \notin {0, f.seq}
              \/ blocked \notin {0, f.seq}

FrameIgnored ==
  /\ handler = Idle /\ frames # <<>> /\ Ignored(Head(frames))
  /\ frames' = Tail(frames)
  /\ UNCHANGED <<relayVars, connVars, handler, delivery, blocked, history>>

\* Blocked since before a reconnect: wait for the guardian.
FrameHeld ==
  /\ handler = Idle /\ frames # <<>> /\ ~Ignored(Head(frames))
  /\ blocked # 0
  /\ handler' = [at |-> "held", seq |-> Head(frames).seq, cur |-> TRUE]
  /\ frames' = Tail(frames)
  /\ UNCHANGED <<relayVars, connVars, delivery, blocked, history>>

\* deliverWithRetries() takes the delivery over, waits out a deadline that has
\* not passed, and attempts if the socket is still open.
FrameTaken ==
  /\ handler = Idle /\ frames # <<>> /\ ~Ignored(Head(frames))
  /\ blocked = 0
  /\ LET s == Head(frames).seq
         taken == [delivery EXCEPT !.seq = s]
     IN \/ /\ delivery.due /\ delivery' = taken
           /\ handler' = [at |-> "waiting", seq |-> s, cur |-> TRUE]
        \/ sock = "open" /\ Attempt(s, delivery.attempts)
        \/ /\ sock # "open" /\ delivery' = [taken EXCEPT !.due = FALSE]
           /\ UNCHANGED handler
  /\ frames' = Tail(frames)
  /\ UNCHANGED <<relayVars, connVars, blocked, history>>

HandleFrame == FrameIgnored \/ FrameHeld \/ FrameTaken

\* The deadline of a retry: it has passed also for whoever takes over.
WaitElapses ==
  /\ handler.at = "waiting"
  /\ IF Live THEN Attempt(handler.seq, delivery.attempts)
             ELSE handler' = Idle /\ delivery' = [delivery EXCEPT !.due = FALSE]
  /\ UNCHANGED <<relayVars, connVars, frames, blocked, history>>

AnswersAckingTheNext ==
  /\ handler.at = "delivering"
  /\ settled' = settled \union {handler.seq}
  /\ failures' = [failures EXCEPT ![handler.seq] = 0]
  /\ delivery' = NoDelivery /\ handler' = Idle
  /\ acks' = IF Live THEN acks \union {handler.seq + 1} ELSE acks
  /\ UNCHANGED <<posted, pruned, next, connVars, frames, blocked, skipped>>

\* 2xx, or a 4xx that is not transient: over, and acknowledged if the socket
\* the frame came on is still the open one.
Answered ==
  /\ handler.at = "delivering"
  /\ settled' = settled \union {handler.seq}
  /\ failures' = [failures EXCEPT ![handler.seq] = 0]
  /\ delivery' = NoDelivery /\ handler' = Idle
  /\ acks' = IF handler.cur /\ sock = "open" THEN acks \union {handler.seq} ELSE acks
  /\ UNCHANGED <<posted, pruned, next, connVars, frames, blocked, skipped>>

FailedOnce ==
  failures' = [failures EXCEPT ![handler.seq] = IF @ < Budget THEN @ + 1 ELSE @]

\* Anything else, on a connection that is gone or stopped: the handler returns
\* before it compares the attempts with the budget. (Stop made it fresh.)
FailsLate ==
  /\ handler.at = "delivering" /\ ~Live
  /\ handler' = Idle
  /\ IF life = "on" THEN FailedOnce ELSE UNCHANGED failures
  /\ UNCHANGED <<relayVars, connVars, frames, delivery, blocked, settled, skipped>>

FailsAndRetries ==
  /\ handler.at = "delivering" /\ Live /\ delivery.attempts < Budget
  /\ handler' = [handler EXCEPT !.at = "waiting"]
  /\ delivery' = [delivery EXCEPT !.due = TRUE]
  /\ FailedOnce
  /\ UNCHANGED <<relayVars, connVars, frames, blocked, settled, skipped>>

FailsAndReturns ==
  /\ handler.at = "delivering" /\ Live /\ delivery.attempts = Budget
  /\ handler' = Idle
  /\ delivery' = NoDelivery /\ blocked' = handler.seq
  /\ FailedOnce
  /\ UNCHANGED <<relayVars, connVars, frames, settled, skipped>>

FailsAndBlocks ==
  /\ handler.at = "delivering" /\ Live /\ delivery.attempts = Budget
  /\ handler' = [handler EXCEPT !.at = "held"]
  /\ delivery' = NoDelivery /\ blocked' = handler.seq
  /\ FailedOnce
  /\ UNCHANGED <<relayVars, connVars, frames, settled, skipped>>

-----------------------------------------------------------------------------
(* The guardian, and the process *)

\* resumeBlocked(), with the handler at the gate or before the replay came.
Resume ==
  /\ life = "on" /\ blocked # 0
  /\ blocked' = 0 /\ failures' = NoFailures
  /\ IF handler.at = "held" /\ sock = "open"
     THEN Attempt(handler.seq, 0)
     ELSE handler.at # "held" /\ UNCHANGED <<handler, delivery>>
  /\ UNCHANGED <<relayVars, connVars, frames, settled, skipped>>

\* The same, but the handler finds its socket closing and returns: the frames
\* behind it are no longer held back.
ResumeLate ==
  /\ life = "on" /\ blocked # 0
  /\ handler.at = "held" /\ sock # "open"
  /\ blocked' = 0 /\ failures' = NoFailures
  /\ handler' = Idle /\ skipped' = skipped \union {handler.seq}
  /\ UNCHANGED <<relayVars, connVars, frames, delivery, settled>>

Stop ==
  /\ life = "on"
  /\ life' = "stopping" /\ timer' = FALSE
  /\ handler' = IF handler.at = "delivering" THEN handler ELSE Idle
  /\ delivery' = NoDelivery /\ blocked' = 0 /\ failures' = NoFailures
  /\ UNCHANGED <<relayVars, sock, frames, settled, skipped>>

\* The queue is through: the socket goes.
Stopped ==
  /\ life = "stopping" /\ handler = Idle
  /\ life' = "off" /\ sock' = "none"
  /\ UNCHANGED <<relayVars, timer, frames, handler, delivery, blocked, history>>

\* A new DrainConnection: at boot, and after the stop of a reload.
Start ==
  /\ life = "off"
  /\ life' = "on" /\ sock' = "connecting"
  /\ UNCHANGED <<relayVars, timer, frames, handler, delivery, blocked, history>>

ProcessDies ==
  /\ life # "off"
  /\ life' = "off" /\ sock' = "none" /\ timer' = FALSE
  /\ frames' = <<>> /\ handler' = Idle /\ delivery' = NoDelivery /\ blocked' = 0
  /\ failures' = NoFailures
  /\ UNCHANGED <<relayVars, settled, skipped>>

-----------------------------------------------------------------------------
RelayStep == Post \/ (\E s \in Seqs : AckArrives(s))
SocketStep == Opens \/ FrameArrives \/ StartsClosing \/ Closes \/ Connect
HandlerStep == \/ WaitElapses \/ Answered
               \/ FailsLate \/ FailsAndRetries \/ FailsAndBlocks
LifeStep == Resume \/ ResumeLate \/ Stop \/ Stopped \/ Start

\* A callback runs once the queue is through, or waits with its head frame.
Settling == handler = Idle /\ frames # <<>>
Next == \/ HandleFrame
        \/ RelayStep
        \/ ProcessDies
        \/ ~Settling /\ (SocketStep \/ HandlerStep \/ LifeStep)

Spec == Init /\ [][Next]_vars

\* The queue runs, a request of the target ends, waits elapse, an armed timer
\* fires, a closing socket closes, a connection attempt ends, and the relay
\* sends what it holds. Nothing is assumed of the guardian, of stops or of what
\* the target answers.
FairSpec ==
  /\ Spec
  /\ WF_vars(HandleFrame) /\ WF_vars(~Settling /\ HandlerStep)
  /\ WF_vars(~Settling /\ Connect) /\ WF_vars(~Settling /\ FrameArrives)
  /\ WF_vars(sock = "connecting" /\ ~Settling /\ (Opens \/ Closes))
  /\ WF_vars(sock = "closing" /\ ~Settling /\ Closes)
-----------------------------------------------------------------------------
(* Properties *)

TypeOK ==
  /\ posted \in 0..N /\ pruned \in 0..N /\ next \in 1..(N + 1)
  /\ acks \subseteq Seqs
  /\ life \in {"on", "stopping", "off"}
  /\ sock \in {"none", "connecting", "open", "closing"} /\ timer \in BOOLEAN
  /\ frames \in Seq(Frame) /\ handler \in Handler
  /\ delivery \in Delivery /\ blocked \in Seqs \union {0}
  /\ settled \subseteq Seqs /\ skipped \subseteq Seqs
  /\ failures \in [Seqs -> Nat]

\* In order, again until it is over or waits for the guardian, and forgotten by
\* the relay only when over. What the drain does with sockets, retries, gates,
\* stops and crashes is an implementation of OrderedDelivery (drainer.ts:235,
\* concepts/index.md:30).
InOrder == INSTANCE OrderedDelivery WITH
             out <- IF handler.at = "delivering" THEN handler.seq ELSE 0,
             stuck <- blocked
DeliverySpec == InOrder!Spec

\* However the transport flaps, a retry is scheduled only for an event that has
\* failed less often than the budget allows, the failures that ended on a dead
\* socket included: no reconnect in any state makes the count fresh. (Such a
\* late failure is not examined itself, drainer.ts:503, so that a replay may
\* try the event once more for every reconnect, past the budget.)
BoundedRetries ==
  \A s \in Seqs : delivery.due /\ delivery.seq = s => failures[s] < Budget

\* "It never discards the un-acked event": what the relay has forgotten was
\* handled by the target, or rejected by it.
NeverDiscarded == \A s \in 1..pruned : s \in settled

\* A deposited event is settled once the network holds, unless it was resumed
\* on a closing socket, it or one before it waits for the guardian, or the drain
\* is stopped: no order of closes, replays, retries and stale answers wedges the
\* queue or the connection.
NetworkHolds == <>[][sock' \in {"connecting", "open"}]_sock
EveryEventSettles ==
  NetworkHolds => \A s \in Seqs :
    (posted >= s) ~> (s \in settled \union skipped \/ blocked # 0 \/ life # "on")
=============================================================================
