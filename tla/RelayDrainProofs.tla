-------------------------- MODULE RelayDrainProofs ---------------------------
(***************************************************************************)
(* Proofs about RelayDrain for any number of events, any budget and any    *)
(* length of the promise queue: the drain delivers in order, and schedules *)
(* no retry of an event that has failed as often as its budget.            *)
(***************************************************************************)
EXTENDS RelayDrain, SequenceTheorems, TLAPS

Done == settled \union skipped
Over(s) == \A t \in 1..(s - 1) : t \in Done
Up == sock \in {"open", "closing"}
Queued(t) == \E i \in 1..Len(frames) : frames[i].cur /\ frames[i].seq = t

\* A delivery, a gate and an armed timer belong to a drain that is on.
LifeInv ==
  /\ timer => sock = "none"
  /\ life # "on" => /\ delivery = NoDelivery /\ blocked = 0
                    /\ failures = NoFailures /\ timer = FALSE
  /\ life = "off" => sock = "none" /\ frames = <<>> /\ handler = Idle

\* The frames of the live socket are the last ones, and end before `next`.
FrameInv ==
  \A i \in 1..Len(frames) : frames[i].cur =>
    /\ Up /\ frames[i].seq + (Len(frames) - i) + 1 = next
    /\ \A j \in i..Len(frames) : frames[j].cur

\* What is being handled came after everything before it was over; on the live
\* socket the frames behind it are all still in the queue.
HandlerInv ==
  /\ handler.at = "idle" => handler = Idle
  /\ handler.at # "idle" => handler.seq \in 1..posted /\ Over(handler.seq)
  /\ handler.at \in {"waiting", "held"} => handler.cur /\ life = "on"
  /\ handler.at # "idle" /\ handler.cur =>
       /\ Up /\ handler.seq + Len(frames) + 1 = next
       /\ \A i \in 1..Len(frames) : frames[i].cur

\* The owner of the queue is the event handled, or what one left behind.
OwnerInv ==
  /\ delivery.seq = 0 \/ blocked = 0
  /\ delivery.seq <= posted /\ Over(delivery.seq)
  /\ blocked <= posted /\ Over(blocked)
  /\ handler.at \in {"delivering", "waiting"} /\ life = "on" =>
       delivery.seq = handler.seq
  /\ handler.at = "held" => blocked = handler.seq

\* The relay forgets, and is told, only what is over.
RelayInv ==
  /\ next <= posted + 1
  /\ pruned <= posted /\ Over(pruned + 1)
  /\ \A a \in acks : a <= posted /\ Over(a + 1)

\* No acknowledgement reaches what is still to be handled: after a reconnect a
\* blocked event comes again, before any event behind it.
Ahead(s) == pruned < s /\ \A a \in acks : a < s
AckInv ==
  /\ blocked # 0 => Ahead(blocked)
  /\ handler.at # "idle" /\ handler.cur => Ahead(handler.seq)
  /\ Up => Ahead(next)
  /\ \A i \in 1..Len(frames) : frames[i].cur => Ahead(frames[i].seq)

\* Nothing sent on the connection is lost: it is over, queued, being handled,
\* or not before the delivery that will be taken over.
OrderInv ==
  life = "on" /\ Up =>
    /\ \A t \in 1..(next - 1) :
         \/ t \in Done \/ Queued(t)
         \/ handler.at # "idle" /\ handler.cur /\ t = handler.seq
         \/ handler.at = "idle" /\ delivery.seq # 0 /\ t >= delivery.seq
    /\ handler.at = "idle" /\ blocked # 0 => next <= blocked \/ Queued(blocked)

\* Failures are counted by the budget of the event that owns the queue; one
\* that was not examined leaves a budget that the next attempt finds spent.
RetryInv ==
  /\ handler.at = "delivering" => ~delivery.due
  /\ \A s \in Seqs :
       /\ s \notin {delivery.seq, blocked} => failures[s] = 0
       /\ s = delivery.seq =>
            /\ failures[s] <= delivery.attempts
            /\ delivery.due => failures[s] < Budget
            /\ handler.at = "delivering" =>
                 failures[s] < delivery.attempts \/ delivery.attempts = Budget

Bookkeeping == /\ LifeInv /\ FrameInv /\ HandlerInv /\ OwnerInv
               /\ RelayInv /\ AckInv /\ OrderInv /\ RetryInv
IInv == TypeOK /\ Bookkeeping

(* Sequences of frames *)

LEMMA FramesLeave ==
  ASSUME NEW q \in Seq(Frame), q # <<>>
  PROVE  /\ Head(q) = q[1] /\ Head(q) \in Frame
         /\ Tail(q) \in Seq(Frame) /\ Len(Tail(q)) = Len(q) - 1
         /\ \A i \in 1..(Len(q) - 1) : Tail(q)[i] = q[i + 1]
OBVIOUS

LEMMA FramesGoStale ==
  ASSUME NEW q \in Seq(Frame),
         NEW r, r = [i \in DOMAIN q |-> [q[i] EXCEPT !.cur = FALSE]]
  PROVE  /\ r \in Seq(Frame) /\ Len(r) = Len(q)
         /\ \A i \in 1..Len(r) : ~r[i].cur
<1>1. DOMAIN q = 1..Len(q) /\ Len(q) \in Nat
  OBVIOUS
<1>2. \A i \in 1..Len(q) : q[i] \in Frame
  OBVIOUS
<1>3. \A i \in 1..Len(q) : /\ [q[i] EXCEPT !.cur = FALSE] \in Frame
                           /\ [q[i] EXCEPT !.cur = FALSE].cur = FALSE
  BY <1>2 DEF Frame
<1>4. r \in [1..Len(q) -> Frame] /\ \A i \in 1..Len(q) : ~r[i].cur
  BY <1>1, <1>3
<1>5. r \in Seq(Frame) /\ Len(r) = Len(q)
  BY <1>1, <1>4, SeqDef
<1> QED BY <1>4, <1>5

LEMMA FrameJoins ==
  ASSUME NEW q \in Seq(Frame), NEW f \in Frame
  PROVE  /\ Append(q, f) \in Seq(Frame) /\ Len(Append(q, f)) = Len(q) + 1
         /\ \A i \in 1..Len(q) : Append(q, f)[i] = q[i]
         /\ Append(q, f)[Len(q) + 1] = f
OBVIOUS

(* Types *)

LEMMA Resting ==
  Idle \in Handler /\ NoDelivery \in Delivery /\ NoFailures \in [Seqs -> Nat]
BY DrainAssumption DEF DrainAssumption, Idle, Handler, NoDelivery, Delivery, NoFailures

LEMMA HandledIsPosted ==
  ASSUME TypeOK, HandlerInv, handler.at # "idle" PROVE handler.seq \in Seqs
BY DrainAssumption DEF DrainAssumption, TypeOK, HandlerInv, Seqs

LEMMA AttemptType ==
  ASSUME NEW s \in Seqs, NEW used \in 0..Budget, Attempt(s, used)
  PROVE  handler' \in Handler /\ delivery' \in Delivery
BY DrainAssumption DEF DrainAssumption, Attempt, Handler, Delivery

LEMMA TypeStep == IInv /\ [Next]_vars => TypeOK'
<1> SUFFICES ASSUME IInv, [Next]_vars PROVE TypeOK'
  OBVIOUS
<1> USE DrainAssumption DEF DrainAssumption, IInv, Bookkeeping, TypeOK, relayVars,
     connVars, history
<1>0. handler.at # "idle" => handler.seq \in Seqs
  BY HandledIsPosted
<1>1. CASE Post
  BY <1>1 DEF Post
<1>2. ASSUME NEW s \in Seqs, AckArrives(s) PROVE TypeOK'
  <2>1. s \in 0..N
    BY DEF Seqs
  <2>2. {a \in acks : a > s} \subseteq Seqs
    OBVIOUS
  <2> QED BY <1>2, <2>1, <2>2 DEF AckArrives
<1>3. CASE Opens
  BY <1>3 DEF Opens
<1>4. CASE FrameArrives
  <2>1. [seq |-> next, cur |-> TRUE] \in Frame /\ next + 1 \in 1..(N + 1)
    BY <1>4 DEF FrameArrives, Frame, Seqs
  <2> QED BY <1>4, <2>1, FrameJoins DEF FrameArrives
<1>5. CASE StartsClosing
  BY <1>5 DEF StartsClosing
<1>6. CASE Closes
  <2>1. handler' \in Handler
    BY <1>6, Resting DEF Closes, WaitsCancelled, Handler
  <2>2. frames' \in Seq(Frame)
    BY <1>6, FramesGoStale DEF Closes
  <2> QED BY <1>6, <2>1, <2>2 DEF Closes
<1>7. CASE Connect
  BY <1>7 DEF Connect
<1>8. CASE FrameIgnored
  BY <1>8, FramesLeave DEF FrameIgnored
<1>9. CASE FrameHeld
  BY <1>9, FramesLeave DEF FrameHeld, Handler, Frame
<1>10. CASE FrameTaken
  <2> DEFINE f == Head(frames)
  <2>1. f \in Frame /\ Tail(frames) \in Seq(Frame)
    BY <1>10, FramesLeave DEF FrameTaken
  <2>2. f.seq \in Seqs /\ delivery.attempts \in 0..Budget
    BY <2>1 DEF Frame, Delivery
  <2>3. handler' \in Handler /\ delivery' \in Delivery
    <3>1. CASE Attempt(f.seq, delivery.attempts)
      BY <2>2, <3>1, AttemptType
    <3>2. ASSUME delivery' = [delivery EXCEPT !.seq = f.seq],
                 handler' = [at |-> "waiting", seq |-> f.seq, cur |-> TRUE]
          PROVE  handler' \in Handler /\ delivery' \in Delivery
      BY <2>2, <3>2 DEF Handler, Delivery
    <3>3. ASSUME delivery' = [[delivery EXCEPT !.seq = f.seq] EXCEPT !.due = FALSE],
                 handler' = handler
          PROVE  handler' \in Handler /\ delivery' \in Delivery
      BY <2>2, <3>3 DEF Delivery
    <3> QED BY <1>10, <3>1, <3>2, <3>3 DEF FrameTaken
  <2> QED BY <1>10, <2>1, <2>3 DEF FrameTaken
<1>11. CASE WaitElapses
  <2>1. handler' \in Handler /\ delivery' \in Delivery
    <3>1. handler.seq \in Seqs /\ delivery.attempts \in 0..Budget
      BY <1>0, <1>11 DEF WaitElapses, Delivery
    <3>2. CASE Live
      BY <1>11, <3>1, <3>2, AttemptType DEF WaitElapses
    <3>3. CASE ~Live
      BY <1>11, <3>3, Resting DEF WaitElapses, Delivery
    <3> QED BY <3>2, <3>3
  <2> QED BY <1>11, <2>1 DEF WaitElapses
<1>12. CASE Answered
  <2>1. handler.seq \in Seqs
    BY <1>0, <1>12 DEF Answered
  <2>2. failures' \in [Seqs -> Nat] /\ settled' \subseteq Seqs /\ acks' \subseteq Seqs
    BY <1>12, <2>1 DEF Answered
  <2> QED BY <1>12, <2>2, Resting DEF Answered
<1>13. CASE FailsLate
  <2>1. failures' \in [Seqs -> Nat]
    BY <1>13, <1>0 DEF FailsLate, FailedOnce
  <2> QED BY <1>13, <2>1, Resting DEF FailsLate
<1>14. CASE FailsAndRetries
  <2>1. handler' \in Handler /\ delivery' \in Delivery
    BY <1>14 DEF FailsAndRetries, Handler, Delivery
  <2>2. failures' \in [Seqs -> Nat]
    BY <1>14, <1>0 DEF FailsAndRetries, FailedOnce
  <2> QED BY <1>14, <2>1, <2>2 DEF FailsAndRetries
<1>15. CASE FailsAndBlocks
  <2>1. handler' \in Handler
    BY <1>15 DEF FailsAndBlocks, Handler
  <2>2. failures' \in [Seqs -> Nat] /\ blocked' \in Seqs
    BY <1>15, <1>0 DEF FailsAndBlocks, FailedOnce
  <2> QED BY <1>15, <2>1, <2>2, Resting DEF FailsAndBlocks
<1>16. CASE Resume
  <2>1. handler' \in Handler /\ delivery' \in Delivery
    <3>1. CASE handler.at = "held" /\ sock = "open"
      <4>1. handler.seq \in Seqs /\ 0 \in 0..Budget
        BY <1>0, <3>1
      <4> QED BY <1>16, <3>1, <4>1, AttemptType DEF Resume
    <3>2. CASE ~(handler.at = "held" /\ sock = "open")
      BY <1>16, <3>2 DEF Resume
    <3> QED BY <3>1, <3>2
  <2> QED BY <1>16, <2>1, Resting DEF Resume
<1>17. CASE ResumeLate
  BY <1>17, <1>0, Resting DEF ResumeLate
<1>18. CASE Stop
  BY <1>18, Resting DEF Stop
<1>19. CASE Stopped
  BY <1>19 DEF Stopped
<1>20. CASE Start
  BY <1>20 DEF Start
<1>21. CASE ProcessDies
  <2>1. <<>> \in Seq(Frame)
    OBVIOUS
  <2> QED BY <1>21, <2>1, Resting DEF ProcessDies
<1>22. CASE UNCHANGED vars
  BY <1>22 DEF vars
<1> QED
  BY <1>1, <1>2, <1>3, <1>4, <1>5, <1>6, <1>7, <1>8, <1>9, <1>10, <1>11, <1>12, <1>13,
     <1>14, <1>15, <1>16, <1>17, <1>18, <1>19, <1>20, <1>21, <1>22
     DEF Next, HandleFrame, RelayStep, SocketStep, HandlerStep, LifeStep

-----------------------------------------------------------------------------
(* The queue loses its head *)

LEMMA FramesTyped ==
  ASSUME TypeOK
  PROVE  \A i \in 1..Len(frames) : frames[i] \in Frame /\ frames[i].seq \in Nat
<1>1. \A i \in 1..Len(frames) : frames[i] \in Frame
  BY DEF TypeOK
<1> QED BY <1>1 DEF Frame, Seqs

\* What is behind the head of the queue stays as it was; behind a head of the
\* live socket is everything that was sent after it.
LEMMA HeadLeaves ==
  ASSUME TypeOK, FrameInv, AckInv, frames # <<>>, frames' = Tail(frames),
         UNCHANGED <<relayVars, sock>>
  PROVE  /\ FrameInv'
         /\ (\A i \in 1..Len(frames) : frames[i].cur => Ahead(frames[i].seq))'
         /\ \A t \in Nat : Queued(t) => \/ Queued(t)'
                                        \/ Head(frames).cur /\ t = Head(frames).seq
         /\ Head(frames) \in Frame
         /\ Head(frames).cur =>
              /\ Up /\ Head(frames).seq + Len(frames') + 1 = next
              /\ \A i \in 1..Len(frames') : frames'[i].cur
              /\ Ahead(Head(frames).seq)
              /\ \A t \in (Head(frames).seq + 1)..(next - 1) : Queued(t)'
              /\ \A t \in Nat : Queued(t) => t >= Head(frames).seq
<1> DEFINE n == Len(frames)
<1>1. /\ n \in Nat \ {0} /\ Len(frames') = n - 1 /\ Head(frames) = frames[1]
      /\ \A i \in 1..(n - 1) : frames'[i] = frames[i + 1]
      /\ next \in Nat /\ Head(frames) \in Frame /\ \A i \in 1..n : frames[i] \in Frame
  BY FramesLeave DEF TypeOK
<1>2. \A i \in 1..n : frames[i].seq \in Nat
  BY <1>1 DEF Frame, Seqs
<1> HIDE DEF n
<1>3. FrameInv'
  <2> SUFFICES ASSUME NEW i \in 1..(n - 1), frames'[i].cur
               PROVE  /\ Up /\ frames'[i].seq + ((n - 1) - i) + 1 = next
                      /\ \A j \in i..(n - 1) : frames'[j].cur
    BY <1>1 DEF FrameInv, Up, relayVars
  <2>1. i + 1 \in 1..n /\ frames[i + 1].cur /\ frames'[i] = frames[i + 1]
    BY <1>1
  <2>2. /\ Up /\ frames[i + 1].seq + (n - (i + 1)) + 1 = next
        /\ \A j \in (i + 1)..n : frames[j].cur
    BY <2>1 DEF FrameInv, n
  <2>3. \A j \in i..(n - 1) : j + 1 \in (i + 1)..n /\ frames'[j] = frames[j + 1]
    BY <1>1
  <2> QED BY <1>1, <1>2, <2>1, <2>2, <2>3
<1>4. (\A i \in 1..Len(frames) : frames[i].cur => Ahead(frames[i].seq))'
  <2> SUFFICES ASSUME NEW i \in 1..(n - 1), frames'[i].cur PROVE Ahead(frames'[i].seq)
    BY <1>1 DEF Ahead, relayVars
  <2>1. i + 1 \in 1..n /\ frames[i + 1].cur /\ frames'[i] = frames[i + 1]
    BY <1>1
  <2> QED BY <2>1 DEF AckInv, n
<1>5. ASSUME NEW t \in Nat, Queued(t), ~(Head(frames).cur /\ t = Head(frames).seq)
      PROVE  Queued(t)'
  <2>1. PICK i \in 1..n : frames[i].cur /\ frames[i].seq = t
    BY <1>5 DEF Queued, n
  <2>2. i # 1
    BY <1>1, <1>5, <2>1
  <2>3. i - 1 \in 1..(n - 1) /\ frames'[i - 1] = frames[i]
    BY <1>1, <2>2
  <2> QED BY <1>1, <2>1, <2>3 DEF Queued
<1>6. ASSUME Head(frames).cur
      PROVE  /\ Up /\ Head(frames).seq + n = next
             /\ \A i \in 1..n : frames[i].cur /\ frames[i].seq = Head(frames).seq + i - 1
             /\ Ahead(Head(frames).seq)
  <2>1. \A i \in 1..n : frames[i].cur
    BY <1>1, <1>6 DEF FrameInv, n
  <2>2. \A i \in 1..n : Up /\ frames[i].seq + (n - i) + 1 = next
    BY <2>1 DEF FrameInv, n
  <2>3. Head(frames).seq + n = next /\ Up
    BY <1>1, <1>2, <2>2
  <2>4. Ahead(Head(frames).seq)
    BY <1>1, <1>6 DEF AckInv, n
  <2>5. \A i \in 1..n : frames[i].seq = Head(frames).seq + i - 1
    <3> SUFFICES ASSUME NEW i \in 1..n PROVE frames[i].seq = Head(frames).seq + i - 1
      OBVIOUS
    <3>1. frames[i].seq \in Nat /\ frames[1].seq \in Nat /\ 1 \in 1..n
      BY <1>1, <1>2
    <3>2. frames[i].seq + (n - i) + 1 = next /\ frames[1].seq + n = next
      BY <1>1, <2>2, <2>3
    <3> QED BY <1>1, <3>1, <3>2
  <2> QED BY <2>1, <2>3, <2>4, <2>5
<1>7. ASSUME Head(frames).cur
      PROVE  /\ \A i \in 1..Len(frames') : frames'[i].cur
             /\ \A t \in (Head(frames).seq + 1)..(next - 1) : Queued(t)'
             /\ \A t \in Nat : Queued(t) => t >= Head(frames).seq
  <2> DEFINE h == Head(frames).seq
  <2>1. h \in Nat
    BY <1>1, <1>2
  <2>2. \A i \in 1..(n - 1) : frames'[i].cur /\ frames'[i].seq = h + i
    BY <1>1, <1>6, <1>7, <2>1
  <2>3. ASSUME NEW t \in (h + 1)..(next - 1) PROVE Queued(t)'
    <3>1. t - h \in 1..(n - 1) /\ h + (t - h) = t
      BY <1>1, <1>6, <1>7, <2>1, <2>3
    <3> QED BY <1>1, <2>2, <3>1 DEF Queued
  <2>4. \A t \in Nat : Queued(t) => t >= h
    <3> SUFFICES ASSUME NEW t \in Nat, NEW i \in 1..n, frames[i].seq = t PROVE t >= h
      BY DEF Queued, n
    <3> QED BY <1>1, <1>6, <1>7, <2>1
  <2> QED BY <1>1, <2>2, <2>3, <2>4
<1>8. Head(frames).cur => Head(frames).seq + Len(frames') + 1 = next
  BY <1>1, <1>2, <1>6
<1>9. \A t \in Nat : Queued(t) => \/ Queued(t)'
                                  \/ Head(frames).cur /\ t = Head(frames).seq
  BY <1>5
<1> QED BY <1>1, <1>3, <1>4, <1>6, <1>7, <1>8, <1>9

\* The frame that is taken comes after everything before it is over.
LEMMA TakenInOrder ==
  ASSUME IInv, FrameTaken
  PROVE  Head(frames).seq <= posted /\ Over(Head(frames).seq)
<1> USE DrainAssumption DEF DrainAssumption, IInv, Bookkeeping, Seqs, Frame, Handler,
     Delivery, Idle, NoDelivery, NoFailures, Done, Over, Up, Queued, Ahead,
        relayVars, connVars, history
<1> DEFINE f == Head(frames)
<1>q. /\ FrameInv'
      /\ (\A i \in 1..Len(frames) : frames[i].cur => Ahead(frames[i].seq))'
      /\ \A t \in Nat : Queued(t) => Queued(t)' \/ (f.cur /\ t = f.seq)
      /\ f \in Frame
      /\ f.cur => /\ Up /\ f.seq + Len(frames') + 1 = next
                  /\ \A i \in 1..Len(frames') : frames'[i].cur
                  /\ Ahead(f.seq)
                  /\ \A t \in (f.seq + 1)..(next - 1) : Queued(t)'
                  /\ \A t \in Nat : Queued(t) => t >= f.seq
  BY HeadLeaves DEF FrameTaken
<1>a. /\ f.cur /\ life = "on" /\ blocked = 0 /\ handler = Idle
      /\ delivery.seq \in {0, f.seq}
      /\ UNCHANGED <<relayVars, connVars, blocked, settled, skipped, failures>>
  BY DEF FrameTaken, Ignored
<1>b. /\ f.seq \in Seqs /\ delivery \in Delivery /\ next \in Nat /\ posted \in Nat
       /\ Len(frames') \in Nat /\ failures \in [Seqs -> Nat]
  <2>1. delivery \in Delivery /\ next \in Nat /\ posted \in Nat
        /\ frames \in Seq(Frame) /\ failures \in [Seqs -> Nat]
    BY DrainAssumption DEF DrainAssumption, TypeOK
  <2>2. frames # <<>> /\ frames' = Tail(frames)
    BY DEF FrameTaken
  <2>3. Len(frames') \in Nat
    BY <2>1, <2>2
  <2>4. f.seq \in Seqs
    BY <1>q DEF Frame
  <2> QED BY <2>1, <2>3, <2>4
<1>d. f.seq <= posted /\ Over(f.seq)
  <2> HIDE DEF Queued, f
  <2>1. ASSUME NEW t \in 1..(f.seq - 1) PROVE t \in Done
    <3>1. CASE delivery.seq = 0
      <4>1. t \in 1..(next - 1) /\ ~Queued(t)
        BY <1>q, <1>a, <1>b
      <4> QED BY <1>q, <1>a, <3>1, <4>1 DEF OrderInv
    <3>2. CASE delivery.seq = f.seq
      BY <3>2 DEF OwnerInv
    <3> QED BY <1>a, <3>1, <3>2
  <2>2. f.seq <= posted
    BY <1>q, <1>a, <1>b DEF RelayInv
  <2> QED BY <2>1, <2>2
<1> QED BY <1>d

-----------------------------------------------------------------------------
(* Every step keeps the invariant: one lemma for each action *)

LEMMA PostKeeps ==
  ASSUME IInv, Post PROVE Bookkeeping'
<1> USE DrainAssumption DEF DrainAssumption, IInv, Bookkeeping, Seqs, Frame, Handler,
        Delivery, Idle, NoDelivery, NoFailures, Done, Over, Up, Queued, Ahead,
        relayVars, connVars, history
<1>1. LifeInv' /\ FrameInv' /\ AckInv' /\ OrderInv' /\ RetryInv'
  BY DEF Post, LifeInv, FrameInv, AckInv, OrderInv, RetryInv
<1>2. HandlerInv'
  BY DEF Post, HandlerInv, TypeOK
<1>3. OwnerInv'
  BY DEF Post, OwnerInv, TypeOK
<1>4. RelayInv'
  BY DEF Post, RelayInv, TypeOK
<1> QED BY <1>1, <1>2, <1>3, <1>4

LEMMA AckArrivesKeeps ==
  ASSUME IInv, NEW s \in Seqs, AckArrives(s) PROVE Bookkeeping'
<1> USE DrainAssumption DEF DrainAssumption, IInv, Bookkeeping, Seqs, Frame, Handler,
        Delivery, Idle, NoDelivery, NoFailures, Done, Over, Up, Queued, Ahead,
        relayVars, connVars, history
<1>1. LifeInv' /\ FrameInv' /\ HandlerInv' /\ OwnerInv' /\ RelayInv' /\ AckInv'
      /\ OrderInv' /\ RetryInv'
  BY DEF AckArrives, LifeInv, FrameInv, HandlerInv, OwnerInv, RelayInv, AckInv,
     OrderInv, RetryInv
<1> QED BY <1>1

LEMMA OpensKeeps ==
  ASSUME IInv, Opens PROVE Bookkeeping'
<1> USE DrainAssumption DEF DrainAssumption, IInv, Bookkeeping, Seqs, Frame, Handler,
        Delivery, Idle, NoDelivery, NoFailures, Done, Over, Up, Queued, Ahead,
        relayVars, connVars, history
<1>1. LifeInv' /\ FrameInv' /\ HandlerInv' /\ OwnerInv' /\ RetryInv'
  BY DEF Opens, LifeInv, FrameInv, HandlerInv, OwnerInv, RetryInv
<1>2. RelayInv'
  BY DEF Opens, RelayInv, TypeOK
<1>3. AckInv'
  BY DEF Opens, AckInv, TypeOK
<1>4. OrderInv'
  BY DEF Opens, OrderInv, TypeOK, LifeInv, FrameInv, HandlerInv, OwnerInv, RelayInv,
     AckInv, RetryInv
<1> QED BY <1>1, <1>2, <1>3, <1>4

LEMMA FrameArrivesKeeps ==
  ASSUME IInv, FrameArrives PROVE Bookkeeping'
<1> USE DrainAssumption DEF DrainAssumption, IInv, Bookkeeping, Seqs, Frame, Handler,
        Delivery, Idle, NoDelivery, NoFailures, Done, Over, Up, Queued, Ahead,
        relayVars, connVars, history
<1>q. /\ next \in Nat /\ Len(frames) \in Nat /\ Len(frames') = Len(frames) + 1
      /\ \A i \in 1..Len(frames) : frames'[i] = frames[i] /\ frames[i] \in Frame
      /\ frames'[Len(frames) + 1] = [seq |-> next, cur |-> TRUE]
  <2>1. [seq |-> next, cur |-> TRUE] \in Frame
    BY DEF FrameArrives, TypeOK
  <2>2. \A i \in 1..Len(frames) : frames[i] \in Frame
    BY FramesTyped
  <2>3. /\ frames \in Seq(Frame) /\ next \in Nat
        /\ frames' = Append(frames, [seq |-> next, cur |-> TRUE])
    BY DEF FrameArrives, TypeOK
  <2> HIDE DEF Frame
  <2> QED BY <2>1, <2>2, <2>3, FrameJoins
<1>a. /\ next' = next + 1 /\ next \in Nat
      /\ Len(frames) \in Nat /\ Len(frames') = Len(frames) + 1
  BY <1>q DEF FrameArrives
<1>1. LifeInv' /\ OwnerInv' /\ RetryInv'
  BY DEF FrameArrives, LifeInv, OwnerInv, RetryInv
<1>2. FrameInv'
  <2> SUFFICES ASSUME NEW i \in 1..(Len(frames) + 1), frames'[i].cur
               PROVE  /\ Up' /\ frames'[i].seq + (Len(frames) + 1 - i) + 1 = next'
                      /\ \A j \in i..(Len(frames) + 1) : frames'[j].cur
    BY <1>q DEF FrameInv
  <2>1. Up' /\ next' = next + 1
    BY DEF FrameArrives
  <2>2. CASE i = Len(frames) + 1
    BY <1>q, <2>1, <2>2
  <2>3. CASE i \in 1..Len(frames)
    <3>1. frames'[i] = frames[i] /\ frames[i].seq \in Nat
      BY <1>q, <2>3
    <3>2. /\ frames[i].seq + (Len(frames) - i) + 1 = next
          /\ \A j \in i..Len(frames) : frames[j].cur
      BY <2>3, <3>1 DEF FrameInv
    <3>3. ASSUME NEW j \in i..(Len(frames) + 1) PROVE frames'[j].cur
      <4>1. CASE j = Len(frames) + 1
        BY <1>q, <4>1
      <4>2. CASE j # Len(frames) + 1
        <5>1. j \in i..Len(frames) /\ j \in 1..Len(frames)
          BY <1>a, <2>3, <4>2
        <5> QED BY <1>q, <3>2, <5>1
      <4> QED BY <4>1, <4>2
    <3>4. frames[i].seq + (Len(frames) + 1 - i) + 1 = next'
      BY <1>a, <2>3, <3>1, <3>2
    <3> QED BY <2>1, <3>1, <3>3, <3>4
  <2> QED BY <1>q, <2>2, <2>3
<1>3. HandlerInv'
  <2>1. ASSUME handler.at # "idle", handler.cur
        PROVE  /\ handler.seq + Len(frames') + 1 = next'
               /\ \A i \in 1..Len(frames') : frames'[i].cur
    <3>1. /\ handler.seq + Len(frames) + 1 = next /\ \A i \in 1..Len(frames) : frames[i].cur
          /\ handler.seq \in Nat
      BY <2>1 DEF HandlerInv, TypeOK
    <3>2. handler.seq + Len(frames') + 1 = next + 1
      BY <1>a, <3>1
    <3>3. \A i \in 1..(Len(frames) + 1) : frames'[i].cur
      <4> SUFFICES ASSUME NEW i \in 1..(Len(frames) + 1) PROVE frames'[i].cur
        OBVIOUS
      <4>1. CASE i = Len(frames) + 1
        BY <1>q, <4>1
      <4>2. CASE i \in 1..Len(frames)
        BY <1>q, <3>1, <4>2
      <4> QED BY <1>q, <4>1, <4>2
    <3> QED BY <1>q, <3>2, <3>3 DEF FrameArrives
  <2> QED BY <2>1 DEF FrameArrives, HandlerInv
<1>4. RelayInv'
  BY DEF FrameArrives, RelayInv, TypeOK
<1>5. AckInv'
  BY DEF FrameArrives, AckInv, TypeOK
<1>6. OrderInv'
  <2>1. \A t \in Nat : Queued(t) => Queued(t)'
    BY <1>q
  <2>2. \A t \in Nat : t = next => Queued(t)'
    BY <1>q
  <2>3. /\ next' = next + 1
        /\ UNCHANGED <<life, sock, handler, delivery, blocked, settled, skipped>>
    BY DEF FrameArrives
  <2>4. blocked \in Nat
    BY DEF TypeOK
  <2> HIDE DEF Queued
  <2>5. ASSUME life = "on", Up, NEW t \in 1..next
        PROVE  \/ t \in Done \/ Queued(t)'
               \/ handler.at # "idle" /\ handler.cur /\ t = handler.seq
               \/ handler.at = "idle" /\ delivery.seq # 0 /\ t >= delivery.seq
    <3>1. CASE t = next
      BY <1>q, <2>2, <3>1
    <3>2. CASE t # next
      <4>1. t \in 1..(next - 1) /\ t \in Nat
        BY <1>q, <3>2
      <4> QED BY <2>1, <2>5, <4>1 DEF OrderInv
    <3> QED BY <3>1, <3>2
  <2>6. ASSUME life = "on", Up, handler.at = "idle", blocked # 0
        PROVE  next + 1 <= blocked \/ Queued(blocked)'
    <3>1. next <= blocked \/ Queued(blocked)
      BY <2>6 DEF OrderInv
    <3>2. ASSUME NEW t \in Nat, t = blocked, Queued(t) \/ t = next PROVE Queued(t)'
      BY <2>1, <2>2, <3>2
    <3>3. CASE next + 1 <= blocked
      BY <3>3
    <3>4. CASE ~(next + 1 <= blocked)
      <4>1. Queued(blocked) \/ blocked = next
        BY <1>q, <2>4, <3>1, <3>4
      <4> QED BY <2>3, <2>4, <3>2, <4>1
    <3> QED BY <3>3, <3>4
  <2> QED BY <1>q, <2>3, <2>5, <2>6 DEF OrderInv
<1> QED BY <1>1, <1>2, <1>3, <1>4, <1>5, <1>6

LEMMA StartsClosingKeeps ==
  ASSUME IInv, StartsClosing PROVE Bookkeeping'
<1> USE DrainAssumption DEF DrainAssumption, IInv, Bookkeeping, Seqs, Frame, Handler,
        Delivery, Idle, NoDelivery, NoFailures, Done, Over, Up, Queued, Ahead,
        relayVars, connVars, history
<1>1. LifeInv' /\ FrameInv' /\ HandlerInv' /\ OwnerInv' /\ RelayInv' /\ AckInv'
      /\ OrderInv' /\ RetryInv'
  BY DEF StartsClosing, LifeInv, FrameInv, HandlerInv, OwnerInv, RelayInv, AckInv,
     OrderInv, RetryInv
<1> QED BY <1>1

LEMMA ClosesKeeps ==
  ASSUME IInv, Closes PROVE Bookkeeping'
<1> USE DrainAssumption DEF DrainAssumption, IInv, Bookkeeping, Seqs, Frame, Handler,
        Delivery, Idle, NoDelivery, NoFailures, Done, Over, Up, Queued, Ahead,
        relayVars, connVars, history
<1>1. LifeInv'
  BY DEF Closes, WaitsCancelled, LifeInv
<1>2. FrameInv'
  BY DEF Closes, WaitsCancelled, FrameInv
<1>3. HandlerInv'
  BY DEF Closes, WaitsCancelled, HandlerInv
<1>4. OwnerInv'
  BY DEF Closes, WaitsCancelled, OwnerInv
<1>5. RelayInv'
  BY DEF Closes, WaitsCancelled, RelayInv
<1>6. AckInv'
  BY DEF Closes, WaitsCancelled, AckInv
<1>7. OrderInv'
  BY DEF Closes, WaitsCancelled, OrderInv
<1>8. RetryInv'
  BY DEF Closes, WaitsCancelled, RetryInv
<1> QED BY <1>1, <1>2, <1>3, <1>4, <1>5, <1>6, <1>7, <1>8

LEMMA ConnectKeeps ==
  ASSUME IInv, Connect PROVE Bookkeeping'
<1> USE DrainAssumption DEF DrainAssumption, IInv, Bookkeeping, Seqs, Frame, Handler,
        Delivery, Idle, NoDelivery, NoFailures, Done, Over, Up, Queued, Ahead,
        relayVars, connVars, history
<1>1. LifeInv' /\ OwnerInv' /\ RelayInv' /\ AckInv' /\ OrderInv' /\ RetryInv'
  BY DEF Connect, LifeInv, OwnerInv, RelayInv, AckInv, OrderInv, RetryInv
<1>2. FrameInv'
  BY DEF Connect, FrameInv, TypeOK, LifeInv, HandlerInv
<1>3. HandlerInv'
  BY DEF Connect, HandlerInv, TypeOK, LifeInv
<1> QED BY <1>1, <1>2, <1>3

LEMMA FrameIgnoredKeeps ==
  ASSUME IInv, FrameIgnored PROVE Bookkeeping'
<1> USE DrainAssumption DEF DrainAssumption, IInv, Bookkeeping, Seqs, Frame, Handler,
        Delivery, Idle, NoDelivery, NoFailures, Done, Over, Up, Queued, Ahead,
        relayVars, connVars, history
<1> DEFINE f == Head(frames)
<1>q. /\ FrameInv'
      /\ (\A i \in 1..Len(frames) : frames[i].cur => Ahead(frames[i].seq))'
      /\ \A t \in Nat : Queued(t) => Queued(t)' \/ (f.cur /\ t = f.seq)
      /\ f \in Frame
      /\ f.cur => /\ Up /\ f.seq + Len(frames') + 1 = next
                  /\ \A i \in 1..Len(frames') : frames'[i].cur
                  /\ Ahead(f.seq)
                  /\ \A t \in (f.seq + 1)..(next - 1) : Queued(t)'
                  /\ \A t \in Nat : Queued(t) => t >= f.seq
  BY HeadLeaves DEF FrameIgnored
<1>1. LifeInv' /\ HandlerInv' /\ OwnerInv' /\ RelayInv' /\ RetryInv'
  BY DEF FrameIgnored, Ignored, LifeInv, HandlerInv, OwnerInv, RelayInv, RetryInv
<1>2. FrameInv'
  BY <1>q
<1>3. AckInv'
  BY <1>q DEF FrameIgnored, AckInv
<1>4. OrderInv'
  <2> USE <1>q DEF FrameIgnored
  <2> HIDE DEF Queued, f
  <2>1. f.seq \in Nat /\ blocked \in Nat /\ delivery.seq \in Nat /\ next \in Nat
    BY DEF TypeOK
  <2>2. ASSUME life = "on", f.cur
        PROVE  /\ f.seq \in Done \/ (delivery.seq # 0 /\ f.seq >= delivery.seq)
               /\ f.seq # blocked
    <3>1. Up /\ f.seq < next
      BY <2>1, <2>2
    <3>2. f.seq # blocked
      BY <2>2 DEF Ignored, OwnerInv, f
    <3>3. CASE delivery.seq \notin {0, f.seq}
      BY <2>1, <3>2, <3>3 DEF OwnerInv
    <3>4. CASE blocked \notin {0, f.seq}
      BY <2>1, <2>2, <3>1, <3>4 DEF OwnerInv, OrderInv
    <3> QED BY <2>2, <3>2, <3>3, <3>4 DEF Ignored, f
  <2>3. ASSUME life = "on", Up, NEW t \in 1..(next - 1)
        PROVE  t \in Done \/ Queued(t)' \/ (delivery.seq # 0 /\ t >= delivery.seq)
    BY <2>1, <2>2, <2>3 DEF OrderInv
  <2>4. ASSUME life = "on", Up, blocked # 0
        PROVE  next <= blocked \/ Queued(blocked)'
    BY <2>1, <2>2, <2>4 DEF OrderInv
  <2> QED BY <2>3, <2>4 DEF OrderInv
<1> QED BY <1>1, <1>2, <1>3, <1>4

LEMMA FrameHeldKeeps ==
  ASSUME IInv, FrameHeld PROVE Bookkeeping'
<1> USE DrainAssumption DEF DrainAssumption, IInv, Bookkeeping, Seqs, Frame, Handler,
        Delivery, Idle, NoDelivery, NoFailures, Done, Over, Up, Queued, Ahead,
        relayVars, connVars, history
<1> DEFINE f == Head(frames)
<1>q. /\ FrameInv'
      /\ (\A i \in 1..Len(frames) : frames[i].cur => Ahead(frames[i].seq))'
      /\ \A t \in Nat : Queued(t) => Queued(t)' \/ (f.cur /\ t = f.seq)
      /\ f \in Frame
      /\ f.cur => /\ Up /\ f.seq + Len(frames') + 1 = next
                  /\ \A i \in 1..Len(frames') : frames'[i].cur
                  /\ Ahead(f.seq)
                  /\ \A t \in (f.seq + 1)..(next - 1) : Queued(t)'
                  /\ \A t \in Nat : Queued(t) => t >= f.seq
  BY HeadLeaves DEF FrameHeld
<1>1. LifeInv' /\ OwnerInv' /\ RelayInv' /\ RetryInv'
  BY DEF FrameHeld, Ignored, LifeInv, OwnerInv, RelayInv, RetryInv
<1>2. FrameInv'
  BY <1>q
<1>3. HandlerInv'
  <2>1. /\ f.cur /\ blocked = f.seq /\ life = "on" /\ f.seq \in 1..posted
        /\ handler' = [at |-> "held", seq |-> f.seq, cur |-> TRUE]
    <3>1. /\ f.cur /\ blocked = f.seq /\ life = "on" /\ f.seq \in Nat \ {0}
          /\ handler' = [at |-> "held", seq |-> f.seq, cur |-> TRUE]
      BY <1>q DEF FrameHeld, Ignored
    <3> QED BY <3>1 DEF OwnerInv, TypeOK
  <2>2. Over(f.seq)
    BY <2>1 DEF OwnerInv
  <2>3. UNCHANGED <<relayVars, connVars, settled, skipped>>
    BY DEF FrameHeld
  <2> QED BY <1>q, <2>1, <2>2, <2>3 DEF HandlerInv
<1>4. AckInv'
  BY <1>q DEF FrameHeld, Ignored, AckInv
<1>5. OrderInv'
  <2>1. /\ f.cur /\ blocked = f.seq /\ delivery.seq = 0
        /\ handler' = [at |-> "held", seq |-> f.seq, cur |-> TRUE]
    BY DEF FrameHeld, Ignored, OwnerInv
  <2>2. /\ UNCHANGED <<life, sock, next, delivery, blocked, settled, skipped>>
        /\ handler = Idle
    BY DEF FrameHeld
  <2> HIDE DEF Queued, f
  <2>3. ASSUME life = "on", NEW t \in 1..(next - 1)
        PROVE  t \in Done \/ Queued(t)' \/ t = f.seq
    BY <1>q, <2>1, <2>2, <2>3 DEF OrderInv, TypeOK
  <2> QED BY <2>1, <2>2, <2>3 DEF OrderInv
<1> QED BY <1>1, <1>2, <1>3, <1>4, <1>5

LEMMA FrameTakenKeeps ==
  ASSUME IInv, FrameTaken PROVE Bookkeeping'
<1> USE DrainAssumption DEF DrainAssumption, IInv, Bookkeeping, Seqs, Frame, Handler,
        Delivery, Idle, NoDelivery, NoFailures, Done, Over, Up, Queued, Ahead,
        relayVars, connVars, history
<1> DEFINE f == Head(frames)
<1>q. /\ FrameInv'
      /\ (\A i \in 1..Len(frames) : frames[i].cur => Ahead(frames[i].seq))'
      /\ \A t \in Nat : Queued(t) => Queued(t)' \/ (f.cur /\ t = f.seq)
      /\ f \in Frame
      /\ f.cur => /\ Up /\ f.seq + Len(frames') + 1 = next
                  /\ \A i \in 1..Len(frames') : frames'[i].cur
                  /\ Ahead(f.seq)
                  /\ \A t \in (f.seq + 1)..(next - 1) : Queued(t)'
                  /\ \A t \in Nat : Queued(t) => t >= f.seq
  BY HeadLeaves DEF FrameTaken
<1>a. /\ f.cur /\ life = "on" /\ blocked = 0 /\ handler = Idle
      /\ delivery.seq \in {0, f.seq}
      /\ UNCHANGED <<relayVars, connVars, blocked, settled, skipped, failures>>
  BY DEF FrameTaken, Ignored
<1>b. /\ f.seq \in Seqs /\ delivery \in Delivery /\ next \in Nat /\ posted \in Nat
       /\ Len(frames') \in Nat /\ failures \in [Seqs -> Nat]
  <2>1. delivery \in Delivery /\ next \in Nat /\ posted \in Nat
        /\ frames \in Seq(Frame) /\ failures \in [Seqs -> Nat]
    BY DrainAssumption DEF DrainAssumption, TypeOK
  <2>2. frames # <<>> /\ frames' = Tail(frames)
    BY DEF FrameTaken
  <2>3. Len(frames') \in Nat
    BY <2>1, <2>2
  <2>4. f.seq \in Seqs
    BY <1>q DEF Frame
  <2> QED BY <2>1, <2>3, <2>4
<1>c. \/ /\ delivery' = [delivery EXCEPT !.seq = f.seq]
          /\ handler' = [at |-> "waiting", seq |-> f.seq, cur |-> TRUE]
       \/ Attempt(f.seq, delivery.attempts)
       \/ /\ delivery' = [delivery EXCEPT !.seq = f.seq, !.due = FALSE]
          /\ handler' = Idle
  BY <1>a DEF FrameTaken
<1>d. f.seq <= posted /\ Over(f.seq)
  BY TakenInOrder
<1>e. /\ delivery'.seq = f.seq
      /\ handler' \in {Idle, [at |-> "waiting", seq |-> f.seq, cur |-> TRUE],
                        [at |-> "delivering", seq |-> f.seq, cur |-> TRUE]}
  <2>1. CASE Attempt(f.seq, delivery.attempts)
    BY <2>1 DEF Attempt
  <2>2. CASE ~Attempt(f.seq, delivery.attempts)
    BY <1>b, <1>c, <2>2
  <2> QED BY <2>1, <2>2
<1> HIDE DEF f
<1>1. LifeInv'
  BY <1>a DEF LifeInv
<1>2. FrameInv'
  BY <1>q
<1>3. HandlerInv'
  BY <1>q, <1>a, <1>b, <1>d, <1>e DEF HandlerInv
<1>4. OwnerInv'
  BY <1>a, <1>b, <1>d, <1>e DEF OwnerInv
<1>5. RelayInv'
  BY <1>a DEF RelayInv
<1>6. AckInv'
  BY <1>q, <1>a, <1>e DEF AckInv
<1>7. OrderInv'
  <2> HIDE DEF Queued
  <2>1. ASSUME NEW t \in 1..(next - 1)
        PROVE  t \in Done \/ Queued(t)' \/ t = f.seq
    <3>1. CASE t < f.seq
      BY <1>d, <3>1, <1>b
    <3>2. CASE t > f.seq
      BY <1>q, <1>a, <1>b, <3>2
    <3> QED BY <1>b, <3>1, <3>2
  <2> QED BY <1>a, <1>b, <1>e, <2>1 DEF OrderInv
<1>8. RetryInv'
  <2>1. /\ \A s \in Seqs : s # f.seq => failures[s] = 0
        /\ failures[f.seq] <= delivery.attempts
        /\ delivery.due => failures[f.seq] < Budget
    BY <1>a, <1>b DEF RetryInv
  <2>2. /\ handler'.at = "delivering" =>
             \/ failures[f.seq] < delivery'.attempts
             \/ delivery'.attempts = Budget
        /\ failures[f.seq] <= delivery'.attempts
        /\ handler'.at = "delivering" => ~delivery'.due
        /\ delivery'.due => delivery.due
    <3>1. delivery.attempts \in 0..Budget /\ failures[f.seq] \in Nat
      BY <1>b
    <3>2. CASE Attempt(f.seq, delivery.attempts)
      BY <2>1, <3>1, <3>2 DEF Attempt
    <3>3. CASE ~Attempt(f.seq, delivery.attempts)
      <4>1. /\ delivery'.attempts = delivery.attempts /\ handler'.at # "delivering"
            /\ delivery'.due => delivery.due
        <5>1. CASE delivery' = [delivery EXCEPT !.seq = f.seq] /\ handler'.at = "waiting"
          BY <1>b, <5>1
        <5>2. CASE /\ delivery' = [delivery EXCEPT !.seq = f.seq, !.due = FALSE]
                   /\ handler' = Idle
          BY <1>b, <5>2
        <5> QED BY <1>c, <3>3, <5>1, <5>2
      <4> QED BY <2>1, <4>1
    <3> QED BY <3>2, <3>3
  <2> QED BY <1>a, <1>e, <2>1, <2>2 DEF RetryInv
<1> QED BY <1>1, <1>2, <1>3, <1>4, <1>5, <1>6, <1>7, <1>8

LEMMA WaitElapsesKeeps ==
  ASSUME IInv, WaitElapses PROVE Bookkeeping'
<1> USE DrainAssumption DEF DrainAssumption, IInv, Bookkeeping, Seqs, Frame, Handler,
        Delivery, Idle, NoDelivery, NoFailures, Done, Over, Up, Queued, Ahead,
        relayVars, connVars, history
<1>q. /\ handler.cur /\ life = "on" /\ delivery.seq = handler.seq /\ blocked = 0
      /\ handler.seq \in Seqs /\ failures \in [Seqs -> Nat] /\ delivery \in Delivery
      /\ UNCHANGED <<relayVars, connVars, frames, blocked, settled, skipped, failures>>
  BY HandledIsPosted DEF WaitElapses, HandlerInv, OwnerInv, TypeOK
<1>a. /\ delivery'.seq = handler.seq
      /\ \/ handler' = [at |-> "delivering", seq |-> handler.seq, cur |-> TRUE]
         \/ handler' = Idle
  BY <1>q DEF WaitElapses, Attempt
<1>1. LifeInv' /\ FrameInv' /\ HandlerInv' /\ RelayInv' /\ AckInv'
  BY DEF WaitElapses, Live, Attempt, LifeInv, FrameInv, HandlerInv, RelayInv, AckInv
<1>2. OwnerInv'
  BY DEF WaitElapses, Live, Attempt, OwnerInv, TypeOK
<1>3. OrderInv'
  <2> HIDE DEF Queued
  <2>1. \A t \in Nat : Queued(t) <=> Queued(t)'
    BY <1>q DEF Queued
  <2>2. ASSUME life = "on", Up, NEW t \in 1..(next - 1)
        PROVE  t \in Done \/ Queued(t)' \/ t = handler.seq
    BY <1>q, <2>1, <2>2 DEF OrderInv, WaitElapses
  <2> QED BY <1>q, <1>a, <2>2 DEF OrderInv
<1>4. RetryInv'
  <2>1. /\ \A s \in Seqs : s # handler.seq => failures[s] = 0
        /\ failures[handler.seq] <= delivery.attempts
    BY <1>q DEF RetryInv
  <2>2. /\ handler'.at = "delivering" =>
             \/ failures[handler.seq] < delivery'.attempts
             \/ delivery'.attempts = Budget
        /\ failures[handler.seq] <= delivery'.attempts
        /\ ~delivery'.due
    BY <1>q, <2>1 DEF WaitElapses, Attempt
  <2> QED BY <1>q, <1>a, <2>1, <2>2 DEF RetryInv
<1> QED BY <1>1, <1>2, <1>3, <1>4

LEMMA AnsweredKeeps ==
  ASSUME IInv, Answered PROVE Bookkeeping'
<1> USE DrainAssumption DEF DrainAssumption, IInv, Bookkeeping, Seqs, Frame, Handler,
        Delivery, Idle, NoDelivery, NoFailures, Done, Over, Up, Queued, Ahead,
        relayVars, connVars, history
<1>1. LifeInv' /\ FrameInv' /\ HandlerInv' /\ OwnerInv'
  BY DEF Answered, LifeInv, FrameInv, HandlerInv, OwnerInv
<1>2. RelayInv'
  <2>1. /\ handler.seq \in 1..posted /\ Over(handler.seq)
        /\ settled' = settled \union {handler.seq}
        /\ acks' \subseteq acks \union {handler.seq}
        /\ UNCHANGED <<posted, pruned, next, skipped>>
    BY DEF Answered, HandlerInv
  <2>2. handler.seq \in Nat /\ posted \in Nat
    BY HandledIsPosted DEF Answered, TypeOK
  <2>3. \A t \in 1..handler.seq : t \in Done'
    BY <2>1, <2>2
  <2>4. \A a \in acks' : a <= posted /\ \A t \in 1..((a + 1) - 1) : t \in Done'
    <3> SUFFICES ASSUME NEW a \in acks'
                 PROVE  a <= posted /\ \A t \in 1..((a + 1) - 1) : t \in Done'
      OBVIOUS
    <3>1. CASE a \in acks
      BY <2>1, <3>1 DEF RelayInv
    <3>2. CASE a = handler.seq
      BY <2>1, <2>2, <2>3, <3>2
    <3> QED BY <2>1, <3>1, <3>2
  <2>5. /\ next' <= posted' + 1 /\ pruned' <= posted'
        /\ \A t \in 1..((pruned + 1) - 1) : t \in Done'
    BY <2>1 DEF RelayInv
  <2> QED BY <2>1, <2>4, <2>5 DEF RelayInv
<1>3. AckInv'
  <2>1. handler.seq \in Seqs
    BY HandledIsPosted DEF Answered
  <2>2. ASSUME handler.cur
        PROVE  /\ \A i \in 1..Len(frames) : frames[i].cur => handler.seq < frames[i].seq
               /\ handler.seq < next
    <3>1. handler.seq + Len(frames) + 1 = next /\ next \in Nat /\ Len(frames) \in Nat
      BY <2>2 DEF Answered, HandlerInv, TypeOK
    <3>2. ASSUME NEW i \in 1..Len(frames),
         frames[i].cur PROVE handler.seq < frames[i].seq
      <4>1. frames[i].seq + (Len(frames) - i) + 1 = next
        BY <3>2 DEF FrameInv
      <4>2. frames[i].seq \in Nat
        BY FramesTyped
      <4> QED BY <2>1, <3>1, <4>1, <4>2
    <3> QED BY <2>1, <3>1, <3>2
  <2>3. blocked # 0 => ~handler.cur
    BY DEF Answered, OwnerInv, HandlerInv, LifeInv
  <2> QED BY <2>1, <2>2, <2>3 DEF Answered, AckInv, TypeOK
<1>4. OrderInv'
  BY DEF Answered, OrderInv, LifeInv, HandlerInv, OwnerInv
<1>5. RetryInv'
  BY DEF Answered, RetryInv, TypeOK, LifeInv, FrameInv, HandlerInv, OwnerInv, AckInv
<1> QED BY <1>1, <1>2, <1>3, <1>4, <1>5

LEMMA FailsLateKeeps ==
  ASSUME IInv, FailsLate PROVE Bookkeeping'
<1> USE DrainAssumption DEF DrainAssumption, IInv, Bookkeeping, Seqs, Frame, Handler,
        Delivery, Idle, NoDelivery, NoFailures, Done, Over, Up, Queued, Ahead,
        relayVars, connVars, history
<1>1. LifeInv' /\ FrameInv' /\ HandlerInv' /\ OwnerInv' /\ RelayInv' /\ AckInv'
  BY DEF FailsLate, Live, LifeInv, FrameInv, HandlerInv, OwnerInv, RelayInv, AckInv
<1>2. OrderInv'
  BY DEF FailsLate, Live, OrderInv, LifeInv, HandlerInv, OwnerInv
<1>3. RetryInv'
  <2>1. CASE life # "on"
    BY <2>1 DEF FailsLate, LifeInv, RetryInv
  <2>2. CASE life = "on"
    <3>1. /\ handler.seq \in Seqs /\ delivery.seq = handler.seq /\ ~delivery.due
          /\ failures \in [Seqs -> Nat] /\ delivery.attempts \in 0..Budget
          /\ blocked = 0
      BY <2>2, HandledIsPosted DEF FailsLate, OwnerInv, TypeOK, RetryInv
    <3>2. failures[handler.seq] < delivery.attempts \/ delivery.attempts = Budget
      BY <3>1 DEF FailsLate, RetryInv
    <3>3. failures'[handler.seq] <= delivery.attempts
      BY <2>2, <3>1, <3>2 DEF FailsLate, FailedOnce, RetryInv
    <3>4. \A s \in Seqs : s # handler.seq => failures'[s] = 0
      BY <2>2, <3>1 DEF FailsLate, FailedOnce, RetryInv
    <3>5. handler' = Idle /\ delivery' = delivery /\ blocked' = blocked
      BY DEF FailsLate
    <3> QED BY <3>1, <3>3, <3>4, <3>5 DEF RetryInv
  <2> QED BY <2>1, <2>2
<1> QED BY <1>1, <1>2, <1>3

LEMMA FailsAndRetriesKeeps ==
  ASSUME IInv, FailsAndRetries PROVE Bookkeeping'
<1> USE DrainAssumption DEF DrainAssumption, IInv, Bookkeeping, Seqs, Frame, Handler,
        Delivery, Idle, NoDelivery, NoFailures, Done, Over, Up, Queued, Ahead,
        relayVars, connVars, history
<1>1. LifeInv' /\ FrameInv' /\ HandlerInv' /\ OwnerInv' /\ RelayInv' /\ AckInv'
      /\ OrderInv'
  BY DEF FailsAndRetries, Live, FailedOnce, LifeInv, FrameInv, HandlerInv, OwnerInv,
     RelayInv, AckInv, OrderInv
<1>2. RetryInv'
  <2>1. /\ handler.seq \in Seqs /\ delivery.seq = handler.seq /\ blocked = 0
        /\ failures \in [Seqs -> Nat] /\ delivery \in Delivery
    BY HandledIsPosted DEF FailsAndRetries, Live, OwnerInv, TypeOK
  <2>2. failures[handler.seq] < delivery.attempts /\ delivery.attempts < Budget
    BY <2>1 DEF FailsAndRetries, RetryInv
  <2> QED BY <2>1, <2>2 DEF FailsAndRetries, FailedOnce, RetryInv
<1> QED BY <1>1, <1>2

LEMMA FailsAndBlocksKeeps ==
  ASSUME IInv, FailsAndBlocks PROVE Bookkeeping'
<1> USE DrainAssumption DEF DrainAssumption, IInv, Bookkeeping, Seqs, Frame, Handler,
        Delivery, Idle, NoDelivery, NoFailures, Done, Over, Up, Queued, Ahead,
        relayVars, connVars, history
<1>1. LifeInv' /\ FrameInv' /\ HandlerInv' /\ OwnerInv' /\ RelayInv' /\ AckInv'
      /\ OrderInv'
  BY DEF FailsAndBlocks, Live, FailedOnce, LifeInv, FrameInv, HandlerInv, OwnerInv,
     RelayInv, AckInv, OrderInv
<1>2. RetryInv'
  BY DEF FailsAndBlocks, Live, FailedOnce, RetryInv, TypeOK, HandlerInv, OwnerInv,
     RelayInv
<1> QED BY <1>1, <1>2

LEMMA ResumeKeeps ==
  ASSUME IInv, Resume PROVE Bookkeeping'
<1> USE DrainAssumption DEF DrainAssumption, IInv, Bookkeeping, Seqs, Frame, Handler,
        Delivery, Idle, NoDelivery, NoFailures, Done, Over, Up, Queued, Ahead,
        relayVars, connVars, history
<1>1. LifeInv' /\ FrameInv' /\ HandlerInv' /\ OwnerInv' /\ RelayInv'
  BY DEF Resume, Attempt, LifeInv, FrameInv, HandlerInv, OwnerInv, RelayInv
<1>2. AckInv'
  BY DEF Resume, Attempt, AckInv, TypeOK, LifeInv, HandlerInv
<1>3. OrderInv'
  <2> HIDE DEF Queued
  <2>1. \A t \in Nat : Queued(t) <=> Queued(t)'
    BY DEF Queued, Resume
  <2>2. CASE handler.at = "held" /\ sock = "open"
    BY <2>1, <2>2 DEF Resume, Attempt, OrderInv, HandlerInv, TypeOK
  <2>3. CASE ~(handler.at = "held" /\ sock = "open")
    BY <2>1, <2>3 DEF Resume, OrderInv
  <2> QED BY <2>2, <2>3
<1>4. RetryInv'
  BY DEF Resume, Attempt, RetryInv, TypeOK
<1> QED BY <1>1, <1>2, <1>3, <1>4

LEMMA ResumeLateKeeps ==
  ASSUME IInv, ResumeLate PROVE Bookkeeping'
<1> USE DrainAssumption DEF DrainAssumption, IInv, Bookkeeping, Seqs, Frame, Handler,
        Delivery, Idle, NoDelivery, NoFailures, Done, Over, Up, Queued, Ahead,
        relayVars, connVars, history
<1>1. LifeInv' /\ FrameInv' /\ HandlerInv' /\ OwnerInv' /\ RelayInv' /\ AckInv'
      /\ OrderInv'
  BY DEF ResumeLate, LifeInv, FrameInv, HandlerInv, OwnerInv, RelayInv, AckInv, OrderInv
<1>2. RetryInv'
  BY DEF ResumeLate, RetryInv, TypeOK
<1> QED BY <1>1, <1>2

LEMMA StopKeeps ==
  ASSUME IInv, Stop PROVE Bookkeeping'
<1> USE DrainAssumption DEF DrainAssumption, IInv, Bookkeeping, Seqs, Frame, Handler,
        Delivery, Idle, NoDelivery, NoFailures, Done, Over, Up, Queued, Ahead,
        relayVars, connVars, history
<1>1. LifeInv' /\ FrameInv' /\ HandlerInv' /\ OwnerInv' /\ RelayInv' /\ AckInv'
      /\ OrderInv' /\ RetryInv'
  BY DEF Stop, LifeInv, FrameInv, HandlerInv, OwnerInv, RelayInv, AckInv, OrderInv,
     RetryInv
<1> QED BY <1>1

LEMMA StoppedKeeps ==
  ASSUME IInv, Stopped, ~Settling PROVE Bookkeeping'
<1> USE DrainAssumption DEF DrainAssumption, IInv, Bookkeeping, Seqs, Frame, Handler,
        Delivery, Idle, NoDelivery, NoFailures, Done, Over, Up, Queued, Ahead,
        relayVars, connVars, history
<1>1. LifeInv' /\ FrameInv' /\ HandlerInv' /\ OwnerInv' /\ RelayInv' /\ AckInv'
      /\ OrderInv' /\ RetryInv'
  BY DEF Stopped, Settling, LifeInv, FrameInv, HandlerInv, OwnerInv, RelayInv,
     AckInv, OrderInv, RetryInv
<1> QED BY <1>1

LEMMA StartKeeps ==
  ASSUME IInv, Start PROVE Bookkeeping'
<1> USE DrainAssumption DEF DrainAssumption, IInv, Bookkeeping, Seqs, Frame, Handler,
        Delivery, Idle, NoDelivery, NoFailures, Done, Over, Up, Queued, Ahead,
        relayVars, connVars, history
<1>1. LifeInv' /\ RelayInv' /\ AckInv' /\ OrderInv' /\ RetryInv'
  BY DEF Start, LifeInv, RelayInv, AckInv, OrderInv, RetryInv
<1>2. FrameInv'
  BY DEF Start, FrameInv, TypeOK, LifeInv, HandlerInv
<1>3. HandlerInv'
  BY DEF Start, HandlerInv, TypeOK, LifeInv
<1>4. OwnerInv'
  BY DEF Start, OwnerInv, TypeOK, LifeInv, HandlerInv
<1> QED BY <1>1, <1>2, <1>3, <1>4

LEMMA ProcessDiesKeeps ==
  ASSUME IInv, ProcessDies PROVE Bookkeeping'
<1> USE DrainAssumption DEF DrainAssumption, IInv, Bookkeeping, Seqs, Frame, Handler,
        Delivery, Idle, NoDelivery, NoFailures, Done, Over, Up, Queued, Ahead,
        relayVars, connVars, history
<1>1. LifeInv' /\ FrameInv' /\ HandlerInv' /\ OwnerInv' /\ RelayInv' /\ AckInv'
      /\ OrderInv' /\ RetryInv'
  BY DEF ProcessDies, LifeInv, FrameInv, HandlerInv, OwnerInv, RelayInv, AckInv,
     OrderInv, RetryInv
<1> QED BY <1>1

-----------------------------------------------------------------------------
(* The invariant *)

LEMMA InitIInv == Init => IInv
<1> SUFFICES ASSUME Init PROVE IInv
  OBVIOUS
<1> USE DrainAssumption DEF DrainAssumption, Init
<1>1. TypeOK
  <2>1. <<>> \in Seq(Frame) /\ {} \subseteq Seqs
    OBVIOUS
  <2>2. 0 \in 0..N /\ 1 \in 1..(N + 1)
    OBVIOUS
  <2>3. posted \in 0..N /\ pruned \in 0..N /\ next \in 1..(N + 1)
    BY <2>2
  <2>4. acks \subseteq Seqs /\ settled \subseteq Seqs /\ skipped \subseteq Seqs
    OBVIOUS
  <2> QED BY <2>1, <2>3, <2>4, Resting DEF TypeOK
<1>2. LifeInv /\ FrameInv /\ HandlerInv
  BY DEF LifeInv, FrameInv, HandlerInv, Idle
<1>3. OwnerInv /\ RelayInv /\ AckInv /\ OrderInv
  BY DEF OwnerInv, RelayInv, AckInv, OrderInv, Over, Up, Idle, NoDelivery
<1>4. RetryInv
  BY DEF RetryInv, NoFailures, NoDelivery, Idle, Seqs
<1> QED BY <1>1, <1>2, <1>3, <1>4 DEF IInv, Bookkeeping

LEMMA NextKeepsIInv == IInv /\ [Next]_vars => IInv'
<1> SUFFICES ASSUME IInv, [Next]_vars PROVE Bookkeeping'
  BY TypeStep DEF IInv
<1>1. CASE UNCHANGED vars
  BY <1>1 DEF vars, relayVars, connVars, history, IInv, Bookkeeping, LifeInv, FrameInv,
     HandlerInv, OwnerInv, RelayInv, AckInv, OrderInv, RetryInv, Over, Done, Up,
        Queued, Ahead
<1>2. CASE HandleFrame
  BY <1>2, FrameIgnoredKeeps, FrameHeldKeeps, FrameTakenKeeps DEF HandleFrame
<1>3. CASE RelayStep
  BY <1>3, PostKeeps, AckArrivesKeeps DEF RelayStep
<1>4. CASE SocketStep
  BY <1>4, OpensKeeps, FrameArrivesKeeps, StartsClosingKeeps, ClosesKeeps, ConnectKeeps
     DEF SocketStep
<1>5. CASE HandlerStep
  BY <1>5, WaitElapsesKeeps, AnsweredKeeps, FailsLateKeeps, FailsAndRetriesKeeps,
     FailsAndBlocksKeeps DEF HandlerStep
<1>6. CASE LifeStep /\ ~Settling
  BY <1>6, ResumeKeeps, ResumeLateKeeps, StopKeeps, StoppedKeeps,
     StartKeeps DEF LifeStep
<1>7. CASE ProcessDies
  BY <1>7, ProcessDiesKeeps
<1> QED BY <1>1, <1>2, <1>3, <1>4, <1>5, <1>6, <1>7 DEF Next

LEMMA IInvHolds == Spec => []IInv
BY InitIInv, NextKeepsIInv, PTL DEF Spec

\* The drain, the relay and the histories keep their types.
THEOREM TypeCorrect == Spec => []TypeOK
<1>1. IInv => TypeOK
  BY DEF IInv
<1> QED BY <1>1, IInvHolds, PTL

\* However the transport flaps, no retry is scheduled for an event that has
\* failed as often as its budget.
THEOREM BudgetIsKept == Spec => []BoundedRetries
<1>1. IInv => BoundedRetries
  BY DEF IInv, Bookkeeping, RetryInv, BoundedRetries
<1> QED BY <1>1, IInvHolds, PTL
-----------------------------------------------------------------------------
(* The drain implements OrderedDelivery *)

out == IF handler.at = "delivering" THEN handler.seq ELSE 0

LEMMA DeliveryInit == Init => InOrder!Init
BY DEF Init, InOrder!Init, Idle

\* An attempt starts only when nothing is out, no event waits for the guardian,
\* and everything before is over.
LEMMA AttemptIsInOrder ==
  ASSUME TypeOK, NEW s \in Seqs, NEW used \in 0..Budget, Attempt(s, used),
         out = 0, blocked = 0, s <= posted, Over(s),
         UNCHANGED <<relayVars, blocked, settled, skipped>>
  PROVE  InOrder!Next
<1>1. s \in 1..N
  BY DEF Seqs
<1>2. InOrder!Attempt(s)
  BY <1>1 DEF Attempt, out, relayVars, InOrder!Attempt, InOrder!Over, Over, Done
<1> QED BY <1>1, <1>2 DEF InOrder!Next

LEMMA DeliveryStep == IInv /\ [Next]_vars => [InOrder!Next]_(InOrder!vars)
<1> SUFFICES ASSUME IInv, [Next]_vars PROVE InOrder!Next \/ UNCHANGED InOrder!vars
  OBVIOUS
<1> USE DEF InOrder!vars, relayVars, connVars, history, IInv, Bookkeeping
<1>0. /\ handler.at # "idle" =>
           handler.seq \in Seqs /\ handler.seq <= posted /\ Over(handler.seq)
      /\ handler.at \in {"delivering", "waiting"} => blocked = 0
      /\ handler.at = "held" => blocked = handler.seq /\ handler.seq # 0
  <2>1. 0 \notin Seqs
    BY DrainAssumption DEF DrainAssumption, Seqs
  <2> QED BY <2>1, HandledIsPosted DEF HandlerInv, OwnerInv, LifeInv
<1>1. CASE Post
  BY <1>1 DEF Post, InOrder!Next, InOrder!Post
<1>2. ASSUME NEW s \in Seqs, AckArrives(s) PROVE InOrder!Next \/ UNCHANGED InOrder!vars
  <2>1. CASE pruned < s
    <3>1. InOrder!Prune(s) /\ s \in 1..N
      BY <1>2, <2>1 DEF AckArrives, InOrder!Prune, InOrder!Over, RelayInv, Over,
         Done, Seqs
    <3> QED BY <3>1 DEF InOrder!Next
  <2>2. CASE ~(pruned < s)
    BY <1>2, <2>2 DEF AckArrives
  <2> QED BY <2>1, <2>2
<1>3. CASE Opens \/ FrameArrives \/ StartsClosing \/ Connect
  BY <1>3 DEF Opens, FrameArrives, StartsClosing, Connect
<1>4. CASE Closes
  <2>1. out' = out
    BY <1>4 DEF Closes, WaitsCancelled, out, Idle, TypeOK, Handler
  <2> QED BY <1>4, <2>1 DEF Closes, out
<1>5. CASE FrameIgnored
  BY <1>5 DEF FrameIgnored
<1>6. CASE FrameHeld
  BY <1>6 DEF FrameHeld, Idle
<1>7. CASE FrameTaken
  <2> DEFINE f == Head(frames)
  <2>1. /\ handler = Idle /\ blocked = 0
        /\ UNCHANGED <<relayVars, blocked, settled, skipped>>
        /\ \/ Attempt(f.seq, delivery.attempts)
           \/ handler' = [at |-> "waiting", seq |-> f.seq, cur |-> TRUE]
           \/ handler' = handler
    BY <1>7 DEF FrameTaken
  <2>2. CASE Attempt(f.seq, delivery.attempts)
    <3>1. f \in Frame /\ delivery.attempts \in 0..Budget
      BY <1>7, FramesLeave DEF FrameTaken, TypeOK, Delivery
    <3>2. f.seq \in Seqs
      BY <3>1 DEF Frame
    <3>3. f.seq <= posted /\ Over(f.seq)
      BY <1>7, TakenInOrder
    <3> QED BY <2>1, <2>2, <3>1, <3>2, <3>3, AttemptIsInOrder DEF out, Idle
  <2>3. CASE ~Attempt(f.seq, delivery.attempts)
    BY <2>1, <2>3 DEF Idle
  <2> QED BY <2>2, <2>3
<1>8. CASE WaitElapses
  <2>1. CASE Live
    <3>1. delivery.attempts \in 0..Budget
      BY DEF TypeOK, Delivery
    <3> QED BY <1>0, <1>8, <2>1, <3>1, AttemptIsInOrder DEF WaitElapses, out
  <2>2. CASE ~Live
    BY <1>8, <2>2 DEF WaitElapses, Idle
  <2> QED BY <2>1, <2>2
<1>9. CASE Answered
  <2>1. handler.seq # 0
    BY <1>0, <1>9, DrainAssumption DEF DrainAssumption, Answered, Seqs
  <2>2. InOrder!Settle
    BY <1>9, <2>1 DEF Answered, Idle, InOrder!Settle
  <2> QED BY <2>2 DEF InOrder!Next
<1>10. CASE FailsLate \/ FailsAndRetries \/ FailsAndBlocks
  <2>1. out # 0 /\ out = handler.seq
    BY <1>0, <1>10, DrainAssumption
       DEF DrainAssumption, FailsLate, FailsAndRetries, FailsAndBlocks, out, Seqs
  <2>2. out' = 0 /\ UNCHANGED <<posted, pruned, settled, skipped>>
    BY <1>10 DEF FailsLate, FailsAndRetries, FailsAndBlocks, out, Idle, TypeOK, Handler
  <2>3. blocked' = blocked \/ blocked' = out
    BY <1>10, <2>1 DEF FailsLate, FailsAndRetries, FailsAndBlocks
  <2>4. InOrder!Fail
    BY <2>1, <2>2, <2>3 DEF InOrder!Fail, out
  <2> QED BY <2>4 DEF InOrder!Next
<1>11. CASE Resume
  <2>1. blocked # 0 /\ blocked' = 0 /\ UNCHANGED <<posted, pruned, settled, skipped>>
    BY <1>11 DEF Resume
  <2>2. CASE handler.at = "held" /\ sock = "open"
    <3>1. out' = blocked
      BY <1>0, <1>11, <2>2 DEF Resume, Attempt, out
    <3>2. InOrder!Resume
      BY <2>1, <3>1 DEF InOrder!Resume, out
    <3> QED BY <3>2 DEF InOrder!Next
  <2>3. CASE ~(handler.at = "held" /\ sock = "open")
    <3>1. out' = 0
      BY <1>0, <1>11, <2>1, <2>3 DEF Resume, out
    <3>2. InOrder!Resume
      BY <2>1, <3>1 DEF InOrder!Resume, out
    <3> QED BY <3>2 DEF InOrder!Next
  <2> QED BY <2>2, <2>3
<1>12. CASE ResumeLate
  <2>1. InOrder!Drop
    BY <1>0, <1>12 DEF ResumeLate, InOrder!Drop, Idle
  <2> QED BY <2>1 DEF InOrder!Next
<1>13. CASE Stop \/ ProcessDies
  <2>1. blocked' = 0 /\ UNCHANGED <<posted, pruned, settled, skipped>>
    BY <1>13 DEF Stop, ProcessDies
  <2>2. out' = 0 \/ out' = out
    BY <1>13 DEF Stop, ProcessDies, out, Idle
  <2>3. InOrder!Restart
    BY <2>1, <2>2 DEF InOrder!Restart, out
  <2> QED BY <2>3 DEF InOrder!Next
<1>14. CASE Stopped \/ Start
  BY <1>14 DEF Stopped, Start
<1>15. CASE UNCHANGED vars
  BY <1>15 DEF vars
<1> QED
  BY <1>1, <1>2, <1>3, <1>4, <1>5, <1>6, <1>7, <1>8, <1>9, <1>10, <1>11, <1>12, <1>13,
     <1>14, <1>15 DEF Next, HandleFrame, RelayStep, SocketStep, HandlerStep, LifeStep

\* Whatever the sockets, retries, gates, stops and crashes do, events are
\* attempted in order and forgotten by the relay only when over.
THEOREM DeliveryIsInOrder == Spec => DeliverySpec
BY DeliveryInit, DeliveryStep, IInvHolds, PTL DEF Spec, DeliverySpec, InOrder!Spec
=============================================================================
