---------------------------- MODULE EventBusProofs ----------------------------
(***************************************************************************)
(* Proofs about EventBus, for any number of sinks and events and a ring of *)
(* any size: events are broadcast in order, a subscriber misses only what  *)
(* was overrun, and the ring implements the feed of module EventFeed.      *)
(*                                                                         *)
(* The argument: the last Capacity positions have different slots, so slot *)
(* p % Capacity holds what was broadcast at position p until the tail is   *)
(* Capacity ahead of p, which is when a receiver at p is told it lags.     *)
(***************************************************************************)
EXTENDS EventBus, SequenceTheorems, TLAPS

Event == 1..MaxEvents

\* The types the argument needs.
DataOK ==
    /\ phase \in {"running", "left", "done"} /\ published \in 0..MaxEvents
    /\ inner \in Seq(Event) /\ sent \in Seq(Event) /\ tail \in Nat
    /\ ring \in [0..(Capacity - 1) -> 0..MaxEvents]
    /\ sink \in [Sinks -> {"none", "recv", "notify", "ended"}]
    /\ next \in [Sinks -> Nat] /\ since \in [Sinks -> Nat]
    /\ notified \in [Sinks -> Seq(Event)]

\* The events broadcast, and then those queued, are the numbers published so far.
InOrder ==
    /\ \A i \in 1..Len(sent) : sent[i] = i
    /\ Len(sent) <= published
    /\ phase # "done" => /\ Len(sent) + Len(inner) = published
                         /\ \A i \in 1..Len(inner) : inner[i] = Len(sent) + i

\* A slot holds the event broadcast at its position, for the last Capacity positions.
RingHolds ==
    /\ tail = Len(sent)
    /\ \A p \in Nat : p < tail /\ tail - p <= Capacity => ring[p % Capacity] = sent[p + 1]

\* A receiver is between the position where it subscribed and the tail.
Placed == \A s \in Sinks : since[s] <= next[s] /\ next[s] <= tail

BusInv == DataOK /\ InOrder /\ RingHolds /\ Placed

-----------------------------------------------------------------------------
\* Positions less than Capacity apart have different slots.
LEMMA SlotsDiffer ==
    ASSUME NEW c \in Nat \ {0}, NEW p \in Nat, NEW q \in Nat, p < q, q - p < c
    PROVE  p % c # q % c /\ p % c \in 0..(c - 1)
<1>1. /\ p = c * (p \div c) + (p % c) /\ q = c * (q \div c) + (q % c)
      /\ p % c \in 0..(c - 1) /\ p \div c \in Int /\ q \div c \in Int
  OBVIOUS
<1>2. ASSUME p % c = q % c PROVE FALSE
  <2> DEFINE k == q \div c - p \div c
  <2>1. k \in Int /\ q - p = c * k
    BY <1>1, <1>2
  <2>2. k >= 1 \/ k <= 0
    BY <2>1
  <2>3. k >= 1 => c * k >= c
    BY <2>1
  <2>4. k <= 0 => c * k <= 0
    BY <2>1
  <2> HIDE DEF k
  <2> QED
    BY <2>1, <2>2, <2>3, <2>4
<1> QED
  BY <1>1, <1>2

LEMMA InitBus == Init => BusInv
<1> SUFFICES ASSUME Init PROVE BusInv
  OBVIOUS
<1> USE BusAssumption DEF Init
<1>1. DataOK
  BY DEF DataOK
<1> QED
  BY <1>1 DEF BusInv, InOrder, RingHolds, Placed

LEMMA ActorStep ==
    ASSUME BusInv, PublishEvent \/ LeavesRun \/ Restarts \/ Terminates
    PROVE  BusInv'
<1> USE BusAssumption DEF channel, sinks
<1>1. CASE PublishEvent
  <2>1. published + 1 \in Event
    BY <1>1 DEF PublishEvent, BusInv, DataOK, Event
  <2>2. /\ inner' \in Seq(Event) /\ Len(inner') = Len(inner) + 1
        /\ \A i \in 1..Len(inner) : inner'[i] = inner[i]
        /\ inner'[Len(inner) + 1] = published + 1
    BY <1>1, <2>1 DEF PublishEvent, BusInv, DataOK
  <2>3. DataOK'
    BY <1>1, <2>1, <2>2 DEF PublishEvent, BusInv, DataOK, Event
  <2>4. InOrder'
    BY <1>1, <2>2 DEF PublishEvent, BusInv, DataOK, InOrder
  <2> QED
    BY <1>1, <2>3, <2>4 DEF PublishEvent, BusInv, RingHolds, Placed
<1>2. CASE LeavesRun \/ Restarts \/ Terminates
  <2>0. inner' \in Seq(Event) /\ phase' \in {"running", "left", "done"}
    <3>1. inner' = inner \/ inner' = <<>>
      BY <1>2 DEF LeavesRun, Restarts, Terminates
    <3>2. phase' \in {"running", "left", "done"}
      BY <1>2 DEF LeavesRun, Restarts, Terminates
    <3>3. inner \in Seq(Event) /\ <<>> \in Seq(Event)
      BY DEF BusInv, DataOK
    <3> QED
      BY <3>1, <3>2, <3>3
  <2>1. DataOK'
    BY <1>2, <2>0 DEF LeavesRun, Restarts, Terminates, BusInv, DataOK
  <2>2. InOrder'
    BY <1>2 DEF LeavesRun, Restarts, Terminates, BusInv, InOrder
  <2> QED
    BY <1>2, <2>1, <2>2 DEF LeavesRun, Restarts, Terminates, BusInv, RingHolds, Placed
<1> QED
  BY <1>1, <1>2

\* The event in hand is the next number, and the queue goes on after it.
LEMMA BroadcastStep ==
    ASSUME BusInv, Broadcast
    PROVE  BusInv' /\ EventInHand \in Event
<1> USE BusAssumption DEF sinks
<1>1. /\ EventInHand = Len(sent) + 1 /\ EventInHand \in Event
      /\ Tail(inner) \in Seq(Event) /\ Len(Tail(inner)) = Len(inner) - 1
      /\ \A i \in 1..Len(Tail(inner)) : Tail(inner)[i] = Len(sent) + 1 + i
  <2>1. inner \in Seq(Event) /\ inner # <<>> /\ sent \in Seq(Event)
    BY DEF Broadcast, BusInv, DataOK
  <2>2. Len(inner) \in Nat \ {0} /\ Len(sent) \in Nat /\ Head(inner) = inner[1]
    BY <2>1
  <2>3. /\ Head(inner) \in Event /\ Tail(inner) \in Seq(Event)
        /\ Len(Tail(inner)) = Len(inner) - 1
        /\ \A i \in 1..Len(Tail(inner)) : Tail(inner)[i] = inner[i + 1]
    BY <2>1
  <2>4. \A i \in 1..Len(inner) : inner[i] = Len(sent) + i
    BY DEF Broadcast, BusInv, InOrder
  <2> QED
    BY <2>2, <2>3, <2>4 DEF EventInHand
<1>2. /\ sent' \in Seq(Event) /\ Len(sent') = Len(sent) + 1
      /\ sent'[Len(sent) + 1] = EventInHand
      /\ \A i \in 1..Len(sent) : sent'[i] = sent[i]
  BY <1>1 DEF Broadcast, BusInv, DataOK
<1>3. tail % Capacity \in 0..(Capacity - 1)
  BY DEF BusInv, DataOK
<1>4. DataOK'
  BY <1>1, <1>2, <1>3 DEF Broadcast, BusInv, DataOK, Event
<1>5. InOrder'
  <2>1. /\ \A i \in 1..Len(sent) : sent[i] = i
        /\ Len(sent) + Len(inner) = published
        /\ Len(sent) \in Nat /\ Len(inner) \in Nat \ {0}
    BY DEF Broadcast, BusInv, DataOK, InOrder
  <2>2. \A i \in 1..Len(sent') : sent'[i] = i
    BY <1>1, <1>2, <2>1
  <2>3. inner' = Tail(inner) /\ published' = published
    BY DEF Broadcast
  <2>4. Len(sent') + Len(inner') = published' /\ Len(sent') <= published'
    BY <1>1, <1>2, <2>1, <2>3
  <2>5. \A i \in 1..Len(inner') : inner'[i] = Len(sent') + i
    BY <1>1, <1>2, <2>1, <2>3
  <2> QED
    BY <2>2, <2>4, <2>5 DEF InOrder
<1>6. RingHolds'
  <2>1. tail' = Len(sent')
    BY <1>2 DEF Broadcast, BusInv, RingHolds
  <2>2. ASSUME NEW p \in Nat, p < tail', tail' - p <= Capacity
        PROVE  ring'[p % Capacity] = sent'[p + 1]
    <3>1. tail \in Nat /\ tail' = tail + 1 /\ tail = Len(sent)
      BY DEF Broadcast, BusInv, DataOK, RingHolds
    <3>2. CASE p = tail
      BY <1>2, <1>3, <3>1, <3>2 DEF Broadcast, BusInv, DataOK
    <3>3. CASE p < tail
      <4>1. p % Capacity # tail % Capacity /\ p % Capacity \in 0..(Capacity - 1)
        <5>1. Capacity \in Nat \ {0} /\ tail - p < Capacity
          BY <2>2, <3>1
        <5> QED
          BY <3>1, <3>3, <5>1, SlotsDiffer
      <4>2. ring'[p % Capacity] = ring[p % Capacity]
        BY <4>1 DEF Broadcast, BusInv, DataOK
      <4>3. ring[p % Capacity] = sent[p + 1]
        BY <2>2, <3>1, <3>3 DEF BusInv, RingHolds
      <4> QED
        BY <1>2, <3>1, <3>3, <4>2, <4>3
    <3> QED
      BY <2>2, <3>1, <3>2, <3>3
  <2> QED
    BY <2>1, <2>2 DEF RingHolds
<1>7. Placed'
  BY DEF Broadcast, BusInv, DataOK, Placed
<1> QED
  BY <1>1, <1>4, <1>5, <1>6, <1>7 DEF BusInv

\* What a receiver that does not lag reads is the event broadcast at its position.
LEMMA ReadsWhatWasSent ==
    ASSUME BusInv, NEW s \in Sinks, next[s] < tail, ~Lags(s)
    PROVE  /\ ring[next[s] % Capacity] = sent[next[s] + 1]
           /\ sent[next[s] + 1] \in Event
<1>1. next[s] \in Nat /\ tail \in Nat /\ tail - next[s] <= Capacity
  BY BusAssumption DEF BusInv, DataOK, Lags
<1>2. ring[next[s] % Capacity] = sent[next[s] + 1]
  BY <1>1 DEF BusInv, RingHolds
<1>3. sent \in Seq(Event) /\ next[s] + 1 \in 1..Len(sent)
  BY <1>1 DEF BusInv, DataOK, RingHolds
<1> QED
  BY <1>2, <1>3

LEMMA SinkStep ==
    ASSUME BusInv, NEW s \in Sinks, Subscribe(s) \/ Step(s)
    PROVE  BusInv'
<1> USE BusAssumption DEF actor, channel
<1>1. UNCHANGED <<phase, published, inner, ring, tail, sent>>
  BY DEF Subscribe, Step, Receives, NotifyReturns, LagsBehind, Ends
<1>2. InOrder' /\ RingHolds'
  BY <1>1 DEF BusInv, InOrder, RingHolds
<1>3. DataOK' /\ Placed'
  <2>1. CASE Subscribe(s)
    BY <1>1, <2>1 DEF Subscribe, BusInv, DataOK, Placed
  <2>2. CASE Receives(s)
    <3>1. ring[next[s] % Capacity] \in Event
      BY <2>2, ReadsWhatWasSent DEF Receives
    <3>2. notified' \in [Sinks -> Seq(Event)]
      BY <2>2, <3>1 DEF Receives, BusInv, DataOK
    <3>3. /\ next[s] \in Nat /\ next[s] < tail /\ tail \in Nat
          /\ next' = [next EXCEPT ![s] = next[s] + 1] /\ next \in [Sinks -> Nat]
          /\ sink' = [sink EXCEPT ![s] = "notify"] /\ since' = since
      BY <2>2 DEF Receives, BusInv, DataOK
    <3>4. DataOK'
      BY <1>1, <3>2, <3>3, SMTT(30) DEF BusInv, DataOK
    <3>5. Placed'
      BY <1>1, <3>3 DEF BusInv, DataOK, Placed
    <3> QED
      BY <3>4, <3>5
  <2>3. CASE NotifyReturns(s) \/ Ends(s)
    BY <1>1, <2>3 DEF NotifyReturns, Ends, BusInv, DataOK, Placed
  <2>4. CASE LagsBehind(s)
    BY <1>1, <2>4, SMTT(30) DEF LagsBehind, Lags, CaughtUp, BusInv, DataOK, Placed
  <2> QED
    BY <2>1, <2>2, <2>3, <2>4 DEF Step
<1> QED
  BY <1>2, <1>3 DEF BusInv

LEMMA BusStep ==
    ASSUME BusInv, [Next]_vars
    PROVE  BusInv'
<1>1. CASE UNCHANGED vars
  BY <1>1 DEF vars, actor, channel, sinks, BusInv, DataOK, InOrder, RingHolds, Placed
<1> QED
  BY <1>1, ActorStep, BroadcastStep, SinkStep DEF Next

LEMMA BusCorrect == Spec => []BusInv
<1> QED
  BY InitBus, BusStep, PTL DEF Spec

-----------------------------------------------------------------------------
\* Between publish_event and the broadcast no event is lost, repeated or reordered,
\* however often the actor leaves run and comes back.
THEOREM PublishedInOrderCorrect == Spec => []PublishedInOrder
<1>1. ASSUME BusInv PROVE PublishedInOrder
  <2> DEFINE n == Len(sent)
  <2>1. /\ sent \in Seq(Nat) /\ inner \in Seq(Nat) /\ n \in Nat /\ published \in Nat
    BY <1>1, BusAssumption DEF BusInv, DataOK, Event
  <2>2. \A k \in Nat : Iota(k) \in Seq(Nat) /\ Len(Iota(k)) = k /\ \A i \in 1..k : Iota(k)[i] = i
    BY DEF Iota
  <2>3. sent = Iota(n) /\ n <= published
    BY <1>1, <2>1, <2>2, SeqEqual DEF BusInv, InOrder
  <2>4. ASSUME phase # "done" PROVE sent \o inner = Iota(published)
    <3>1. /\ sent \o inner \in Seq(Nat) /\ Len(sent \o inner) = n + Len(inner)
          /\ \A i \in 1..(n + Len(inner)) :
                (sent \o inner)[i] = IF i <= n THEN sent[i] ELSE inner[i - n]
      BY <2>1
    <3>2. /\ n + Len(inner) = published /\ \A i \in 1..n : sent[i] = i
          /\ \A i \in 1..Len(inner) : inner[i] = n + i
      BY <1>1, <2>4 DEF BusInv, InOrder
    <3>3. \A i \in 1..published : (sent \o inner)[i] = i
      BY <2>1, <3>1, <3>2
    <3> QED
      BY <2>1, <2>2, <3>1, <3>2, <3>3, SeqEqual
  <2> QED
    BY <2>3, <2>4 DEF PublishedInOrder
<1> QED
  BY <1>1, BusCorrect, PTL

LEMMA MissesStep ==
    ASSUME BusInv, MissesOnlyOverrun, [Next]_vars
    PROVE  MissesOnlyOverrun'
<1> USE BusAssumption DEF actor, channel, sinks
<1>1. CASE PublishEvent \/ LeavesRun \/ Restarts \/ Terminates \/ UNCHANGED vars
  BY <1>1 DEF PublishEvent, LeavesRun, Restarts, Terminates, vars, MissesOnlyOverrun
<1>2. CASE Broadcast
  <2>1. /\ Len(sent') = Len(sent) + 1 /\ Len(sent) \in Nat
        /\ \A i \in 1..Len(sent) : sent'[i] = sent[i]
    BY <1>2, BroadcastStep DEF Broadcast, BusInv, DataOK
  <2>2. \A s \in Sinks : \A p \in (since[s] + 1)..next[s] : p \in 1..Len(sent)
    BY DEF BusInv, DataOK, Placed, RingHolds
  <2>3. UNCHANGED <<since, next, notified>>
    BY <1>2 DEF Broadcast
  <2>4. ASSUME NEW s \in Sinks, NEW p \in (since[s] + 1)..next[s]
        PROVE  \/ \E i \in 1..Len(notified[s]) : notified[s][i] = sent'[p]
               \/ p + Capacity <= Len(sent')
    <3>1. p \in 1..Len(sent) /\ sent'[p] = sent[p]
      BY <2>1, <2>2, <2>4
    <3>2. \/ \E i \in 1..Len(notified[s]) : notified[s][i] = sent[p]
          \/ p + Capacity <= Len(sent)
      BY <2>4 DEF MissesOnlyOverrun
    <3> QED
      BY <2>1, <3>1, <3>2
  <2> QED
    BY <2>3, <2>4 DEF MissesOnlyOverrun
<1>3. ASSUME NEW s \in Sinks, Subscribe(s) \/ Step(s) PROVE MissesOnlyOverrun'
  <2>0. UNCHANGED <<sent, tail>> /\ tail = Len(sent) /\ tail \in Nat /\ next[s] \in Nat
        /\ since[s] \in Nat
    BY <1>3 DEF Subscribe, Step, Receives, NotifyReturns, LagsBehind, Ends, BusInv, DataOK,
       RingHolds
  <2>1. ASSUME NEW z \in Sinks, z # s
        PROVE  since'[z] = since[z] /\ next'[z] = next[z] /\ notified'[z] = notified[z]
    BY <1>3, <2>1 DEF Subscribe, Step, Receives, NotifyReturns, LagsBehind, Ends, BusInv,
       DataOK
  <2>2. ASSUME NEW p \in (since'[s] + 1)..next'[s]
        PROVE  \/ \E i \in 1..Len(notified'[s]) : notified'[s][i] = sent[p]
               \/ p + Capacity <= Len(sent)
    <3>1. CASE Subscribe(s)
      BY <2>0, <2>2, <3>1 DEF Subscribe, BusInv, DataOK
    <3>2. CASE Receives(s)
      <4>1. /\ ring[next[s] % Capacity] = sent[next[s] + 1]
            /\ sent[next[s] + 1] \in Event
        BY <3>2, ReadsWhatWasSent DEF Receives
      <4>2. /\ notified[s] \in Seq(Event) /\ since'[s] = since[s] /\ next'[s] = next[s] + 1
            /\ notified'[s] = Append(notified[s], sent[next[s] + 1])
        BY <3>2, <4>1 DEF Receives, BusInv, DataOK
      <4>3. /\ Len(notified'[s]) = Len(notified[s]) + 1 /\ Len(notified[s]) \in Nat
            /\ notified'[s][Len(notified[s]) + 1] = sent[next[s] + 1]
            /\ \A i \in 1..Len(notified[s]) : notified'[s][i] = notified[s][i]
        BY <4>1, <4>2
      <4>4. CASE p = next[s] + 1
        BY <4>3, <4>4
      <4>5. CASE p \in (since[s] + 1)..next[s]
        BY <4>3, <4>5 DEF MissesOnlyOverrun
      <4>6. p \in (since[s] + 1)..(next[s] + 1)
        BY <2>2, <4>2
      <4> QED
        BY <2>0, <4>4, <4>5, <4>6, SMTT(30)
    <3>3. CASE NotifyReturns(s) \/ Ends(s)
      BY <2>2, <3>3 DEF NotifyReturns, Ends, MissesOnlyOverrun
    <3>4. CASE LagsBehind(s)
      <4>1. /\ since' = since /\ notified' = notified /\ next'[s] = tail - Capacity
            /\ next[s] < tail - Capacity
        BY <3>4, <2>0, SMTT(30) DEF LagsBehind, Lags, CaughtUp, BusInv, DataOK
      <4> QED
        BY <2>0, <2>2, <4>1
    <3> QED
      BY <1>3, <3>1, <3>2, <3>3, <3>4 DEF Step
  <2>3. ASSUME NEW z \in Sinks, NEW p \in (since'[z] + 1)..next'[z]
        PROVE  \/ \E i \in 1..Len(notified'[z]) : notified'[z][i] = sent'[p]
               \/ p + Capacity <= Len(sent')
    <3>1. CASE z = s
      BY <2>0, <2>2, <2>3, <3>1
    <3>2. CASE z # s
      BY <2>0, <2>1, <2>3, <3>2 DEF MissesOnlyOverrun
    <3> QED
      BY <3>1, <3>2
  <2> QED
    BY <2>3 DEF MissesOnlyOverrun
<1> QED
  BY <1>1, <1>2, <1>3 DEF Next

\* A subscriber misses an event broadcast since it subscribed only if the whole
\* ring was filled anew before it came to read it, whatever the size of the ring.
THEOREM MissesCorrect == Spec => []MissesOnlyOverrun
<1>1. Init => MissesOnlyOverrun
  BY DEF Init, MissesOnlyOverrun
<1>2. BusInv /\ MissesOnlyOverrun /\ [Next]_vars => MissesOnlyOverrun'
  BY MissesStep
<1> QED
  BY <1>1, <1>2, BusCorrect, PTL DEF Spec

-----------------------------------------------------------------------------
(* The refinement: every step is a step of the feed or leaves it alone.    *)

LEMMA FeedInit == Init => Feed!Init
BY DEF Init, Feed!Init

LEMMA FeedStep ==
    ASSUME BusInv, [Next]_vars
    PROVE  [Feed!Next]_(Feed!vars)
<1> USE BusAssumption DEF actor, channel, sinks
<1>1. CASE PublishEvent \/ LeavesRun \/ Restarts \/ UNCHANGED vars
  BY <1>1 DEF PublishEvent, LeavesRun, Restarts, vars, Feed!vars
<1>2. CASE Terminates
  BY <1>2 DEF Terminates, Feed!Next, Feed!Close, Feed!vars
<1>3. CASE Broadcast
  <2>1. EventInHand \in 1..MaxEvents
    BY <1>3, BroadcastStep DEF Event
  <2>2. Feed!Emit
    BY <1>3, <2>1 DEF Broadcast, Feed!Emit
  <2> QED
    BY <2>2 DEF Feed!Next
<1>4. ASSUME NEW s \in Sinks, Subscribe(s) \/ Step(s)
      PROVE  [Feed!Next]_(Feed!vars)
  <2>0. tail = Len(sent) /\ tail \in Nat /\ next[s] \in Nat /\ Len(sent) \in Nat
    BY DEF BusInv, DataOK, RingHolds
  <2>1. CASE Subscribe(s)
    <3>1. Feed!Join(s)
      BY <2>0, <2>1 DEF Subscribe, Feed!Join, BusInv, DataOK
    <3> QED
      BY <3>1 DEF Feed!Next
  <2>2. CASE Receives(s)
    <3>1. /\ next[s] < Len(sent) /\ Len(sent) <= next[s] + Capacity
          /\ notified' = [notified EXCEPT ![s] = Append(@, sent[next[s] + 1])]
          /\ next' = [next EXCEPT ![s] = @ + 1]
          /\ UNCHANGED <<sent, phase>>
      <4>1. ring[next[s] % Capacity] = sent[next[s] + 1]
        BY <2>2, ReadsWhatWasSent DEF Receives
      <4>2. next[s] < tail /\ ~(tail - next[s] > Capacity)
        BY <2>2 DEF Receives, Lags
      <4>3. next[s] < Len(sent) /\ Len(sent) <= next[s] + Capacity
        BY <2>0, <4>2
      <4> QED
        BY <2>2, <4>1, <4>3 DEF Receives
    <3>2. sink[s] = "recv" /\ sink' = [sink EXCEPT ![s] = "notify"]
      BY <2>2 DEF Receives
    <3>3. Feed!Deliver(s)
      BY <3>1, <3>2 DEF Feed!Deliver, BusInv, DataOK
    <3> QED
      BY <3>3 DEF Feed!Next
  <2>3. CASE NotifyReturns(s)
    BY <2>3 DEF NotifyReturns, Feed!vars, BusInv, DataOK
  <2>4. CASE LagsBehind(s)
    <3>1. Feed!Skip(s)
      BY <2>0, <2>4 DEF LagsBehind, Lags, CaughtUp, Feed!Skip, BusInv, DataOK
    <3> QED
      BY <3>1 DEF Feed!Next
  <2>5. CASE Ends(s)
    <3>1. Feed!Leave(s)
      BY <2>0, <2>5 DEF Ends, AtEnd, Feed!Leave, BusInv, DataOK
    <3> QED
      BY <3>1 DEF Feed!Next
  <2> QED
    BY <1>4, <2>1, <2>2, <2>3, <2>4, <2>5 DEF Step
<1> QED
  BY <1>1, <1>2, <1>3, <1>4 DEF Next

\* The ring, the positions of its receivers and the tasks of the sinks implement the
\* feed subscribers may rely on, for a ring of any size and any number of sinks.
THEOREM FeedImplemented == Spec => ImplementsFeed
<1>1. Init => Feed!Init
  BY FeedInit
<1>2. BusInv /\ [Next]_vars => [Feed!Next]_(Feed!vars)
  BY FeedStep
<1> QED
  BY <1>1, <1>2, BusCorrect, PTL DEF Spec, Feed!Spec, ImplementsFeed

=============================================================================
