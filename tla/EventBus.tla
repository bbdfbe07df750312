------------------------------ MODULE EventBus ------------------------------
(***************************************************************************)
(* The events of one actor on their way to its subscribers: publish_event  *)
(* puts an event in the runner's queue of InnerActions, inner_handle       *)
(* broadcasts it (actor/src/runner.rs), and each Sink, a task of its own,  *)
(* receives and notifies (actor/src/sink.rs). The broadcast channel is     *)
(* Tokio's: a ring of slots, a tail that counts what was sent, and a       *)
(* position for each receiver.                                             *)
(*                                                                         *)
(* Events are numbers in the order of their publication.                   *)
(***************************************************************************)
EXTENDS Integers, Sequences

CONSTANTS
    Sinks,
    Capacity,       \* slots of the ring (10000 in the code, which Tokio rounds up)
    MaxEvents,      \* bound: events published
    MaxRestarts     \* bound: restarts of the actor

ASSUME BusAssumption == Capacity \in Nat \ {0} /\ MaxEvents \in Nat /\ MaxRestarts \in Nat

VARIABLES
    phase,          \* the runner: in run, out of it (its hooks still run), or done
    restarts,       \* how often run was entered again
    published,      \* how many events user code has published
    inner,          \* the channel of InnerActions: the events queued
    ring, tail,     \* the broadcast channel
    sink,           \* each sink: none, recv, notify or ended
    next,           \* the position of its receiver
    since,          \* history: its position when it subscribed
    notified,       \* history: the events its subscriber was notified of
    sent            \* history: the events broadcast

actor == <<phase, restarts, published, inner>>
channel == <<ring, tail, sent>>
sinks == <<sink, next, since, notified>>
vars == <<actor, channel, sinks>>

Init ==
    /\ phase = "running" /\ restarts = 0 /\ published = 0 /\ inner = <<>>
    /\ ring = [i \in 0..(Capacity - 1) |-> 0] /\ tail = 0 /\ sent = <<>>
    /\ sink = [s \in Sinks |-> "none"] /\ next = [s \in Sinks |-> 0]
    /\ since = [s \in Sinks |-> 0] /\ notified = [s \in Sinks |-> <<>>]

-----------------------------------------------------------------------------
(* The actor.                                                              *)

\* ctx.publish_event, in any hook: also in pre_stop and post_stop.
PublishEvent ==
    /\ phase # "done" /\ published < MaxEvents
    /\ published' = published + 1
    /\ inner' = Append(inner, published + 1)
    /\ UNCHANGED <<phase, restarts, channel, sinks>>

\* Mutant: the newest event is broadcast first.
EventInHandNewest == inner[Len(inner)]

EventInHand == Head(inner)

\* inner_handle of an Event: event_sender.send fills the next slot, whoever has not
\* read it. (Without any receiver send drops the event with an error that is only
\* logged; here it takes its slot, which nobody reads: a later receiver starts at tail.)
Broadcast ==
    /\ phase = "running" /\ inner # <<>>
    /\ ring' = [ring EXCEPT ![tail % Capacity] = EventInHand]
    /\ tail' = tail + 1
    /\ sent' = Append(sent, EventInHand)
    /\ inner' = Tail(inner)
    /\ UNCHANGED <<phase, restarts, published, sinks>>

\* The stop branch: run returns, and what is queued stays queued.
LeavesRun ==
    /\ phase = "running"
    /\ phase' = "left"
    /\ UNCHANGED <<restarts, published, inner, channel, sinks>>

\* A root actor with a Retry strategy and an error set is restarted.
Restarts ==
    /\ phase = "left" /\ restarts < MaxRestarts
    /\ phase' = "running" /\ restarts' = restarts + 1
    /\ UNCHANGED <<published, inner, channel, sinks>>

\* The runner is dropped: with it the queue and the sender of the broadcast.
Terminates ==
    /\ phase = "left"
    /\ phase' = "done" /\ inner' = <<>>
    /\ UNCHANGED <<restarts, published, channel, sinks>>

-----------------------------------------------------------------------------
(* The sinks.                                                              *)

\* ActorRef::subscribe (resubscribe: from the next event on), Sink::new and run_sink.
Subscribe(s) ==
    /\ sink[s] = "none"
    /\ sink' = [sink EXCEPT ![s] = "recv"]
    /\ next' = [next EXCEPT ![s] = tail] /\ since' = [since EXCEPT ![s] = tail]
    /\ UNCHANGED <<actor, channel, notified>>

\* Mutant: a receiver is taken to lag only when one slot more was overwritten.
LagsLate(s) == tail - next[s] > Capacity + 1

Lags(s) == tail - next[s] > Capacity

\* recv returns an event, and notify is called.
Receives(s) ==
    /\ sink[s] = "recv" /\ next[s] < tail /\ ~Lags(s)
    /\ notified' = [notified EXCEPT ![s] = Append(@, ring[next[s] % Capacity])]
    /\ next' = [next EXCEPT ![s] = @ + 1]
    /\ sink' = [sink EXCEPT ![s] = "notify"]
    /\ UNCHANGED <<actor, channel, since>>

NotifyReturns(s) ==
    /\ sink[s] = "notify"
    /\ sink' = [sink EXCEPT ![s] = "recv"]
    /\ UNCHANGED <<actor, channel, next, since, notified>>

\* Mutant: a sink that lags goes on with the next event to come.
CaughtUpToTail(s) == tail

\* After Lagged the receiver is at the oldest event retained.
CaughtUp(s) == tail - Capacity

\* recv returns Lagged: the loop goes on.
LagsBehind(s) ==
    /\ sink[s] = "recv" /\ Lags(s)
    /\ next' = [next EXCEPT ![s] = CaughtUp(s)]
    /\ UNCHANGED <<actor, channel, sink, since, notified>>

\* Mutant: the sink ends with its actor, whatever is left to read.
AtEndAtOnce(s) == phase = "done"

AtEnd(s) == phase = "done" /\ next[s] = tail

\* recv returns Closed once everything retained was read: the loop ends.
Ends(s) ==
    /\ sink[s] = "recv" /\ AtEnd(s)
    /\ sink' = [sink EXCEPT ![s] = "ended"]
    /\ UNCHANGED <<actor, channel, next, since, notified>>

Step(s) == Receives(s) \/ NotifyReturns(s) \/ LagsBehind(s) \/ Ends(s)

Next == \/ PublishEvent \/ Broadcast \/ LeavesRun \/ Restarts \/ Terminates
        \/ \E s \in Sinks : Subscribe(s) \/ Step(s)

Spec == Init /\ [][Next]_vars

\* The tasks of the actor and of the sinks are polled, subscribers' notify returns, and
\* select! is fair to the queue. Nobody need publish or stop.
FairSpec ==
    /\ Spec /\ WF_vars(Broadcast) /\ WF_vars(Restarts \/ Terminates)
    /\ \A s \in Sinks : WF_vars(Step(s))

-----------------------------------------------------------------------------
Iota(n) == [i \in 1..n |-> i]

\* Between publication and broadcast no event is lost, repeated or reordered, over
\* restarts too; what is still queued when the runner ends is lost at the end only.
PublishedInOrder ==
    IF phase = "done" THEN sent = Iota(Len(sent)) /\ Len(sent) <= published
    ELSE sent \o inner = Iota(published)

\* A subscriber misses an event broadcast since it subscribed only if Capacity
\* newer ones were broadcast before it came to read it.
MissesOnlyOverrun ==
    \A s \in Sinks : \A p \in (since[s] + 1)..next[s] :
        \/ \E i \in 1..Len(notified[s]) : notified[s][i] = sent[p]
        \/ p + Capacity <= Len(sent)

\* When the actor is gone every sink reads what the channel still holds and ends: no
\* task is left behind, no event that is retained is dropped.
SinksDrain ==
    \A s \in Sinks :
        phase = "done" /\ sink[s] # "none" ~> sink[s] = "ended" /\ next[s] = tail

Feed == INSTANCE EventFeed WITH
    Events <- 1..MaxEvents, Window <- Capacity,
    feed <- sent,
    open <- phase # "done",
    status <- [s \in Sinks |-> CASE sink[s] = "none" -> "out"
                                 [] sink[s] = "ended" -> "ended"
                                 [] OTHER -> "in"],
    at <- next,
    log <- notified

\* The ring, its positions and the tasks implement a feed that is read in order.
ImplementsFeed == Feed!Spec

=============================================================================
