----------------------------- MODULE ActorSystem -----------------------------
(***************************************************************************)
(* SystemRef and SystemRunner (actor/src/system.rs): the registry of       *)
(* actors, the creation of root actors by concurrent callers, and the task *)
(* that shuts the system down when its token is cancelled.                 *)
(*                                                                         *)
(* An element of Actors is one call of create_root_actor and the actor it  *)
(* creates, if it does; PathOf gives its path, and two calls may ask for   *)
(* the same one. Each actor's runner is reduced to the steps the system    *)
(* sees (module ActorRunner has the others): it starts or fails to, leaves *)
(* run (removing its path and confirming the stop), and terminates         *)
(* (removing its path again). Its supervision strategy is Stop and its     *)
(* task does not panic: restarts and panics are ActorRunner's.             *)
(***************************************************************************)
EXTENDS Integers, Sequences, FiniteSets

CONSTANTS
    Actors,         \* calls of create_root_actor
    Paths,
    PathOf,         \* the path each call asks for
    NoActor,        \* no entry in the registry
    LateCreation    \* calls may be under way when the token is cancelled, or come later

ASSUME PathAssumption == PathOf \in [Actors -> Paths]
ASSUME NoActorAssumption == NoActor \notin Actors
ASSUME EnvironmentAssumption == LateCreation \in BOOLEAN

VARIABLES
    creator,        \* where each create_root_actor is
    phase,          \* what each actor's runner is doing
    stop_queue,     \* each actor's stop channel
    actors,         \* SystemRef.actors
    root_senders,   \* SystemRef.root_senders, as the actors they stop
    cancelled,      \* the CancellationToken
    shutdown,       \* where the shutdown task is
    target,         \* the actor whose confirmation the shutdown task awaits
    pushed,         \* history: every sender put in root_senders, in order
    alone,          \* history: actors asked to stop otherwise than by the shutdown
    runner          \* SystemRunner::run

calls == <<creator, phase, stop_queue>>
teardown == <<cancelled, shutdown, target, runner>>
roots == <<root_senders, pushed, alone>>
vars == <<calls, actors, roots, teardown>>

Init ==
    /\ creator = [a \in Actors |-> "idle"]
    /\ phase = [a \in Actors |-> "none"]
    /\ stop_queue = [a \in Actors |-> <<>>]
    /\ actors = [p \in Paths |-> NoActor]
    /\ root_senders = <<>>
    /\ cancelled = FALSE /\ shutdown = "waiting" /\ target = NoActor
    /\ pushed = <<>> /\ alone = {} /\ runner = "running"

\* Mutant: the lock is not released when the shutdown task ends.
LockFreeAtFirst == shutdown = "waiting"

\* The shutdown task holds root_senders' write lock from its first pop to its end.
LockFree == shutdown \in {"waiting", "finished", "aborted"}

-----------------------------------------------------------------------------
(* create_root_actor. The check and the insertion take the registry's lock *)
(* separately.                                                             *)

UnderWay(a) == creator[a] \in {"checked", "awaiting_start", "started"}

CheckFree(a) ==
    /\ creator[a] = "idle"
    /\ LateCreation \/ ~cancelled
    /\ creator' = [creator EXCEPT ![a] =
                      IF actors[PathOf[a]] # NoActor THEN "exists" ELSE "checked"]
    /\ UNCHANGED <<phase, stop_queue, actors, roots, teardown>>

\* Mutant: the actor is spawned without an entry in the registry.
InsertForgotten(a) == actors

Insert(a) == [actors EXCEPT ![PathOf[a]] = a]

\* The entry is made, whatever the registry holds by now, and the runner spawned.
InsertAndSpawn(a) ==
    /\ creator[a] = "checked"
    /\ actors' = Insert(a)
    /\ phase' = [phase EXCEPT ![a] = "starting"]
    /\ creator' = [creator EXCEPT ![a] = "awaiting_start"]
    /\ UNCHANGED <<stop_queue, roots, teardown>>

\* Mutant: the sender is put before the others.
KeptInFront(a) == <<a>> \o root_senders

Kept(a) == Append(root_senders, a)

\* The stop sender is kept for the shutdown, once the lock can be had.
PushSender(a) ==
    /\ creator[a] = "started" /\ LockFree
    /\ root_senders' = Kept(a)
    /\ pushed' = Append(pushed, a)
    /\ creator' = [creator EXCEPT ![a] = "returned"]
    /\ UNCHANGED <<phase, stop_queue, actors, alone, teardown>>

-----------------------------------------------------------------------------
(* The runner of an actor, as the system sees it.                          *)

\* Mutant: remove_actor is not called.
RemoveForgotten(a) == actors

\* remove_actor goes by the path: it does not look whose entry it removes.
Remove(a) == [actors EXCEPT ![PathOf[a]] = NoActor]

Starts(a) ==
    /\ phase[a] = "starting"
    /\ phase' = [phase EXCEPT ![a] = "running"]
    /\ creator' = [creator EXCEPT ![a] = "started"]
    /\ UNCHANGED <<stop_queue, actors, roots, teardown>>

FailsToStart(a) ==
    /\ phase[a] = "starting"
    /\ phase' = [phase EXCEPT ![a] = "ended"]
    /\ creator' = [creator EXCEPT ![a] = "failed"]
    /\ actors' = Remove(a)
    /\ UNCHANGED <<stop_queue, roots, teardown>>

\* run's stop branch: pre_stop, stop_childs, remove_actor, the confirmation.
LeavesRun(a) ==
    /\ phase[a] = "running" /\ stop_queue[a] # <<>>
    /\ actors' = Remove(a)
    /\ phase' = [phase EXCEPT ![a] = "stopped"]
    /\ stop_queue' = [stop_queue EXCEPT ![a] = Tail(@)]
    /\ shutdown' = IF Head(stop_queue[a]) = "shutdown" THEN "confirmed" ELSE shutdown
    /\ UNCHANGED <<creator, roots, cancelled, target, runner>>

\* post_stop has run: remove_actor once more, and the channels are dropped; the
\* shutdown task takes a dropped oneshot for a confirmation.
Terminates(a) ==
    /\ phase[a] = "stopped"
    /\ actors' = Remove(a)
    /\ phase' = [phase EXCEPT ![a] = "ended"]
    /\ stop_queue' = [stop_queue EXCEPT ![a] = <<>>]
    /\ shutdown' = IF shutdown = "awaiting" /\ target = a THEN "confirmed" ELSE shutdown
    /\ UNCHANGED <<creator, roots, cancelled, target, runner>>

\* A caller, or the actor itself, asks it to stop (ask_stop, tell_stop, ctx.stop);
\* one such request is enough.
StopOne(a) ==
    /\ phase[a] = "running" /\ stop_queue[a] = <<>>
    /\ stop_queue' = [stop_queue EXCEPT ![a] = Append(@, "caller")]
    /\ alone' = alone \cup {a}
    /\ UNCHANGED <<creator, phase, actors, root_senders, pushed, teardown>>

-----------------------------------------------------------------------------
(* The shutdown task of SystemRef::new, and SystemRunner::run.             *)

\* stop_system, or whoever else holds the token.
Cancel ==
    /\ ~cancelled
    /\ LateCreation \/ \A a \in Actors : ~UnderWay(a)
    /\ cancelled' = TRUE
    /\ UNCHANGED <<calls, actors, roots, shutdown, target, runner>>

BeginShutdown ==
    /\ cancelled /\ shutdown = "waiting"
    /\ shutdown' = "popping"
    /\ UNCHANGED <<calls, actors, roots, cancelled, target, runner>>

LastSender == root_senders[Len(root_senders)]

\* Mutant: the result of the send is taken the wrong way round.
SendSucceeds(a) == phase[a] # "ended"

SendFails(a) == phase[a] = "ended"

\* The last sender is popped and its actor, still there, is asked to stop.
PopAndAsk ==
    /\ shutdown = "popping" /\ root_senders # <<>>
    /\ ~SendFails(LastSender)
    /\ stop_queue' = [stop_queue EXCEPT ![LastSender] = Append(@, "shutdown")]
    /\ root_senders' = SubSeq(root_senders, 1, Len(root_senders) - 1)
    /\ target' = LastSender
    /\ shutdown' = "awaiting"
    /\ UNCHANGED <<creator, phase, actors, pushed, alone, cancelled, runner>>

\* The last sender is popped, its actor is gone: the send fails and the task
\* returns, which drops the only sender of system events.
PopAndAbort ==
    /\ shutdown = "popping" /\ root_senders # <<>>
    /\ SendFails(LastSender)
    /\ root_senders' = SubSeq(root_senders, 1, Len(root_senders) - 1)
    /\ shutdown' = "aborted"
    /\ UNCHANGED <<calls, actors, pushed, alone, cancelled, target, runner>>

GotConfirmation ==
    /\ shutdown = "confirmed"
    /\ target' = NoActor
    /\ shutdown' = "popping"
    /\ UNCHANGED <<calls, actors, roots, cancelled, runner>>

\* No sender is left: StopSystem is sent, the lock released.
FinishShutdown ==
    /\ shutdown = "popping" /\ root_senders = <<>>
    /\ shutdown' = "finished"
    /\ UNCHANGED <<calls, actors, roots, cancelled, target, runner>>

\* run's select! has one branch and no else: StopSystem ends it, a closed channel
\* disables the branch, and the macro panics.
SystemRunnerEnds ==
    /\ runner = "running" /\ shutdown \in {"finished", "aborted"}
    /\ runner' = IF shutdown = "finished" THEN "returned" ELSE "panicked"
    /\ UNCHANGED <<calls, actors, roots, cancelled, shutdown, target>>

-----------------------------------------------------------------------------
Creation(a) == CheckFree(a) \/ InsertAndSpawn(a) \/ PushSender(a)

Runner(a) == Starts(a) \/ FailsToStart(a) \/ LeavesRun(a) \/ Terminates(a)

Shutdown == BeginShutdown \/ PopAndAsk \/ PopAndAbort \/ GotConfirmation \/ FinishShutdown

Next == \/ \E a \in Actors : Creation(a) \/ Runner(a) \/ StopOne(a)
        \/ Cancel \/ Shutdown \/ SystemRunnerEnds

Spec == Init /\ [][Next]_vars

\* Tasks that are ready are polled, calls under way go on, and the system's token
\* may or may not be cancelled. A fair RwLock lets each waiting caller in.
Fairness == /\ \A a \in Actors : /\ WF_vars(InsertAndSpawn(a)) /\ WF_vars(PushSender(a))
                                 /\ WF_vars(Runner(a))
            /\ WF_vars(Shutdown) /\ WF_vars(SystemRunnerEnds)

FairSpec == Spec /\ Fairness

-----------------------------------------------------------------------------
\* Every variable has a value its Rust counterpart can have.
TypeOK ==
    /\ creator \in [Actors -> {"idle", "checked", "exists", "awaiting_start",
                               "started", "failed", "returned"}]
    /\ phase \in [Actors -> {"none", "starting", "running", "stopped", "ended"}]
    /\ stop_queue \in [Actors -> Seq({"caller", "shutdown"})]
    /\ actors \in [Paths -> Actors \cup {NoActor}]
    /\ root_senders \in Seq(Actors) /\ pushed \in Seq(Actors) /\ alone \subseteq Actors
    /\ cancelled \in BOOLEAN
    /\ shutdown \in {"waiting", "popping", "awaiting", "confirmed", "finished", "aborted"}
    /\ target \in Actors \cup {NoActor}
    /\ runner \in {"running", "returned", "panicked"}

\* What get_actor returns is an actor of that path which has not confirmed a stop,
\* whatever calls race for the path.
LookupFindsLiveActor ==
    \A p \in Paths : actors[p] # NoActor =>
        PathOf[actors[p]] = p /\ phase[actors[p]] \in {"starting", "running"}

\* No other call for the path of a has passed the check of create_root_actor: it has
\* not been made or was refused.
Uncontested(a) ==
    \A b \in Actors : PathOf[b] = PathOf[a] /\ b # a => creator[b] \in {"idle", "exists"}

\* get_actor "Retrieves an actor running in this actor system": it finds a running
\* actor whatever else is created, stopped or shut down meanwhile, and however many
\* calls for the same path are refused. Only another call that passed the check for
\* that path can hide it.
RunningActorFound ==
    \A a \in Actors : phase[a] = "running" /\ Uncontested(a) => actors[PathOf[a]] = a

\* The shutdown task "Stops all root actors in order, waiting for each to confirm":
\* when it ends, every actor that was created before has confirmed.
ShutdownStopsAll ==
    shutdown \in {"finished", "aborted"} =>
        \A a \in Actors : creator[a] = "returned" => phase[a] \in {"stopped", "ended"}

\* stop_system stops the root actors one by one, each only after the one before it
\* has confirmed: every actor whose sender the shutdown task has popped has stopped,
\* but for the one it is waiting for. So a shutdown that finishes leaves none of the
\* actors it found running. And it goes against the order of creation: while it waits
\* for an actor, all whose creation was completed after that actor's have stopped.
OrderlyShutdown ==
    /\ \A i \in 1..Len(pushed) :
          \/ \E k \in 1..Len(root_senders) : root_senders[k] = pushed[i]
          \/ shutdown = "awaiting" /\ target = pushed[i]
          \/ phase[pushed[i]] \in {"stopped", "ended"}
    /\ shutdown = "awaiting" =>
          \A i, k \in 1..Len(pushed) :
              pushed[i] = target /\ i < k => phase[pushed[k]] \in {"stopped", "ended"}

\* A cancelled token ends the system: SystemRunner::run returns, however creations
\* and stops race with the shutdown. It panics instead only when the shutdown task
\* came upon an actor that somebody else had stopped.
ShutdownCompletes ==
    cancelled ~> \/ runner = "returned"
                 \/ runner = "panicked" /\ \E a \in alone : phase[a] = "ended"

\* create_root_actor returns even when it races with the shutdown for the lock.
CreationReturns ==
    \A a \in Actors : UnderWay(a) ~> creator[a] \in {"failed", "returned"}

=============================================================================
