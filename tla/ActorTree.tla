------------------------------ MODULE ActorTree ------------------------------
(***************************************************************************)
(* A tree of actors: how creation, faults, restarts and stops of parents   *)
(* and children meet (actor/src/runner.rs, actor/src/actor.rs). Each actor *)
(* runs the loop of ActorRunner::init; module ActorRunner has one runner   *)
(* in full, here messages, events and errors that stop nothing are left    *)
(* out, and the parent of an actor is another runner instead of a caller   *)
(* that answers sooner or later. Paths are those of module ActorPath.      *)
(*                                                                         *)
(* An element of Actors is created at most once. `pc` is where its task is *)
(* suspended; a task whose `waits` is set is suspended inside create_child *)
(* or stop_childs until that child reports.                                *)
(***************************************************************************)
EXTENDS ActorPath, FiniteSets

CONSTANTS
    Actors,
    NoActor,
    Parent,         \* the actor whose hooks may create it; NoActor for the root
    NameOf,         \* the name it is created under, a text
    Retry,          \* supervision_strategy() is Retry, otherwise Stop
    MaxRetries,     \* max_retries() of that strategy
    FailingHooks,   \* the hooks that may return an error
    CreatingHooks,  \* the hooks in which user code may create children
    EmittingHooks   \* the hooks in which it may call emit_fail

Hooks == {"pre_start", "pre_restart", "handle_message", "on_child_fault", "pre_stop",
          "post_stop"}

ASSUME TreeAssumption == /\ NoActor \notin Actors
                         /\ Parent \in [Actors -> Actors \cup {NoActor}]
ASSUME HookAssumption == FailingHooks \cup CreatingHooks \cup EmittingHooks \subseteq Hooks
ASSUME StrategyAssumption == Retry \in BOOLEAN /\ MaxRetries \in Nat

VARIABLES
    pc,             \* where each task is suspended
    lifecycle,      \* ActorRunner.lifecycle
    error,          \* ctx.error.is_some()
    fail,           \* a Fail is in the channel of InnerActions
    stop_signal,    \* ActorRunner.stop_signal
    retries,        \* the local retries of init
    waits,          \* the child whose start or stop the task awaits
    serving,        \* whose stop request, or whose Fault, the task is serving
    child_senders,  \* ctx.child_senders, as the children they stop
    stop_queue,     \* the stop channel: NoActor for a request nobody waits for
    error_queue,    \* the Faults of children, in the channel of ChildErrors
    action,         \* the answer to the actor's own Fault
    actors,         \* SystemRef.actors: the paths registered
    born,           \* history: the parent's hook that created the actor
    left            \* history: the actor has left run

run == <<pc, lifecycle, error, fail, stop_signal, retries>>
family == <<waits, serving, child_senders, stop_queue, error_queue, action>>
vars == <<run, family, actors, born, left>>

ChildActions == {"Stop", "Restart", "Delegate"}

\* create_root_actor's ActorPath::from("/user") / name, create_child's path / name.
Path[a \in Actors] ==
    Div(IF Parent[a] = NoActor THEN From(<<"/", "u">>) ELSE Path[Parent[a]], NameOf[a])

IsRoot(a) == Parent[a] = NoActor

\* The root has been created and is about to run pre_start.
Init ==
    /\ pc = [a \in Actors |-> IF IsRoot(a) THEN "pre_start" ELSE "none"]
    /\ lifecycle = [a \in Actors |-> "Created"]
    /\ error = [a \in Actors |-> FALSE] /\ fail = [a \in Actors |-> FALSE]
    /\ stop_signal = [a \in Actors |-> FALSE] /\ retries = [a \in Actors |-> 0]
    /\ waits = [a \in Actors |-> NoActor] /\ serving = [a \in Actors |-> NoActor]
    /\ child_senders = [a \in Actors |-> <<>>] /\ stop_queue = [a \in Actors |-> <<>>]
    /\ error_queue = [a \in Actors |-> <<>>] /\ action = [a \in Actors |-> "none"]
    /\ actors = {Path[a] : a \in {b \in Actors : IsRoot(b)}}
    /\ born = [a \in Actors |-> "none"] /\ left = [a \in Actors |-> FALSE]

At(a, p) == pc[a] = p /\ waits[a] = NoActor

\* The task of a goes on at p, with the given lifecycle.
GoTo(a, p, l) == /\ pc' = [pc EXCEPT ![a] = p]
                 /\ lifecycle' = [lifecycle EXCEPT ![a] = l]

Listening(a) == At(a, "select") /\ ~stop_signal[a]

-----------------------------------------------------------------------------
(* User code, in any hook.                                                 *)

InHook(a, hooks) == pc[a] \in hooks /\ waits[a] = NoActor

EmitFail(a) ==
    /\ InHook(a, EmittingHooks) /\ ~fail[a]
    /\ fail' = [fail EXCEPT ![a] = TRUE] /\ error' = [error EXCEPT ![a] = TRUE]
    /\ UNCHANGED <<pc, lifecycle, stop_signal, retries, family, actors, born, left>>

\* ctx.stop(None), or a caller of tell_stop; one request at a time is enough.
RequestStop(a) ==
    /\ pc[a] \notin {"none", "done"} /\ stop_queue[a] = <<>>
    /\ stop_queue' = [stop_queue EXCEPT ![a] = <<NoActor>>]
    /\ UNCHANGED <<run, waits, serving, child_senders, error_queue, action, actors, born, left>>

\* create_child up to the spawn; the creator then waits for the start signal.
CreateChild(a, c) ==
    /\ InHook(a, CreatingHooks) /\ Parent[c] = a /\ pc[c] = "none"
    /\ Path[c] \notin actors
    /\ pc' = [pc EXCEPT ![c] = "pre_start"]
    /\ waits' = [waits EXCEPT ![a] = c]
    /\ born' = [born EXCEPT ![c] = pc[a]]
    /\ actors' = actors \cup {Path[c]}
    /\ UNCHANGED <<lifecycle, error, fail, stop_signal, retries, serving, child_senders,
                   stop_queue, error_queue, action, left>>

Kept(c) == [child_senders EXCEPT ![Parent[c]] = Append(@, c)]

Released(a) == [waits EXCEPT ![a] = NoActor]

-----------------------------------------------------------------------------
(* The loop of init.                                                       *)

\* pre_start returns Ok: the actor is Started, its creator is told, run begins.
Starts(a) ==
    /\ At(a, "pre_start")
    /\ GoTo(a, "select", "Started")
    /\ IF IsRoot(a) THEN UNCHANGED <<waits, child_senders>>
       ELSE waits' = Released(Parent[a]) /\ child_senders' = Kept(a)
    /\ UNCHANGED <<error, fail, stop_signal, retries, serving, stop_queue, error_queue,
                   action, actors, born, left>>

FailsToStart(a) ==
    /\ At(a, "pre_start") /\ "pre_start" \in FailingHooks
    /\ GoTo(a, "loop", "Failed")
    /\ error' = [error EXCEPT ![a] = TRUE]
    /\ UNCHANGED <<fail, stop_signal, retries, family, actors, born, left>>

LoopFailed(a) ==
    /\ At(a, "loop") /\ lifecycle[a] = "Failed"
    /\ GoTo(a, "loop", IF IsRoot(a) THEN "Restarted" ELSE "Terminated")
    /\ UNCHANGED <<error, fail, stop_signal, retries, family, actors, born, left>>

MayRetry(a) == Retry /\ retries[a] < MaxRetries

TryRestart(a) ==
    /\ At(a, "loop") /\ lifecycle[a] = "Restarted" /\ MayRetry(a)
    /\ GoTo(a, "pre_restart", "Restarted")
    /\ retries' = [retries EXCEPT ![a] = @ + 1]
    /\ UNCHANGED <<error, fail, stop_signal, family, actors, born, left>>

GiveUp(a) ==
    /\ At(a, "loop") /\ lifecycle[a] = "Restarted" /\ ~MayRetry(a)
    /\ GoTo(a, "loop", "Stopped")
    /\ UNCHANGED <<error, fail, stop_signal, retries, family, actors, born, left>>

\* pre_restart succeeds: run begins again, with stop_signal as it was left.
Restarts(a) ==
    /\ At(a, "pre_restart")
    /\ GoTo(a, "select", "Started")
    /\ retries' = [retries EXCEPT ![a] = 0]
    /\ UNCHANGED <<error, fail, stop_signal, family, actors, born, left>>

FailsToRestart(a) ==
    /\ At(a, "pre_restart") /\ "pre_restart" \in FailingHooks
    /\ GoTo(a, "loop", "Restarted")
    /\ error' = [error EXCEPT ![a] = TRUE]
    /\ UNCHANGED <<fail, stop_signal, retries, family, actors, born, left>>

LoopStopped(a) ==
    /\ At(a, "loop") /\ lifecycle[a] = "Stopped"
    /\ GoTo(a, "post_stop", "Stopped")
    /\ UNCHANGED <<error, fail, stop_signal, retries, family, actors, born, left>>

PostStopReturns(a) ==
    /\ At(a, "post_stop")
    /\ GoTo(a, "loop", "Terminated")
    /\ UNCHANGED <<error, fail, stop_signal, retries, family, actors, born, left>>


\* The children whose Fault was still queued, or is being served, see its oneshot
\* go away.
OrphanedFaults(a) == [c \in Actors |->
    IF c \in ToSet(error_queue[a]) THEN "gone" ELSE action[c]]

\* Terminated: the path is removed, a creator that still waits gets an error, and
\* with the runner go its channels, and what is queued in them.
Terminates(a) ==
    /\ At(a, "loop") /\ lifecycle[a] = "Terminated"
    /\ GoTo(a, "done", "Terminated")
    /\ actors' = actors \ {Path[a]}
    /\ action' = OrphanedFaults(a)
    /\ waits' = IF ~IsRoot(a) /\ waits[Parent[a]] = a THEN Released(Parent[a]) ELSE waits
    /\ stop_queue' = [stop_queue EXCEPT ![a] = <<>>]
    /\ error_queue' = [error_queue EXCEPT ![a] = <<>>]
    /\ fail' = [fail EXCEPT ![a] = FALSE]
    /\ UNCHANGED <<error, stop_signal, retries, serving, child_senders, born, left>>

-----------------------------------------------------------------------------
(* The select! of run.                                                     *)

StopBranch(a) ==
    /\ At(a, "select") /\ stop_queue[a] # <<>>
    /\ GoTo(a, "pre_stop", lifecycle[a])
    /\ serving' = [serving EXCEPT ![a] = Head(stop_queue[a])]
    /\ stop_queue' = [stop_queue EXCEPT ![a] = Tail(@)]
    /\ UNCHANGED <<error, fail, stop_signal, retries, waits, child_senders, error_queue,
                   action, actors, born, left>>

MessageBranch(a) ==
    /\ Listening(a)
    /\ GoTo(a, "handle_message", lifecycle[a])
    /\ UNCHANGED <<error, fail, stop_signal, retries, family, actors, born, left>>

MessageHandled(a) ==
    /\ At(a, "handle_message")
    /\ GoTo(a, "select", lifecycle[a])
    /\ UNCHANGED <<error, fail, stop_signal, retries, family, actors, born, left>>

\* ErrorBranch: a Fault of a child.
FaultBranch(a) ==
    /\ Listening(a) /\ error_queue[a] # <<>>
    /\ GoTo(a, "on_child_fault", lifecycle[a])
    /\ serving' = [serving EXCEPT ![a] = Head(error_queue[a])]
    /\ error_queue' = [error_queue EXCEPT ![a] = Tail(@)]
    /\ UNCHANGED <<error, fail, stop_signal, retries, waits, child_senders, stop_queue,
                   action, actors, born, left>>

\* on_child_fault returns, and the child's oneshot gets its answer.
FaultAnswer(a, act) ==
    /\ At(a, "on_child_fault")
    /\ GoTo(a, "select", lifecycle[a])
    /\ action' = [action EXCEPT ![serving[a]] = act]
    /\ serving' = [serving EXCEPT ![a] = NoActor]
    /\ UNCHANGED <<error, fail, stop_signal, retries, waits, child_senders, stop_queue,
                   error_queue, actors, born, left>>

\* The runner's own ctx.stop(None).
StopsItself(a) == /\ stop_queue' = [stop_queue EXCEPT ![a] = Append(@, NoActor)]
                  /\ stop_signal' = [stop_signal EXCEPT ![a] = TRUE]

\* inner_handle of a Fail in the root.
RootFails(a) ==
    /\ Listening(a) /\ fail[a] /\ IsRoot(a)
    /\ fail' = [fail EXCEPT ![a] = FALSE]
    /\ StopsItself(a)
    /\ UNCHANGED <<pc, lifecycle, error, retries, waits, serving, child_senders, error_queue,
                   action, actors, born, left>>

\* ... and in a child: the Fault goes to the parent, if that is still there, and
\* the child waits for the answer.
ChildFails(a) ==
    /\ Listening(a) /\ fail[a] /\ ~IsRoot(a)
    /\ fail' = [fail EXCEPT ![a] = FALSE]
    /\ GoTo(a, "await_action", lifecycle[a])
    /\ IF pc[Parent[a]] = "done"
       THEN action' = [action EXCEPT ![a] = "gone"] /\ UNCHANGED error_queue
       ELSE /\ action' = [action EXCEPT ![a] = "asked"]
            /\ error_queue' = [error_queue EXCEPT ![Parent[a]] = Append(@, a)]
    /\ UNCHANGED <<error, stop_signal, retries, waits, serving, child_senders, stop_queue,
                   actors, born, left>>

ActionReceived(a) ==
    /\ At(a, "await_action") /\ action[a] \in ChildActions \cup {"gone"}
    /\ GoTo(a, "select", IF action[a] \in {"Restart", "Delegate"} THEN "Restarted"
                                                                  ELSE lifecycle[a])
    /\ error' = [error EXCEPT ![a] = @ /\ action[a] = "gone"]
    /\ action' = [action EXCEPT ![a] = "none"]
    /\ StopsItself(a)
    /\ UNCHANGED <<fail, retries, waits, serving, child_senders, error_queue, actors, born,
                   left>>

-----------------------------------------------------------------------------
(* The rest of the stop branch.                                            *)

PreStopReturns(a, ok) ==
    /\ At(a, "pre_stop") /\ (ok \/ "pre_stop" \in FailingHooks)
    /\ GoTo(a, "stop_childs", lifecycle[a])
    /\ error' = [error EXCEPT ![a] = @ \/ ~ok]
    /\ fail' = [fail EXCEPT ![a] = @ \/ ~ok]
    /\ UNCHANGED <<stop_signal, retries, family, actors, born, left>>

\* Mutant: stop_childs does not wait for the confirmation.
AwaitedSkipped(a, c) == waits

\* Mutant: a child that is gone is waited for like the others.
AwaitedAlways(a, c) == [waits EXCEPT ![a] = c]

\* The oneshot a child confirms its stop on is awaited, unless the send failed.
Awaited(a, c) == IF pc[c] = "done" THEN waits ELSE [waits EXCEPT ![a] = c]

\* stop_childs pops the last sender and asks that child to stop; a child that is
\* gone is passed over.
StopNextChild(a) ==
    /\ At(a, "stop_childs") /\ child_senders[a] # <<>>
    /\ LET c == Last(child_senders[a])
       IN  /\ waits' = Awaited(a, c)
           /\ stop_queue' = IF pc[c] = "done" THEN stop_queue
                            ELSE [stop_queue EXCEPT ![c] = Append(@, a)]
    /\ child_senders' = [child_senders EXCEPT ![a] = Front(@)]
    /\ UNCHANGED <<run, serving, error_queue, action, actors, born, left>>

AfterRun(a) == CASE error[a] -> "Failed"
                 [] ~error[a] /\ lifecycle[a] = "Started" -> "Stopped"
                 [] OTHER -> lifecycle[a]

\* Mutant: stop_childs is left before the last sender is popped.
NoChildLeftButOne(a) == Len(child_senders[a]) <= 1

NoChildLeft(a) == child_senders[a] = <<>>

\* No child is left: remove_actor, the confirmation, and run returns.
LeavesRun(a) ==
    /\ At(a, "stop_childs") /\ NoChildLeft(a)
    /\ GoTo(a, "loop", AfterRun(a))
    /\ actors' = actors \ {Path[a]}
    /\ waits' = IF serving[a] = NoActor THEN waits ELSE Released(serving[a])
    /\ serving' = [serving EXCEPT ![a] = NoActor]
    /\ left' = [left EXCEPT ![a] = TRUE]
    /\ UNCHANGED <<error, fail, stop_signal, retries, child_senders, stop_queue, error_queue,
                   action, born>>

-----------------------------------------------------------------------------
UserCode(a) == EmitFail(a) \/ RequestStop(a) \/ \E c \in Actors : CreateChild(a, c)

Loop(a) == \/ LoopFailed(a) \/ TryRestart(a) \/ GiveUp(a) \/ LoopStopped(a) \/ Terminates(a)

HookReturns(a) ==
    \/ Starts(a) \/ FailsToStart(a) \/ Restarts(a) \/ FailsToRestart(a) \/ PostStopReturns(a)
    \/ MessageHandled(a) \/ \E act \in ChildActions : FaultAnswer(a, act)
    \/ \E ok \in BOOLEAN : PreStopReturns(a, ok)

Stopping(a) == StopNextChild(a) \/ LeavesRun(a)

InnerBranch(a) == RootFails(a) \/ ChildFails(a)

Next == \E a \in Actors : \/ UserCode(a) \/ Loop(a) \/ HookReturns(a) \/ Stopping(a)
                          \/ StopBranch(a) \/ MessageBranch(a) \/ FaultBranch(a)
                          \/ InnerBranch(a) \/ ActionReceived(a)

Spec == Init /\ [][Next]_vars

\* Every task that is ready is polled, hooks return, and select! is fair to the
\* branches that stay or keep becoming ready. Nobody need send a message or ask for a stop.
Fairness == \A a \in Actors :
    /\ WF_vars(Loop(a)) /\ WF_vars(HookReturns(a)) /\ WF_vars(Stopping(a))
    /\ WF_vars(ActionReceived(a))
    /\ SF_vars(StopBranch(a)) /\ SF_vars(FaultBranch(a)) /\ SF_vars(InnerBranch(a))

FairSpec == Spec /\ Fairness

-----------------------------------------------------------------------------
\* A restarted actor whose stop_signal is still set listens to nobody but a stop.
Deaf(a) == pc[a] = "select" /\ stop_signal[a] /\ stop_queue[a] = <<>>

\* The Fault of a child will not be answered: the parent is deaf, or waits in
\* stop_childs for that very child.
Unanswerable(c) ==
    /\ pc[c] = "await_action" /\ c \in ToSet(error_queue[Parent[c]])
    /\ Deaf(Parent[c]) \/ (pc[Parent[c]] = "stop_childs" /\ waits[Parent[c]] = c)

\* "Stops all child actors" (stop_childs): a child that its parent has popped from
\* child_senders has left run, or is gone, or is the one the parent waits for.
ChildrenStopFirst ==
    \A c \in Actors :
        born[c] # "none" /\ pc[c] # "done" =>
            \/ c \in ToSet(child_senders[Parent[c]]) \/ waits[Parent[c]] = c \/ left[c]

\* A runner that ends leaves a child running only if it was created in post_stop, or
\* in a pre_start or pre_restart that was not followed by run: no child created by a
\* handler, or before a successful start, outlives its parent.
OrphansOnlyUnrun ==
    \A a \in Actors : pc[a] = "done" =>
        \A c \in ToSet(child_senders[a]) :
            \/ born[c] \in {"pre_restart", "post_stop"}
            \/ born[c] = "pre_start" /\ ~left[a]

\* A stop request, from outside, from the parent or from the actor itself, makes the
\* actor leave run, once its children have, unless some child waits for an answer
\* that will not come.
StopIsServed ==
    \A a \in Actors :
        stop_queue[a] # <<>> ~> left[a] \/ pc[a] = "done" \/ \E c \in Actors : Unanswerable(c)


=============================================================================
