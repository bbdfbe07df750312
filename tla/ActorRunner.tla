----------------------------- MODULE ActorRunner -----------------------------
(***************************************************************************)
(* One actor of the actor crate: the task spawned for ActorRunner::init    *)
(* (actor/src/runner.rs), the ActorContext its hooks use, the channels it   *)
(* receives from, and the callers on their other ends.                     *)
(*                                                                         *)
(* The task is sequential; what interleaves with it is everybody else:     *)
(* clients that tell and ask, callers that stop it, its parent, its child. *)
(* `pc` says where the task is suspended:                                  *)
(*   loop         the top of the loop of init, about to match on lifecycle *)
(*   a hook       inside user code (pre_start, handle_message, ...)        *)
(*   select       in the select! of run                                    *)
(*   stop_self    in the runner's own ctx.stop(None)                       *)
(*   await_action inner_handle waits for the parent's ChildAction          *)
(*   stop_childs, confirm    the rest of run's stop branch                 *)
(*   drop, done   init has returned; the runner and its channels are gone  *)
(***************************************************************************)
EXTENDS Integers, Sequences

CONSTANTS
    Setups,         \* the kinds of actors: child or root, and its strategy
    MaxRetries,     \* max_retries() of the Retry strategy
    StopCap,        \* capacity of the stop channel, 100 in create
    Stoppers,       \* callers of ask_stop, one call each
    NoReply,        \* the None of a stop request nobody waits for
    ChildReports,   \* what the child may send: a subset of {"Error", "Fault"}
    MayPanic,       \* user code may panic
    MaxMessages,    \* bound on the messages sent
    MaxInner,       \* bound on the queue of inner actions
    MaxReports,     \* bound on the queue of child errors
    MaxStops        \* bound on the stop requests of callers and of user code

ASSUME SetupsAssumption == Setups \subseteq [parent : BOOLEAN, retry : BOOLEAN]
ASSUME BoolAssumption == MayPanic \in BOOLEAN
ASSUME BoundAssumption == /\ MaxRetries \in Nat /\ StopCap \in Nat \ {0}
                          /\ MaxMessages \in Nat /\ MaxInner \in Nat
                          /\ MaxReports \in Nat /\ MaxStops \in Nat
ASSUME NoReplyAssumption == NoReply \notin Stoppers
ASSUME ReportAssumption == ChildReports \subseteq {"Error", "Fault"}

VARIABLES
    lifecycle,      \* ActorRunner.lifecycle
    pc,             \* where the task is suspended
    retries,        \* the local retries of init
    stop_signal,    \* ActorRunner.stop_signal
    stopping,       \* the request the stop branch is serving
    start,          \* the oneshot create_actor_path waits on
    post_stopped,   \* history: post_stop has run
    error,          \* ctx.error.is_some()
    self_stop,      \* the task is suspended in the send of ctx.stop(None)
    child,          \* ctx.child_senders holds a live child
    mailbox,        \* messages, numbered in the order they were sent
    sent,           \* how many messages the mailbox has accepted
    handled,        \* history: messages given to handle_message, in order
    reply,          \* what each message's sender knows
    stop_queue,     \* the stop channel
    stopper,        \* what each caller of ask_stop knows
    stop_calls,     \* requests made so far by callers and by user code
    inner,          \* the channel of InnerActions
    error_queue,    \* the channel of ChildErrors
    fault_pending,  \* the child waits for the answer to its Fault
    action,         \* the answer to this actor's own Fault
    setup,          \* which kind of actor this one is
    registered,     \* SystemRef.actors maps the path to this actor
    refs            \* somebody holds an ActorRef

task == <<lifecycle, pc, retries, stop_signal, stopping, start, post_stopped>>
context == <<error, self_stop, child>>
messages == <<mailbox, sent, handled, reply>>
stops == <<stop_queue, stopper, stop_calls>>
faults == <<inner, error_queue, fault_pending, action>>
names == <<setup, registered, refs>>
vars == <<task, context, messages, stops, faults, names>>

\* parent_sender is Some: a child; otherwise a root actor.
HasParent == setup.parent

\* A::supervision_strategy() is Retry; otherwise Stop.
Retry == setup.retry

Lifecycles == {"Created", "Started", "Restarted", "Failed", "Stopped", "Terminated"}
Hooks == {"pre_start", "pre_restart", "handle_message", "on_child_error",
          "on_child_fault", "pre_stop", "post_stop"}
Points == Hooks \cup {"loop", "select", "stop_self", "await_action",
                      "stop_childs", "confirm", "drop", "done"}
ChildActions == {"Stop", "Restart", "Delegate"}
Requests == Stoppers \cup {NoReply}

Init ==
    /\ setup \in Setups
    /\ lifecycle = "Created" /\ pc = "loop" /\ retries = 0
    /\ stop_signal = FALSE /\ stopping = NoReply /\ start = "pending"
    /\ post_stopped = FALSE
    /\ error = FALSE /\ self_stop = FALSE /\ child = FALSE
    /\ mailbox = <<>> /\ sent = 0 /\ handled = <<>>
    /\ reply = [m \in 1..MaxMessages |-> "none"]
    /\ stop_queue = <<>> /\ stop_calls = 0
    /\ stopper = [s \in Stoppers |-> "idle"]
    /\ inner = <<>> /\ error_queue = <<>> /\ fault_pending = FALSE /\ action = "none"
    /\ registered = TRUE /\ refs = TRUE      \* create_actor_path inserts, then spawns

-----------------------------------------------------------------------------
(* The loop of init, one action per lifecycle.                             *)

At(l) == pc = "loop" /\ lifecycle = l

GoTo(p) == /\ pc' = p
           /\ UNCHANGED <<lifecycle, retries, stop_signal, stopping, start, post_stopped>>

Become(l) == /\ lifecycle' = l
             /\ UNCHANGED <<pc, retries, stop_signal, stopping, start, post_stopped>>

LoopCreated == At("Created") /\ GoTo("pre_start")
               /\ UNCHANGED <<context, messages, stops, faults, names>>

\* Mutant: the creator is not told that its actor runs.
StartSignalForgotten == start

StartSignal == IF start = "pending" THEN "started" ELSE start

\* Started: the creator is told, once, and run takes over.
LoopStarted ==
    /\ At("Started")
    /\ start' = StartSignal
    /\ pc' = "select"
    /\ UNCHANGED <<lifecycle, retries, stop_signal, stopping, post_stopped,
                   context, messages, stops, faults, names>>

\* Mutant: the limit is compared with <= instead of <.
MayRetryOnceMore == Retry /\ retries <= MaxRetries

MayRetry == Retry /\ retries < MaxRetries

\* apply_supervision_strategy: another attempt (the backoff only takes time)...
TryRestart ==
    /\ At("Restarted") /\ MayRetry
    /\ retries' = retries + 1
    /\ pc' = "pre_restart"
    /\ UNCHANGED <<lifecycle, stop_signal, stopping, start, post_stopped,
                   context, messages, stops, faults, names>>

\* ... or the end: the strategy is Stop, or its retries are used up.
GiveUp ==
    /\ At("Restarted") /\ ~MayRetry
    /\ Become("Stopped")
    /\ UNCHANGED <<context, messages, stops, faults, names>>

LoopStopped == At("Stopped") /\ GoTo("post_stop")
               /\ UNCHANGED <<context, messages, stops, faults, names>>

\* Mutant: a failed root actor is not put through its supervision strategy.
AfterFailureTerminated == "Terminated"

AfterFailure == IF HasParent THEN "Terminated" ELSE "Restarted"

LoopFailed ==
    /\ At("Failed")
    /\ Become(AfterFailure)
    /\ UNCHANGED <<context, messages, stops, faults, names>>

StartOutcome == IF start = "pending" THEN "failed" ELSE start

LoopTerminated ==
    /\ At("Terminated")
    /\ registered' = FALSE
    /\ start' = StartOutcome
    /\ pc' = "drop"
    /\ UNCHANGED <<lifecycle, retries, stop_signal, stopping, post_stopped,
                   setup, refs, context, messages, stops, faults>>

\* Mutant: the stop channel outlives the runner.
StopsKept == stopper

StopsDropped == [s \in Stoppers |->
                    IF stopper[s] = "waiting" THEN "dropped" ELSE stopper[s]]

\* The receiving ends go away with the runner: whoever waits on a oneshot that
\* was still queued gets an error instead of an answer.
DropChannels ==
    /\ mailbox' = <<>> /\ stop_queue' = <<>> /\ inner' = <<>> /\ error_queue' = <<>>
    /\ fault_pending' = FALSE
    /\ reply' = [m \in 1..MaxMessages |->
                    IF reply[m] = "pending" THEN "failed" ELSE reply[m]]
    /\ stopper' = StopsDropped
    /\ stopping' = NoReply
    /\ pc' = "done"

\* init returns: receiver.close(), and the spawned task drops the runner.
DropRunner ==
    /\ pc = "drop"
    /\ DropChannels
    /\ UNCHANGED <<lifecycle, retries, stop_signal, start, post_stopped, context,
                   sent, handled, stop_calls, action, names>>

-----------------------------------------------------------------------------
(* User code. Inside any hook it may use the context, in any order.        *)

InHook == pc \in Hooks /\ ~self_stop

Emit(k) ==
    /\ InHook /\ Len(inner) < MaxInner
    /\ inner' = Append(inner, k)
    /\ UNCHANGED <<task, self_stop, child, messages, stops,
                   error_queue, fault_pending, action, names>>

PublishEvent == Emit("Event") /\ UNCHANGED error

EmitError == Emit("Error") /\ UNCHANGED error

EmitFail == Emit("Fail") /\ error' = TRUE

\* ctx.stop(None) in a hook: the hook is suspended until the channel has room.
StopSelf ==
    /\ InHook /\ stop_calls < MaxStops
    /\ self_stop' = TRUE
    /\ stop_calls' = stop_calls + 1
    /\ UNCHANGED <<task, error, child, messages, stop_queue, stopper, faults, names>>

CreateChild ==
    /\ InHook /\ ~child
    /\ child' = TRUE
    /\ UNCHANGED <<task, error, self_stop, messages, stops, faults, names>>

\* The send of ctx.stop(None) completes. The runner's own call raises
\* stop_signal and goes back to select!; user code just carries on.
SendSelfStop ==
    /\ self_stop /\ Len(stop_queue) < StopCap
    /\ stop_queue' = Append(stop_queue, NoReply)
    /\ self_stop' = FALSE
    /\ IF pc = "stop_self"
       THEN /\ stop_signal' = TRUE /\ pc' = "select"
            /\ UNCHANGED <<lifecycle, retries, stopping, start, post_stopped>>
       ELSE UNCHANGED task
    /\ UNCHANGED <<error, child, messages, stopper, stop_calls, faults, names>>

-----------------------------------------------------------------------------
(* What the runner does when each hook returns.                            *)

PreStartReturns(ok) ==
    /\ pc = "pre_start" /\ ~self_stop
    /\ lifecycle' = IF ok THEN "Started" ELSE "Failed"
    /\ error' = (error \/ ~ok)
    /\ pc' = "loop"
    /\ UNCHANGED <<retries, stop_signal, stopping, start, post_stopped,
                   self_stop, child, messages, stops, faults, names>>

\* Mutant: the count starts again after each attempt, failed or not.
RetriesForgotten(ok) == 0

RetriesCounted(ok) == IF ok THEN 0 ELSE retries

PreRestartReturns(ok) ==
    /\ pc = "pre_restart" /\ ~self_stop
    /\ lifecycle' = IF ok THEN "Started" ELSE lifecycle
    /\ retries' = RetriesCounted(ok)
    /\ error' = (error \/ ~ok)
    /\ pc' = "loop"
    /\ UNCHANGED <<stop_signal, stopping, start, post_stopped,
                   self_stop, child, messages, stops, faults, names>>

PostStopReturns ==
    /\ pc = "post_stop" /\ ~self_stop
    /\ lifecycle' = "Terminated"
    /\ post_stopped' = TRUE
    /\ pc' = "loop"
    /\ UNCHANGED <<retries, stop_signal, stopping, start,
                   context, messages, stops, faults, names>>

\* Mutant: the rsvp of an ask is never used.
AnswerLost(m) == reply

Answer(m) == [reply EXCEPT ![m] = IF @ = "pending" THEN "answered" ELSE @]

\* ActorMessage::handle answers the caller of ask with the handler's result.
HandleMessageReturns ==
    /\ pc = "handle_message" /\ ~self_stop
    /\ reply' = Answer(handled[Len(handled)])
    /\ GoTo("select")
    /\ UNCHANGED <<context, mailbox, sent, handled, stops, faults, names>>

OnChildErrorReturns ==
    /\ pc = "on_child_error" /\ ~self_stop
    /\ GoTo("select")
    /\ UNCHANGED <<context, messages, stops, faults, names>>

\* The child's oneshot receives the ChildAction (or the child is gone).
OnChildFaultReturns ==
    /\ pc = "on_child_fault" /\ ~self_stop
    /\ fault_pending' = FALSE
    /\ GoTo("select")
    /\ UNCHANGED <<context, messages, stops, inner, error_queue, action, names>>

PreStopReturns(ok) ==
    /\ pc = "pre_stop" /\ ~self_stop
    /\ \/ ok /\ UNCHANGED <<error, inner>>
       \/ /\ ~ok /\ Len(inner) < MaxInner     \* ctx.emit_fail(Error::Stop)
          /\ error' = TRUE /\ inner' = Append(inner, "Fail")
    /\ GoTo("stop_childs")
    /\ UNCHANGED <<self_stop, child, messages, stops,
                   error_queue, fault_pending, action, names>>

\* A panic unwinds the task: nothing after the hook runs, the runner is dropped.
HookPanics ==
    /\ MayPanic /\ InHook
    /\ DropChannels
    /\ start' = StartOutcome
    /\ UNCHANGED <<lifecycle, retries, stop_signal, post_stopped, context,
                   sent, handled, stop_calls, action, names>>

-----------------------------------------------------------------------------
(* The select! of run. All its branches but the first are off once         *)
(* stop_signal is set.                                                     *)

StopBranch ==
    /\ pc = "select" /\ stop_queue # <<>>
    /\ stopping' = Head(stop_queue)
    /\ stop_queue' = Tail(stop_queue)
    /\ pc' = "pre_stop"
    /\ UNCHANGED <<lifecycle, retries, stop_signal, start, post_stopped,
                   context, messages, stopper, stop_calls, faults, names>>

Listening == pc = "select" /\ ~stop_signal

ErrorBranch ==
    /\ Listening /\ error_queue # <<>>
    /\ GoTo(IF Head(error_queue) = "Fault" THEN "on_child_fault" ELSE "on_child_error")
    /\ error_queue' = Tail(error_queue)
    /\ UNCHANGED <<context, messages, stops, inner, fault_pending, action, names>>

\* Mutant: the newest message of the mailbox is taken first.
TakeNewest == /\ handled' = Append(handled, mailbox[Len(mailbox)])
              /\ mailbox' = SubSeq(mailbox, 1, Len(mailbox) - 1)

Take == /\ handled' = Append(handled, Head(mailbox))
        /\ mailbox' = Tail(mailbox)

MessageBranch ==
    /\ Listening /\ mailbox # <<>>
    /\ Take
    /\ GoTo("handle_message")
    /\ UNCHANGED <<context, sent, reply, stops, faults, names>>

\* recv returns None: no ActorRef is left, neither held nor registered.
MailboxClosed ==
    /\ Listening /\ mailbox = <<>> /\ ~registered /\ ~refs
    /\ self_stop' = TRUE
    /\ GoTo("stop_self")
    /\ UNCHANGED <<error, child, messages, stops, faults, names>>

\* inner_handle of an Event (to the subscribers) or an Error (to the parent).
InnerReport ==
    /\ Listening /\ inner # <<>> /\ Head(inner) \in {"Event", "Error"}
    /\ inner' = Tail(inner)
    /\ UNCHANGED <<task, context, messages, stops,
                   error_queue, fault_pending, action, names>>

\* inner_handle of a Fail: a child asks its parent, a root actor stops itself.
InnerFail ==
    /\ Listening /\ inner # <<>> /\ Head(inner) = "Fail"
    /\ inner' = Tail(inner)
    /\ IF HasParent
       THEN /\ action' = "asked" /\ GoTo("await_action") /\ UNCHANGED self_stop
       ELSE /\ self_stop' = TRUE /\ GoTo("stop_self") /\ UNCHANGED action
    /\ UNCHANGED <<error, child, messages, stops, error_queue, fault_pending, names>>

\* The parent has answered, or its end of the oneshot is gone: the actor then
\* stops itself, whatever the answer.
ActionReceived ==
    /\ pc = "await_action" /\ action \in ChildActions \cup {"gone"}
    /\ error' = (error /\ action = "gone")
    /\ lifecycle' = IF action \in {"Restart", "Delegate"} THEN "Restarted" ELSE lifecycle
    /\ action' = "none"
    /\ self_stop' = TRUE
    /\ pc' = "stop_self"
    /\ UNCHANGED <<retries, stop_signal, stopping, start, post_stopped, child,
                   messages, stops, inner, error_queue, fault_pending, names>>

-----------------------------------------------------------------------------
(* The rest of the stop branch.                                            *)

\* ctx.stop_childs().await, which goes on when the child has ended, and then
\* ctx.remove_actor().await.
StopChilds ==
    /\ pc = "stop_childs" /\ ~child
    /\ registered' = FALSE
    /\ GoTo("confirm")
    /\ UNCHANGED <<context, messages, stops, faults, setup, refs>>

Confirmation == IF stopping = NoReply THEN stopper
                ELSE [stopper EXCEPT ![stopping] = "acked"]

\* Mutant: a stopped actor stays Started, so run is entered again.
AfterRunStarted == IF error THEN "Failed" ELSE lifecycle

\* The lifecycle after run: an error, even one that was survived, means Failed.
AfterRun == CASE error -> "Failed"
              [] ~error /\ lifecycle = "Started" -> "Stopped"
              [] OTHER -> lifecycle

\* The caller of ask_stop is answered, run returns, and init looks at ctx.error.
ConfirmStop ==
    /\ pc = "confirm"
    /\ stopper' = Confirmation
    /\ lifecycle' = AfterRun
    /\ stopping' = NoReply
    /\ pc' = "loop"
    /\ UNCHANGED <<retries, stop_signal, start, post_stopped, context, messages,
                   stop_queue, stop_calls, faults, names>>

-----------------------------------------------------------------------------
(* Everybody else.                                                         *)

Send(kind) ==
    /\ refs /\ pc # "done" /\ sent < MaxMessages
    /\ sent' = sent + 1
    /\ mailbox' = Append(mailbox, sent + 1)
    /\ reply' = [reply EXCEPT ![sent + 1] = kind]
    /\ UNCHANGED <<task, context, handled, stops, faults, names>>

Tell == Send("tell")

Ask == Send("pending")

\* ask_stop: an actor that is gone counts as stopped.
AskStop(s) ==
    /\ stopper[s] = "idle"
    /\ IF pc = "done"
       THEN /\ stopper' = [stopper EXCEPT ![s] = "closed"]
            /\ UNCHANGED <<stop_queue, stop_calls>>
       ELSE /\ stop_calls < MaxStops /\ Len(stop_queue) < StopCap
            /\ stop_calls' = stop_calls + 1
            /\ stop_queue' = Append(stop_queue, s)
            /\ stopper' = [stopper EXCEPT ![s] = "waiting"]
    /\ UNCHANGED <<task, context, messages, faults, names>>

TellStop ==
    /\ pc # "done" /\ stop_calls < MaxStops /\ Len(stop_queue) < StopCap
    /\ stop_calls' = stop_calls + 1
    /\ stop_queue' = Append(stop_queue, NoReply)
    /\ UNCHANGED <<task, context, messages, stopper, faults, names>>

\* The last ActorRef is dropped; a pending ask still borrows one.
DropRefs ==
    /\ refs /\ \A m \in 1..MaxMessages : reply[m] # "pending"
    /\ refs' = FALSE
    /\ UNCHANGED <<task, context, messages, stops, faults, setup, registered>>

GetActor ==
    /\ registered /\ ~refs
    /\ refs' = TRUE
    /\ UNCHANGED <<task, context, messages, stops, faults, setup, registered>>

\* The parent's runner answers the Fault, or goes away with it still queued.
ParentAnswers(a) ==
    /\ action = "asked"
    /\ action' = a
    /\ UNCHANGED <<task, context, messages, stops, inner, error_queue, fault_pending, names>>

\* The child's inner_handle sends an Error, or a Fault it then waits on.
ChildSends(k) ==
    /\ child /\ ~fault_pending /\ pc # "done" /\ Len(error_queue) < MaxReports
    /\ error_queue' = Append(error_queue, k)
    /\ fault_pending' = (k = "Fault")
    /\ UNCHANGED <<task, context, messages, stops, inner, action, names>>

\* The child's task ends, stopped or by itself. It leaves run only from its own
\* select!, so not while it waits for an answer.
ChildEnds ==
    /\ child /\ ~fault_pending
    /\ child' = FALSE
    /\ UNCHANGED <<task, error, self_stop, messages, stops, faults, names>>

-----------------------------------------------------------------------------
Loop == \/ LoopCreated \/ LoopStarted \/ GiveUp \/ TryRestart
        \/ LoopStopped \/ LoopFailed \/ LoopTerminated \/ DropRunner

UserCode == PublishEvent \/ EmitError \/ EmitFail \/ StopSelf \/ CreateChild \/ HookPanics

HookReturns ==
    \/ \E ok \in BOOLEAN : PreStartReturns(ok) \/ PreRestartReturns(ok) \/ PreStopReturns(ok)
    \/ PostStopReturns \/ HandleMessageReturns \/ OnChildErrorReturns \/ OnChildFaultReturns

InnerBranch == InnerReport \/ InnerFail

MailboxBranch == MessageBranch \/ MailboxClosed

Select == StopBranch \/ ErrorBranch \/ InnerBranch \/ MailboxBranch

Resume == SendSelfStop \/ ActionReceived \/ StopChilds \/ ConfirmStop

Progress == Loop \/ HookReturns \/ Resume

ParentDecides == \E a \in ChildActions \cup {"gone"} : HasParent /\ ParentAnswers(a)

Environment == \/ Tell \/ Ask \/ TellStop \/ DropRefs \/ GetActor \/ ParentDecides \/ ChildEnds
               \/ \E s \in Stoppers : AskStop(s)
               \/ \E k \in ChildReports : ChildSends(k)

Next == Progress \/ Select \/ UserCode \/ Environment

Spec == Init /\ [][Next]_vars

(***************************************************************************)
(* Fairness. The runtime keeps polling a task that is ready (Progress) and *)
(* user hooks return. select! is not biased: it starts polling at a random *)
(* branch each time, so a branch that is ready again and again is          *)
(* eventually taken. Nothing is assumed of the parent, which may never     *)
(* answer, nor of the child, which may never end.                          *)
(***************************************************************************)
Fairness == /\ WF_vars(Progress)
            /\ SF_vars(StopBranch) /\ SF_vars(ErrorBranch)
            /\ SF_vars(InnerBranch) /\ SF_vars(MailboxBranch)

FairSpec == Spec /\ Fairness

-----------------------------------------------------------------------------
\* The parts of the type invariant: flags, the task, channels and callers.
FlagsOK ==
    /\ stop_signal \in BOOLEAN /\ post_stopped \in BOOLEAN /\ error \in BOOLEAN
    /\ self_stop \in BOOLEAN /\ child \in BOOLEAN /\ fault_pending \in BOOLEAN
    /\ registered \in BOOLEAN /\ refs \in BOOLEAN /\ setup \in Setups

TaskOK ==
    /\ lifecycle \in Lifecycles /\ pc \in Points /\ retries \in 0..MaxRetries
    /\ stopping \in Requests /\ start \in {"pending", "started", "failed"}
    /\ action \in ChildActions \cup {"none", "asked", "gone"}

ChannelsOK ==
    /\ mailbox \in Seq(1..MaxMessages) /\ handled \in Seq(1..MaxMessages)
    /\ stop_queue \in Seq(Requests)
    /\ inner \in Seq({"Event", "Error", "Fail"}) /\ error_queue \in Seq({"Error", "Fault"})

CallersOK ==
    /\ sent \in 0..MaxMessages /\ stop_calls \in 0..MaxStops
    /\ reply \in [1..MaxMessages -> {"none", "tell", "pending", "answered", "failed"}]
    /\ stopper \in [Stoppers -> {"idle", "waiting", "acked", "dropped", "closed"}]

\* Every variable has a value its Rust counterpart can have; in particular the
\* retries of init never exceed max_retries of the supervision strategy.
TypeOK == FlagsOK /\ TaskOK /\ ChannelsOK /\ CallersOK

\* Messages are handled in the order in which they were sent, each at most once
\* and none skipped: until the runner is dropped, what was sent is exactly what
\* was handled followed by what is still in the mailbox (README.md: at-most-once
\* delivery, messages of one sender in order).
Delivery ==
    /\ \A i \in 1..Len(handled) : handled[i] = i
    /\ pc # "done" => /\ Len(handled) + Len(mailbox) = sent
                      /\ \A i \in 1..Len(mailbox) : mailbox[i] = Len(handled) + i

\* What a caller of ask is told is true: an answer means that its message was
\* handled, an error that it never was, even when the runner is dropped with a
\* full mailbox. Only a panic breaks this, and only for the message in hand.
AskOutcome ==
    \A m \in 1..MaxMessages :
        /\ reply[m] = "answered" => m <= Len(handled)
        /\ reply[m] = "failed" => m > Len(handled) \/ (MayPanic /\ m = Len(handled))
        /\ reply[m] = "pending" => m \in 1..sent /\ pc # "done"

\* When create_actor_path reports that the actor did not start, the actor has
\* handled nothing, is on its way out and can no longer be looked up. (A panic in
\* pre_start or pre_restart leaves the entry behind, and the lifecycle as it was.)
FailedStartLeavesNothing ==
    start = "failed" => /\ handled = <<>> /\ pc \in {"drop", "done"}
                        /\ registered => MayPanic /\ lifecycle # "Terminated"

\* An actor that is gone was unregistered, and if it is a root actor its
\* post_stop ran, whichever way it got there: stopped, failed to start, failed
\* in a handler or in pre_stop, given up by its supervision strategy. (A panic
\* ends the task in whatever lifecycle it was.)
CleanEnd ==
    pc = "done" /\ (MayPanic => lifecycle = "Terminated")
        => ~registered /\ (HasParent \/ post_stopped)

\* Some caller of ask_stop has been told that the actor has stopped.
Confirmed == \E s \in Stoppers : stopper[s] = "acked"

\* Once ask_stop has been confirmed the actor is no longer in the system and
\* handles no message ("This will stop the actor and remove it from the actor
\* system. The actor will not be able to receive any more messages."). The one way
\* back is a root actor with a Retry strategy and an error set, whose stop turns into
\* a restart: that one handles messages again until it is Stopped, unregistered.
StopIsFinal ==
    [][Confirmed => /\ ~registered'
                    /\ \/ handled' = handled
                       \/ Retry /\ ~HasParent /\ error /\ lifecycle \notin {"Stopped", "Terminated"}
      ]_vars

\* An actor that waits in select! with no stop request on its way listens to its
\* mailbox: in particular after the restart its parent ordered.
RestartedActorListens ==
    pc = "select" /\ stop_queue = <<>> => ~stop_signal

\* The task waits for room in its own stop channel, which only the task itself
\* empties: it has deadlocked with itself (a panic of user code cannot end it).
StuckInStop == self_stop /\ Len(stop_queue) = StopCap

\* The waits that another actor has to end: for the parent's answer to a Fault, and
\* in stop_childs for a child, which may itself wait for this actor's answer.
AwaitsParent == pc = "await_action" /\ action = "asked"
AwaitsChild == pc = "stop_childs" /\ child

\* The task cannot move by itself.
Blocked == StuckInStop \/ AwaitsParent \/ AwaitsChild

\* Restarted with stop_signal still set: only a stop request is listened to.
Deaf == pc = "select" /\ stop_signal /\ stop_queue = <<>>

\* create_actor_path returns: the runner tells it sooner or later whether the actor
\* started, however often pre_start and then pre_restart fail, unless the task is
\* blocked for ever by a hook that stops itself with the stop channel full.
StartResolved == start = "pending" ~> start # "pending" \/ []StuckInStop

\* Each ask is answered or fails, unless the task is blocked for ever, or has been
\* restarted with stop_signal set and nobody ever stops it again.
AskResolved ==
    \A m \in 1..MaxMessages :
        reply[m] = "pending" ~> reply[m] # "pending" \/ []Blocked \/ []Deaf

\* Each ask_stop returns, also that of an actor which is deaf or restarts, unless
\* the task is blocked for ever.
StopResolved ==
    \A s \in Stoppers : stopper[s] = "waiting" ~> stopper[s] # "waiting" \/ []Blocked

\* A stop request, from a caller, from user code or from the runner itself, ends
\* the task, unless it is blocked for ever or the stop turns into a restart, which
\* only a Retry strategy makes of it.
StopEndsTask ==
    stop_queue # <<>> ~> pc = "done" \/ []Blocked \/ (Retry /\ pc = "pre_restart")

=============================================================================
