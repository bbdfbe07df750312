-------------------------- MODULE ActorRunnerProofs --------------------------
(***************************************************************************)
(* What holds of an actor's runner for every value of the constants: its   *)
(* type invariant, the delivery of messages, the truth of what callers of  *)
(* ask are told, how an actor ends, and what may follow a confirmed stop.  *)
(* The lemmas follow the structure of Next: the loop of init, the hooks'   *)
(* returns, the resumed awaits, select!, user code, and everybody else.    *)
(***************************************************************************)
EXTENDS ActorRunner, TLAPS

\* The kinds of steps a behaviour takes; the next proofs split on them.
LEMMA StepKinds ==
    ASSUME [Next]_vars
    PROVE  Loop \/ HookReturns \/ Resume \/ Select \/ UserCode \/ Environment
               \/ UNCHANGED vars
BY DEF Next, Progress

-----------------------------------------------------------------------------
(* Type correctness, one lemma for each part of TypeOK.                    *)

\* Flags stay Boolean.
LEMMA FlagsStep == FlagsOK /\ [Next]_vars => FlagsOK'
<1> SUFFICES ASSUME FlagsOK, [Next]_vars PROVE FlagsOK'
  OBVIOUS
<1> USE DEF FlagsOK, task, context, faults, names
<1>1. CASE Loop
  BY <1>1, ZenonT(40) DEF Loop, LoopCreated, LoopStarted, GiveUp, TryRestart, LoopStopped,
     LoopFailed, LoopTerminated, DropRunner, GoTo, Become, DropChannels
<1>2. CASE HookReturns
  BY <1>2, ZenonT(40) DEF HookReturns, PreStartReturns, PreRestartReturns, PreStopReturns,
     PostStopReturns, HandleMessageReturns, OnChildErrorReturns, OnChildFaultReturns, GoTo
<1>3. CASE Resume
  BY <1>3, Zenon DEF Resume, SendSelfStop, ActionReceived, StopChilds, ConfirmStop, GoTo
<1>4. CASE Select
  BY <1>4, ZenonT(40) DEF Select, StopBranch, ErrorBranch, InnerBranch, InnerReport,
     InnerFail, MailboxBranch, MessageBranch, MailboxClosed, GoTo
<1>5. CASE UserCode
  BY <1>5, ZenonT(40) DEF UserCode, PublishEvent, EmitError, EmitFail, Emit, StopSelf,
     CreateChild, HookPanics, DropChannels
<1>6. CASE Environment
  BY <1>6, ZenonT(40) DEF Environment, Tell, Ask, Send, TellStop, DropRefs, GetActor,
     ParentDecides, ParentAnswers, AskStop, ChildSends, ChildEnds
<1>7. CASE UNCHANGED vars
  BY <1>7, Zenon DEF vars
<1> QED
  BY <1>1, <1>2, <1>3, <1>4, <1>5, <1>6, <1>7, StepKinds

\* The task stays at a point of the code, and retries within max_retries: the
\* only step that raises it checks the limit first.
LEMMA TaskStep == TypeOK /\ [Next]_vars => TaskOK'
<1> SUFFICES ASSUME TypeOK, [Next]_vars PROVE TaskOK'
  OBVIOUS
<1> USE DEF TypeOK, TaskOK, Lifecycles, Points, Hooks, Requests, ChildActions, task, faults
<1>1. CASE Loop
  BY <1>1, BoundAssumption DEF Loop, LoopCreated, LoopStarted, GiveUp, TryRestart,
     LoopStopped, LoopFailed, LoopTerminated, DropRunner, At, GoTo, Become, MayRetry,
     AfterFailure, StartSignal, StartOutcome, DropChannels
<1>2. CASE HookReturns
  BY <1>2, BoundAssumption DEF HookReturns, PreStartReturns, PreRestartReturns,
     PreStopReturns, PostStopReturns, HandleMessageReturns, OnChildErrorReturns,
     OnChildFaultReturns, RetriesCounted, GoTo
<1>3. CASE Resume
  BY <1>3 DEF Resume, SendSelfStop, ActionReceived, StopChilds, ConfirmStop, AfterRun, GoTo
<1>4. CASE Select
  <2>1. CASE StopBranch
    BY <2>1 DEF StopBranch, ChannelsOK
  <2>2. CASE ErrorBranch \/ InnerBranch \/ MailboxBranch
    BY <2>2 DEF ErrorBranch, InnerBranch, InnerReport, InnerFail, MailboxBranch,
       MessageBranch, MailboxClosed, GoTo
  <2> QED
    BY <1>4, <2>1, <2>2 DEF Select
<1>5. CASE UserCode
  BY <1>5 DEF UserCode, PublishEvent, EmitError, EmitFail, Emit, StopSelf, CreateChild,
     HookPanics, DropChannels, StartOutcome
<1>6. CASE Environment
  BY <1>6 DEF Environment, Tell, Ask, Send, TellStop, DropRefs, GetActor,
     ParentDecides, ParentAnswers, AskStop, ChildSends, ChildEnds
<1>7. CASE UNCHANGED vars
  BY <1>7 DEF vars
<1> QED
  BY <1>1, <1>2, <1>3, <1>4, <1>5, <1>6, <1>7, StepKinds

\* The channels carry only what their senders put there.
LEMMA ChannelsStep == TypeOK /\ [Next]_vars => ChannelsOK'
<1> SUFFICES ASSUME TypeOK, [Next]_vars PROVE ChannelsOK'
  OBVIOUS
<1> USE DEF TypeOK, ChannelsOK, Requests, messages, stops, faults
<1>1. CASE Loop
  <2>1. CASE DropRunner
    BY <2>1 DEF DropRunner, DropChannels
  <2>2. CASE UNCHANGED <<messages, stops, faults>>
    BY <2>2
  <2> QED
    BY <1>1, <2>1, <2>2 DEF Loop, LoopCreated, LoopStarted, GiveUp, TryRestart,
       LoopStopped, LoopFailed, LoopTerminated
<1>2. CASE HookReturns
  <2>1. ASSUME NEW ok \in BOOLEAN, PreStopReturns(ok) PROVE ChannelsOK'
    <3>1. CASE inner' = inner
      BY <2>1, <3>1 DEF PreStopReturns
    <3>2. CASE inner' = Append(inner, "Fail")
      BY <2>1, <3>2 DEF PreStopReturns
    <3> QED
      BY <2>1, <3>1, <3>2 DEF PreStopReturns
  <2>2. ASSUME NEW ok \in BOOLEAN, PreStartReturns(ok) \/ PreRestartReturns(ok)
        PROVE  ChannelsOK'
    BY <2>2 DEF PreStartReturns, PreRestartReturns
  <2>3. CASE PostStopReturns \/ HandleMessageReturns \/ OnChildErrorReturns
                \/ OnChildFaultReturns
    BY <2>3 DEF PostStopReturns, HandleMessageReturns, OnChildErrorReturns,
       OnChildFaultReturns
  <2> QED
    BY <1>2, <2>1, <2>2, <2>3 DEF HookReturns
<1>3. CASE Resume
  <2>1. CASE SendSelfStop
    BY <2>1 DEF SendSelfStop
  <2>2. CASE ActionReceived \/ StopChilds \/ ConfirmStop
    BY <2>2 DEF ActionReceived, StopChilds, ConfirmStop
  <2> QED
    BY <1>3, <2>1, <2>2 DEF Resume
<1>4. CASE Select
  <2>1. CASE StopBranch
    BY <2>1 DEF StopBranch
  <2>2. CASE ErrorBranch
    BY <2>2 DEF ErrorBranch
  <2>3. CASE InnerReport
    BY <2>3 DEF InnerReport
  <2>4. CASE InnerFail
    BY <2>4 DEF InnerFail
  <2>5. CASE MessageBranch
    <3>1. Head(mailbox) \in 1..MaxMessages
      BY <2>5, BoundAssumption DEF MessageBranch
    <3>2. Tail(mailbox) \in Seq(1..MaxMessages)
      BY <2>5 DEF MessageBranch
    <3> QED
      BY <2>5, <3>1, <3>2 DEF MessageBranch, Take
  <2>6. CASE MailboxClosed
    BY <2>6 DEF MailboxClosed
  <2> QED
    BY <1>4, <2>1, <2>2, <2>3, <2>4, <2>5, <2>6 DEF Select, InnerBranch, MailboxBranch
<1>5. CASE UserCode
  <2>1. ASSUME NEW k \in {"Event", "Error", "Fail"}, Emit(k) PROVE ChannelsOK'
    BY <2>1 DEF Emit
  <2>2. CASE StopSelf \/ CreateChild
    BY <2>2 DEF StopSelf, CreateChild
  <2>3. CASE HookPanics
    BY <2>3 DEF HookPanics, DropChannels
  <2> QED
    BY <1>5, <2>1, <2>2, <2>3 DEF UserCode, PublishEvent, EmitError, EmitFail
<1>6. CASE Environment
  <2>1. ASSUME NEW kind, Send(kind) PROVE ChannelsOK'
    <3>1. sent + 1 \in 1..MaxMessages
      BY <2>1, BoundAssumption DEF Send, CallersOK
    <3> QED
      BY <2>1, <3>1 DEF Send
  <2>2. CASE TellStop
    BY <2>2 DEF TellStop
  <2>3. CASE DropRefs \/ GetActor
    BY <2>3 DEF DropRefs, GetActor
  <2>4. CASE ParentDecides \/ ChildEnds
    BY <2>4 DEF ParentDecides, ParentAnswers, ChildEnds
  <2>5. ASSUME NEW s \in Stoppers, AskStop(s) PROVE ChannelsOK'
    <3>1. CASE stop_queue' = stop_queue
      BY <2>5, <3>1 DEF AskStop
    <3>2. CASE stop_queue' = Append(stop_queue, s)
      BY <2>5, <3>2 DEF AskStop
    <3> QED
      BY <2>5, <3>1, <3>2 DEF AskStop
  <2>6. ASSUME NEW k \in ChildReports, ChildSends(k) PROVE ChannelsOK'
    BY <2>6, ReportAssumption DEF ChildSends
  <2> QED
    BY <1>6, <2>1, <2>2, <2>3, <2>4, <2>5, <2>6 DEF Environment, Tell, Ask
<1>7. CASE UNCHANGED vars
  BY <1>7 DEF vars
<1> QED
  BY <1>1, <1>2, <1>3, <1>4, <1>5, <1>6, <1>7, StepKinds

\* What callers know stays in range, and so do the bounded counters.
LEMMA CallersStep == TypeOK /\ [Next]_vars => CallersOK'
<1> SUFFICES ASSUME TypeOK, [Next]_vars PROVE CallersOK'
  OBVIOUS
<1> USE BoundAssumption DEF TypeOK, CallersOK, messages, stops
<1>1. CASE Loop
  BY <1>1 DEF Loop, LoopCreated, LoopStarted, GiveUp, TryRestart, LoopStopped,
     LoopFailed, LoopTerminated, DropRunner, DropChannels, StopsDropped
<1>2. CASE HookReturns
  BY <1>2 DEF HookReturns, PreStartReturns, PreRestartReturns, PreStopReturns,
     PostStopReturns, HandleMessageReturns, OnChildErrorReturns, OnChildFaultReturns, Answer
<1>3. CASE Resume
  BY <1>3 DEF Resume, SendSelfStop, ActionReceived, StopChilds, ConfirmStop, Confirmation
<1>4. CASE Select
  BY <1>4 DEF Select, StopBranch, ErrorBranch, InnerBranch, InnerReport, InnerFail,
     MailboxBranch, MessageBranch, MailboxClosed
<1>5. CASE UserCode
  BY <1>5 DEF UserCode, PublishEvent, EmitError, EmitFail, Emit, StopSelf, CreateChild,
     HookPanics, DropChannels, StopsDropped
<1>6. CASE Environment
  <2>1. ASSUME NEW s \in Stoppers, AskStop(s) PROVE CallersOK'
    <3>1. stop_calls' \in 0..MaxStops
      BY <2>1 DEF AskStop
    <3>2. stopper' \in [Stoppers -> {"idle", "waiting", "acked", "dropped", "closed"}]
      BY <2>1 DEF AskStop
    <3> QED
      BY <2>1, <3>1, <3>2 DEF AskStop
  <2>2. CASE Tell \/ Ask
    BY <2>2 DEF Tell, Ask, Send
  <2>3. CASE TellStop \/ DropRefs \/ GetActor \/ ParentDecides \/ ChildEnds
    BY <2>3 DEF TellStop, DropRefs, GetActor, ParentDecides, ParentAnswers, ChildEnds
  <2>4. ASSUME NEW k \in ChildReports, ChildSends(k) PROVE CallersOK'
    BY <2>4 DEF ChildSends
  <2> QED
    BY <1>6, <2>1, <2>2, <2>3, <2>4 DEF Environment
<1>7. CASE UNCHANGED vars
  BY <1>7 DEF vars
<1> QED
  BY <1>1, <1>2, <1>3, <1>4, <1>5, <1>6, <1>7, StepKinds

LEMMA TypeStep == TypeOK /\ [Next]_vars => TypeOK'
<1> SUFFICES ASSUME TypeOK, [Next]_vars PROVE TypeOK'
  OBVIOUS
<1>1. FlagsOK'
  BY FlagsStep DEF TypeOK
<1> QED
  BY <1>1, TaskStep, ChannelsStep, CallersStep DEF TypeOK

LEMMA TypeInit == Init => TypeOK
<1> SUFFICES ASSUME Init PROVE TypeOK
  OBVIOUS
<1>1. FlagsOK
  BY Zenon DEF Init, FlagsOK
<1>2. TaskOK
  BY BoundAssumption DEF Init, TaskOK, Lifecycles, Points, Requests, ChildActions
<1>3. ChannelsOK
  BY DEF Init, ChannelsOK
<1>4. CallersOK
  BY BoundAssumption DEF Init, CallersOK
<1> QED
  BY <1>1, <1>2, <1>3, <1>4 DEF TypeOK

\* Every reachable state of the runner is well typed; retries never exceeds the
\* max_retries of the supervision strategy.
THEOREM TypeCorrect == Spec => []TypeOK
<1>1. Init => TypeOK
  BY TypeInit
<1>2. TypeOK /\ [Next]_vars => TypeOK'
  BY TypeStep
<1> QED
  BY <1>1, <1>2, PTL DEF Spec

-----------------------------------------------------------------------------
(* Messages. Only six actions touch them or decide where a message stands. *)

\* Every other step leaves the messages alone, neither starts nor ends a
\* handler, and neither drops the runner nor brings it back.
LEMMA QuietStep ==
    ASSUME [Next]_vars
    PROVE  \/ MessageBranch \/ HandleMessageReturns \/ DropRunner \/ HookPanics
           \/ Tell \/ Ask
           \/ /\ UNCHANGED messages
              /\ pc' = "done" <=> pc = "done"
              /\ pc' = "handle_message" <=> pc = "handle_message"
<1> USE DEF task
<1>1. CASE Loop
  BY <1>1 DEF Loop, LoopCreated, LoopStarted, GiveUp, TryRestart, LoopStopped,
     LoopFailed, LoopTerminated, At, GoTo, Become
<1>2. CASE HookReturns
  BY <1>2 DEF HookReturns, PreStartReturns, PreRestartReturns, PreStopReturns,
     PostStopReturns, OnChildErrorReturns, OnChildFaultReturns, GoTo
<1>3. CASE Resume
  BY <1>3 DEF Resume, SendSelfStop, ActionReceived, StopChilds, ConfirmStop, GoTo
<1>4. CASE Select
  BY <1>4 DEF Select, StopBranch, ErrorBranch, InnerBranch, InnerReport, InnerFail,
     MailboxBranch, MailboxClosed, Listening, GoTo
<1>5. CASE UserCode
  BY <1>5 DEF UserCode, PublishEvent, EmitError, EmitFail, Emit, StopSelf, CreateChild
<1>6. CASE Environment
  BY <1>6 DEF Environment, TellStop, DropRefs, GetActor, ParentDecides, ParentAnswers,
     AskStop, ChildSends, ChildEnds
<1>7. CASE UNCHANGED vars
  BY <1>7 DEF vars
<1> QED
  BY <1>1, <1>2, <1>3, <1>4, <1>5, <1>6, <1>7, StepKinds

\* Delivery is inductive, given the types.
LEMMA DeliveryStep == TypeOK /\ Delivery /\ [Next]_vars => Delivery'
<1> SUFFICES ASSUME TypeOK, Delivery, [Next]_vars PROVE Delivery'
  OBVIOUS
<1>t. /\ mailbox \in Seq(1..MaxMessages) /\ handled \in Seq(1..MaxMessages)
      /\ sent \in Nat /\ MaxMessages \in Nat
  BY BoundAssumption DEF TypeOK, ChannelsOK, CallersOK
<1>l. Len(mailbox) \in Nat /\ Len(handled) \in Nat
  BY <1>t
<1>1. CASE MessageBranch
  <2>1. /\ mailbox # <<>> /\ pc # "done" /\ pc' = "handle_message" /\ sent' = sent
        /\ handled' = Append(handled, Head(mailbox)) /\ mailbox' = Tail(mailbox)
    BY <1>1 DEF MessageBranch, Listening, Take, GoTo
  <2>2. Head(mailbox) = Len(handled) + 1
    BY <1>t, <2>1 DEF Delivery
  <2>3. Len(handled') = Len(handled) + 1 /\ Len(mailbox') = Len(mailbox) - 1
    BY <1>t, <2>1
  <2>4. \A i \in 1..Len(handled') : handled'[i] = i
    BY <1>t, <2>1, <2>2, <2>3 DEF Delivery
  <2>5. \A i \in 1..Len(mailbox') : mailbox'[i] = Len(handled') + i
    BY <1>t, <2>1, <2>3 DEF Delivery
  <2>6. Len(handled') + Len(mailbox') = sent'
    <3>1. Len(handled) + Len(mailbox) = sent
      BY <2>1 DEF Delivery
    <3> QED
      BY ONLY <1>l, <2>1, <2>3, <3>1
  <2> QED
    BY <2>4, <2>5, <2>6 DEF Delivery
<1>2. CASE Tell \/ Ask
  <2>1. /\ pc # "done" /\ pc' = pc /\ sent' = sent + 1 /\ handled' = handled
        /\ mailbox' = Append(mailbox, sent + 1)
    BY <1>2 DEF Tell, Ask, Send, task
  <2>2. Len(mailbox') = Len(mailbox) + 1
    BY <1>t, <2>1
  <2>3. Len(handled) + Len(mailbox) = sent
    BY <2>1 DEF Delivery
  <2>4. \A i \in 1..Len(mailbox') : mailbox'[i] = Len(handled') + i
    <3> SUFFICES ASSUME NEW i \in 1..Len(mailbox')
                 PROVE  mailbox'[i] = Len(handled') + i
      OBVIOUS
    <3>1. CASE i = Len(mailbox) + 1
      BY <1>t, <1>l, <2>1, <2>3, <3>1
    <3>2. CASE i \in 1..Len(mailbox)
      BY <1>t, <2>1, <3>2 DEF Delivery
    <3> QED
      BY <1>l, <2>2, <3>1, <3>2
  <2>5. Len(handled') + Len(mailbox') = sent'
    BY ONLY <1>l, <2>1, <2>2, <2>3
  <2> QED
    BY <2>1, <2>4, <2>5 DEF Delivery
<1>3. CASE HandleMessageReturns
  BY <1>3 DEF HandleMessageReturns, GoTo, Delivery
<1>4. CASE DropRunner \/ HookPanics
  BY <1>4 DEF DropRunner, HookPanics, DropChannels, Delivery
<1>5. CASE UNCHANGED messages /\ (pc' = "done" <=> pc = "done")
  BY <1>5 DEF messages, Delivery
<1> QED
  BY <1>1, <1>2, <1>3, <1>4, <1>5, QuietStep

\* Messages are handled in the order they were sent, each at most once and none
\* skipped, in every actor and however it is stopped, failed or restarted.
THEOREM DeliveryCorrect == Spec => []Delivery
<1>1. Init => Delivery
  BY DEF Init, Delivery
<1>2. TypeOK /\ Delivery /\ [Next]_vars => Delivery'
  BY DeliveryStep
<1> QED
  BY <1>1, <1>2, TypeCorrect, PTL DEF Spec

\* The strengthening AskOutcome needs: only the message in hand can be handled
\* and still unanswered, and asks fail only when the runner is dropped.
InHand ==
    /\ pc = "handle_message" => handled # <<>>
    /\ \A m \in 1..MaxMessages :
          /\ reply[m] = "pending" /\ m <= Len(handled) =>
                pc = "handle_message" /\ m = Len(handled)
          /\ reply[m] = "failed" => pc = "done"

AskInv == TypeOK /\ Delivery /\ InHand /\ AskOutcome

LEMMA AskStep == AskInv /\ [Next]_vars => (InHand /\ AskOutcome)'
<1> SUFFICES ASSUME AskInv, [Next]_vars PROVE (InHand /\ AskOutcome)'
  OBVIOUS
<1>t. /\ mailbox \in Seq(1..MaxMessages) /\ handled \in Seq(1..MaxMessages)
      /\ sent \in 0..MaxMessages /\ MaxMessages \in Nat
      /\ reply \in [1..MaxMessages -> {"none", "tell", "pending", "answered", "failed"}]
  BY BoundAssumption DEF AskInv, TypeOK, ChannelsOK, CallersOK
<1>1. CASE MessageBranch
  <2>1. /\ pc = "select" /\ pc' = "handle_message" /\ UNCHANGED <<sent, reply>>
        /\ handled' = Append(handled, Head(mailbox)) /\ mailbox # <<>>
    BY <1>1 DEF MessageBranch, Listening, Take, GoTo
  <2>2. Len(handled') = Len(handled) + 1 /\ handled' # <<>>
    BY <1>t, <2>1, SMTT(30)
  <2>3. InHand'
    BY <1>t, <2>1, <2>2 DEF AskInv, InHand
  <2>4. AskOutcome'
    BY <1>t, <2>1, <2>2 DEF AskInv, InHand, AskOutcome
  <2> QED
    BY <2>3, <2>4
<1>2. CASE HandleMessageReturns
  <2>1. /\ pc = "handle_message" /\ pc' = "select" /\ UNCHANGED <<sent, handled>>
        /\ reply' = Answer(handled[Len(handled)])
    BY <1>2 DEF HandleMessageReturns, GoTo
  <2>2. handled # <<>> /\ Len(handled) \in 1..sent
    BY <1>t, <2>1 DEF AskInv, InHand, Delivery
  <2>3. handled[Len(handled)] = Len(handled) /\ Len(handled) \in 1..MaxMessages
    BY <1>t, <2>2, SMTT(30) DEF AskInv, Delivery
  <2>4. \A m \in 1..MaxMessages :
           reply'[m] = IF m = Len(handled) /\ reply[m] = "pending" THEN "answered"
                       ELSE reply[m]
    BY <1>t, <2>1, <2>3 DEF Answer
  <2> QED
    BY <1>t, <2>1, <2>2, <2>4 DEF AskInv, InHand, AskOutcome
<1>3. CASE DropRunner \/ HookPanics
  <2>1. /\ pc' = "done" /\ UNCHANGED <<sent, handled>>
        /\ pc = "handle_message" => MayPanic
        /\ reply' = [m \in 1..MaxMessages |->
                        IF reply[m] = "pending" THEN "failed" ELSE reply[m]]
    BY <1>3 DEF DropRunner, HookPanics, DropChannels
  <2> QED
    BY <1>t, <2>1 DEF AskInv, InHand, AskOutcome
<1>4. CASE Tell \/ Ask
  <2>1. /\ pc # "done" /\ pc' = pc /\ sent' = sent + 1 /\ handled' = handled
        /\ sent + 1 \in 1..MaxMessages
        /\ \E kind \in {"tell", "pending"} : reply' = [reply EXCEPT ![sent + 1] = kind]
    BY <1>4, <1>t, SMTT(30) DEF Tell, Ask, Send, task
  <2>2. Len(handled) <= sent
    BY <1>t, <2>1 DEF AskInv, Delivery
  <2> QED
    BY <1>t, <2>1, <2>2 DEF AskInv, InHand, AskOutcome
<1>5. CASE /\ UNCHANGED messages
           /\ pc' = "done" <=> pc = "done"
           /\ pc' = "handle_message" <=> pc = "handle_message"
  BY <1>5 DEF AskInv, messages, InHand, AskOutcome
<1> QED
  BY <1>1, <1>2, <1>3, <1>4, <1>5, QuietStep

\* What ask returns is true: an answer means the message was handled, an error
\* that it never was, except for the message in hand when user code panics.
THEOREM AskOutcomeCorrect == Spec => []AskOutcome
<1>1. Init => InHand /\ AskOutcome
  BY BoundAssumption DEF Init, InHand, AskOutcome
<1>2. AskInv /\ [Next]_vars => (InHand /\ AskOutcome)'
  BY AskStep
<1>3. TypeOK /\ Delivery /\ (InHand /\ AskOutcome) <=> AskInv
  BY DEF AskInv
<1> QED
  BY <1>1, <1>2, <1>3, TypeCorrect, DeliveryCorrect, PTL DEF Spec

-----------------------------------------------------------------------------
(* The end of an actor.                                                    *)

\* The points inside run: they are reached through lifecycle Started only, after
\* the creator has been told.
RunPoints == {"select", "handle_message", "on_child_error", "on_child_fault",
              "stop_self", "await_action", "pre_stop", "stop_childs", "confirm"}

\* What makes FailedStartLeavesNothing and CleanEnd inductive: nothing is handled
\* before the start signal, a root actor reaches Terminated through post_stop
\* only, and the loop is left only after the last remove_actor.
EndInv ==
    /\ pc \in RunPoints => lifecycle \in {"Started", "Restarted"} /\ start = "started"
    /\ start = "pending" => handled = <<>>
    /\ start = "failed" => handled = <<>> /\ pc \in {"drop", "done"}
    /\ lifecycle = "Terminated" => /\ HasParent \/ post_stopped
                                   /\ pc \in {"loop", "drop", "done"}
    /\ pc = "drop" => lifecycle = "Terminated" /\ ~registered
    /\ pc = "done" => MayPanic \/ lifecycle = "Terminated"
    /\ pc = "done" /\ lifecycle = "Terminated" => ~registered

LEMMA EndStep == TypeOK /\ EndInv /\ [Next]_vars => EndInv'
<1> SUFFICES ASSUME TypeOK, EndInv, [Next]_vars PROVE EndInv'
  OBVIOUS
<1>t. start \in {"pending", "started", "failed"}
  BY DEF TypeOK, TaskOK
<1> USE DEF EndInv, RunPoints, HasParent, task, messages, names
<1>1. CASE Loop
  BY <1>1, <1>t DEF Loop, LoopCreated, LoopStarted, GiveUp, TryRestart, LoopStopped,
     LoopFailed, LoopTerminated, DropRunner, At, GoTo, Become, AfterFailure, StartSignal,
     StartOutcome, DropChannels
<1>2. CASE HookReturns
  BY <1>2 DEF HookReturns, PreStartReturns, PreRestartReturns, PreStopReturns,
     PostStopReturns, HandleMessageReturns, OnChildErrorReturns, OnChildFaultReturns, GoTo
<1>3. CASE Resume
  BY <1>3 DEF Resume, SendSelfStop, ActionReceived, StopChilds, ConfirmStop, AfterRun, GoTo
<1>4. CASE Select
  BY <1>4 DEF Select, StopBranch, ErrorBranch, InnerBranch, InnerReport, InnerFail,
     MailboxBranch, MessageBranch, MailboxClosed, Listening, GoTo
<1>5. CASE UserCode
  BY <1>5, <1>t DEF UserCode, PublishEvent, EmitError, EmitFail, Emit, StopSelf,
     CreateChild, HookPanics, InHook, Hooks, DropChannels, StartOutcome
<1>6. CASE Environment
  BY <1>6 DEF Environment, Tell, Ask, Send, TellStop, DropRefs, GetActor, ParentDecides,
     ParentAnswers, AskStop, ChildSends, ChildEnds
<1>7. CASE UNCHANGED vars
  BY <1>7 DEF vars
<1> QED
  BY <1>1, <1>2, <1>3, <1>4, <1>5, <1>6, <1>7, StepKinds

LEMMA EndAlways == Spec => []EndInv
<1>1. Init => EndInv
  BY DEF Init, EndInv, RunPoints
<1>2. TypeOK /\ EndInv /\ [Next]_vars => EndInv'
  BY EndStep
<1> QED
  BY <1>1, <1>2, TypeCorrect, PTL DEF Spec

\* Unless user code panics, an actor that is gone is unregistered, and if it is a
\* root actor its post_stop has run.
THEOREM CleanEndCorrect == Spec => []CleanEnd
<1>1. EndInv => CleanEnd
  BY DEF EndInv, CleanEnd
<1> QED
  BY <1>1, EndAlways, PTL

\* An actor whose creation was reported as failed never handled a message and is
\* out of the registry.
THEOREM FailedStartCorrect == Spec => []FailedStartLeavesNothing
<1>1. EndInv => FailedStartLeavesNothing
  BY DEF EndInv, FailedStartLeavesNothing
<1> QED
  BY <1>1, EndAlways, PTL

\* A confirmed stop leads through post_stop to Terminated. What else may follow it: a
\* failed child on its way to Terminated, a root actor that is not retried, a child that
\* was restarted on its parent's order and is deaf (stop_signal), and the exception
\* of StopIsFinal, in which error stays set because only a parent's answer clears it.
FinalInv ==
    /\ pc = "confirm" => ~registered
    /\ Confirmed => ~registered
    /\ pc = "await_action" => HasParent
    /\ lifecycle = "Restarted" /\ pc \in RunPoints \ {"stop_self"} => stop_signal
    /\ Confirmed => \/ pc \in {"post_stop", "drop", "done"}
                    \/ pc = "loop" /\ lifecycle \in {"Stopped", "Terminated"}
                    \/ pc = "loop" /\ lifecycle = "Failed" /\ HasParent
                    \/ pc = "loop" /\ lifecycle \in {"Failed", "Restarted"} /\ ~Retry
                    \/ stop_signal
                    \/ Retry /\ ~HasParent /\ error

\* What StopIsFinal says of one step.
FinalOK ==
    Confirmed => /\ ~registered'
                 /\ \/ handled' = handled
                    \/ Retry /\ ~HasParent /\ error /\ lifecycle \notin {"Stopped", "Terminated"}

LEMMA FinalStep ==
    ASSUME TypeOK, EndInv, FinalInv, [Next]_vars
    PROVE  FinalInv' /\ FinalOK
<1>t. stopper \in [Stoppers -> {"idle", "waiting", "acked", "dropped", "closed"}]
  BY DEF TypeOK, CallersOK
<1> USE DEF FinalInv, FinalOK, EndInv, RunPoints, HasParent, Retry, task, context,
           messages, stops, names
<1>1. CASE Loop
  <2>1. Confirmed' => Confirmed
    BY <1>1, <1>t DEF Loop, LoopCreated, LoopStarted, GiveUp, TryRestart, LoopStopped,
       LoopFailed, LoopTerminated, DropRunner, DropChannels, StopsDropped, Confirmed
  <2> QED
    BY <1>1, <2>1 DEF Loop, LoopCreated, LoopStarted, GiveUp, TryRestart, LoopStopped,
       LoopFailed, LoopTerminated, DropRunner, At, GoTo, Become, MayRetry, AfterFailure,
       DropChannels
<1>2. CASE HookReturns
  <2>1. UNCHANGED <<stopper, registered, handled>> /\ (Confirmed' <=> Confirmed)
    BY <1>2 DEF HookReturns, PreStartReturns, PreRestartReturns, PreStopReturns,
       PostStopReturns, HandleMessageReturns, OnChildErrorReturns, OnChildFaultReturns,
       GoTo, Confirmed
  <2>2. CASE \E ok \in BOOLEAN : PreStartReturns(ok) \/ PreRestartReturns(ok)
    <3>1. /\ pc' = "loop" /\ pc \in {"pre_start", "pre_restart"} /\ stop_signal' = stop_signal
          /\ (error => error') /\ setup' = setup
      BY <2>2, Zenon DEF PreStartReturns, PreRestartReturns
    <3> QED
      BY <2>1, <3>1
  <2>3. CASE \E ok \in BOOLEAN : PreStopReturns(ok)
    BY <2>1, <2>3 DEF PreStopReturns, GoTo
  <2>4. CASE PostStopReturns
    BY <2>1, <2>4 DEF PostStopReturns
  <2>5. CASE HandleMessageReturns \/ OnChildErrorReturns \/ OnChildFaultReturns
    BY <2>1, <2>5 DEF HandleMessageReturns, OnChildErrorReturns, OnChildFaultReturns, GoTo
  <2> QED
    BY <1>2, <2>2, <2>3, <2>4, <2>5 DEF HookReturns
<1>3. CASE Resume
  <2>1. CASE ConfirmStop
    BY <2>1 DEF ConfirmStop, AfterRun
  <2>2. CASE SendSelfStop \/ ActionReceived \/ StopChilds
    BY <2>2 DEF SendSelfStop, ActionReceived, StopChilds, GoTo, Confirmed
  <2> QED
    BY <1>3, <2>1, <2>2 DEF Resume
<1>4. CASE Select
  BY <1>4 DEF Select, StopBranch, ErrorBranch, InnerBranch, InnerReport, InnerFail,
     MailboxBranch, MessageBranch, MailboxClosed, Listening, GoTo, Confirmed
<1>5. CASE UserCode
  <2>1. Confirmed' => Confirmed
    BY <1>5, <1>t DEF UserCode, PublishEvent, EmitError, EmitFail, Emit, StopSelf,
       CreateChild, HookPanics, DropChannels, StopsDropped, Confirmed
  <2> QED
    BY <1>5, <2>1 DEF UserCode, PublishEvent, EmitError, EmitFail, Emit, StopSelf,
       CreateChild, HookPanics, DropChannels
<1>6. CASE Environment
  <2>1. Confirmed' => Confirmed
    BY <1>6, <1>t DEF Environment, Tell, Ask, Send, TellStop, DropRefs, GetActor,
       ParentDecides, ParentAnswers, AskStop, ChildSends, ChildEnds, Confirmed
  <2> QED
    BY <1>6, <2>1 DEF Environment, Tell, Ask, Send, TellStop, DropRefs, GetActor,
       ParentDecides, ParentAnswers, AskStop, ChildSends, ChildEnds
<1>7. CASE UNCHANGED vars
  BY <1>7 DEF vars, Confirmed
<1> QED
  BY <1>1, <1>2, <1>3, <1>4, <1>5, <1>6, <1>7, StepKinds

\* A confirmed ask_stop is final: the actor is out of the registry for good and never
\* handles a message again, unless it is a root actor with a Retry strategy and an error
\* set (its stop turns into a restart), and even then not once it is Stopped.
THEOREM StopFinal == Spec => StopIsFinal
<1>1. Init => FinalInv
  BY DEF Init, FinalInv, Confirmed
<1>2. TypeOK /\ EndInv /\ FinalInv /\ [Next]_vars => FinalInv'
  BY FinalStep
<1>3. TypeOK /\ EndInv /\ FinalInv /\ [Next]_vars
         => [FinalOK]_vars
  BY FinalStep
<1> QED
  BY <1>1, <1>2, <1>3, TypeCorrect, EndAlways, PTL DEF Spec, StopIsFinal, FinalOK

=============================================================================
