----------------------------- MODULE RetryActor -----------------------------
(***************************************************************************)
(* RetryActor (actor/src/retries.rs): an actor that tells its child        *)
(* "target" one message again and again, with the delays of a Strategy,    *)
(* until it is told to End. The delay is a task of its own that sleeps and *)
(* then tells the actor Retry, so several chains of retries may be under   *)
(* way, and a timer may fire after End or after the actor is gone.         *)
(*                                                                         *)
(* The runner around it (module ActorRunner) is reduced to pre_start, the  *)
(* handling of one message, and the stop branch.                           *)
(***************************************************************************)
EXTENDS Supervision, FiniteSets

CONSTANTS
    Strategies,     \* the strategies new() may be given
    MaxRequests     \* bound: how many messages anybody but the timers sends

ASSUME StrategiesAssumption ==
    /\ Strategies \subseteq [kind : Kinds, max_retries : Nat, durations : Seq(Nat)]
    /\ \A s \in Strategies :
          /\ s.kind = "FixedInterval" => Len(s.durations) = 1
          /\ s.kind = "CustomInterval" => Len(s.durations) = s.max_retries
ASSUME RequestsAssumption == MaxRequests \in Nat

VARIABLES
    retry_strategy, \* RetryActor.retry_strategy
    retries,        \* RetryActor.retries
    is_end,         \* RetryActor.is_end
    phase,          \* where the runner is: starting, running, stopping, done
    mailbox,        \* RetryMessages in order
    stop_requested, \* a request is in the actor's own stop channel
    timers,         \* how many spawned tasks sleep
    registered,     \* ctx.reference() finds the actor
    given,          \* history: the strategy passed to new
    asked,          \* history: the Retry messages sent by others
    requests,       \* history: all messages sent by others
    attempts,       \* history: how often the message was sent to the target, there or not
    delays,         \* history: the delays of the timers, in the order they were spawned
    reports         \* history: the errors emitted to the parent

self == <<retry_strategy, retries, is_end>>
runner == <<phase, mailbox, stop_requested, registered>>
past == <<given, asked, requests, attempts, delays, reports>>
vars == <<self, runner, timers, past>>

\* new(), and the actor has been created in the system.
Init ==
    /\ retry_strategy \in Strategies /\ given = retry_strategy
    /\ retries = 0 /\ is_end = FALSE
    /\ phase = "starting" /\ mailbox = <<>> /\ stop_requested = FALSE /\ timers = 0
    /\ registered = TRUE
    /\ asked = 0 /\ requests = 0 /\ attempts = 0 /\ delays = <<>> /\ reports = <<>>

-----------------------------------------------------------------------------
\* pre_start creates the target; if that fails, so does the start of the actor.
PreStart(ok) ==
    /\ phase = "starting"
    /\ phase' = IF ok THEN "running" ELSE "done"
    /\ registered' = (ok /\ registered)
    /\ mailbox' = IF ok THEN mailbox ELSE <<>>
    /\ UNCHANGED <<self, stop_requested, timers, past>>

Serves(m) == phase = "running" /\ mailbox # <<>> /\ Head(mailbox) = m

\* Mutant: a Retry is served whether or not End has come.
TriesAlways == Serves("Retry")

Tries == Serves("Retry") /\ ~is_end

MoreToTry == retries + 1 <= retry_strategy.max_retries

\* The timer of the next Retry, unless the strategy has no delay to give: then none
\* is spawned, and nobody sends the next Retry.
SpawnTimer ==
    /\ retry_strategy' = LeftByNextBackoff(retry_strategy)
    /\ IF HasBackoff(retry_strategy)
       THEN /\ timers' = timers + 1
            /\ delays' = Append(delays, NextBackoff(retry_strategy))
       ELSE UNCHANGED <<timers, delays>>

\* Retry, while there are attempts left: the target is told (that it is gone is only
\* logged), and the next Retry is scheduled.
HandleRetry ==
    /\ Tries /\ MoreToTry
    /\ retries' = retries + 1
    /\ attempts' = attempts + 1
    /\ IF registered THEN SpawnTimer /\ UNCHANGED reports
       ELSE reports' = Append(reports, "Send") /\ UNCHANGED <<retry_strategy, timers, delays>>
    /\ mailbox' = Tail(mailbox)
    /\ UNCHANGED <<is_end, phase, stop_requested, registered, given, asked, requests>>

\* Mutant: the next Retry is scheduled also when the attempts are used up.
TimersAfterLastOneMore == timers + 1

TimersAfterLast == timers

\* Retry, when the attempts are used up: the parent is told, the actor lives on.
HandleRetryExhausted ==
    /\ Tries /\ ~MoreToTry
    /\ retries' = retries + 1
    /\ reports' = Append(reports, "ReTry")
    /\ timers' = TimersAfterLast
    /\ mailbox' = Tail(mailbox)
    /\ UNCHANGED <<retry_strategy, is_end, phase, stop_requested, registered,
                   given, asked, requests, attempts, delays>>

\* End: remembered, and ctx.stop(None) puts a request in the actor's own stop channel.
HandleEnd ==
    /\ Serves("End")
    /\ is_end' = TRUE
    /\ stop_requested' = TRUE
    /\ mailbox' = Tail(mailbox)
    /\ UNCHANGED <<retry_strategy, retries, phase, registered, timers, past>>

\* A Retry that arrives after End, from a timer or from anybody.
HandleRetryEnded ==
    /\ Serves("Retry") /\ is_end
    /\ mailbox' = Tail(mailbox)
    /\ UNCHANGED <<self, phase, stop_requested, registered, timers, past>>

\* A timer's sleep is over: actor.tell(Retry), whose error is ignored.
TimerFires ==
    /\ timers > 0
    /\ timers' = timers - 1
    /\ mailbox' = IF phase = "done" THEN mailbox ELSE Append(mailbox, "Retry")
    /\ UNCHANGED <<self, phase, stop_requested, registered, past>>

-----------------------------------------------------------------------------
(* The runner and everybody else.                                          *)

\* The stop branch: the target is stopped and waited for, the rest of the mailbox dropped.
BeginStop ==
    /\ phase = "running" /\ stop_requested
    /\ phase' = "stopping"
    /\ UNCHANGED <<self, mailbox, stop_requested, registered, timers, past>>

FinishStop ==
    /\ phase = "stopping"
    /\ phase' = "done" /\ registered' = FALSE
    /\ mailbox' = <<>>
    /\ UNCHANGED <<self, stop_requested, timers, past>>

\* Anybody who holds a reference.
Tell(m) ==
    /\ requests < MaxRequests /\ phase # "done"
    /\ requests' = requests + 1
    /\ asked' = IF m = "Retry" THEN asked + 1 ELSE asked
    /\ mailbox' = Append(mailbox, m)
    /\ UNCHANGED <<self, phase, stop_requested, registered, timers, given, attempts,
                   delays, reports>>

TellStop ==
    /\ phase # "done" /\ ~stop_requested
    /\ stop_requested' = TRUE
    /\ UNCHANGED <<self, phase, mailbox, registered, timers, past>>

\* An earlier actor of the same path terminates and removes this one's entry.
EntryRemoved ==
    /\ registered /\ phase # "done"
    /\ registered' = FALSE
    /\ UNCHANGED <<self, phase, mailbox, stop_requested, timers, past>>

HandleMessage == HandleRetry \/ HandleRetryExhausted \/ HandleEnd \/ HandleRetryEnded
Environment == TellStop \/ EntryRemoved \/ \E m \in {"Retry", "End"} : Tell(m)

Next == \/ \E ok \in BOOLEAN : PreStart(ok)
        \/ HandleMessage \/ TimerFires \/ BeginStop \/ FinishStop \/ Environment

Spec == Init /\ [][Next]_vars

\* A ready task is polled, a sleep ends, and the target confirms its stop. Nobody
\* need send anything.
FairSpec ==
    /\ Spec
    /\ WF_vars(\E ok \in BOOLEAN : PreStart(ok)) /\ WF_vars(HandleMessage)
    /\ WF_vars(TimerFires) /\ WF_vars(BeginStop) /\ WF_vars(FinishStop)

-----------------------------------------------------------------------------
\* The delay a strategy promises after its i-th attempt.
PromisedDelay(s, i) == IF s.kind = "FixedInterval" THEN s.durations[1] ELSE s.durations[i]

RetriesIn(queue) == Cardinality({i \in DOMAIN queue : queue[i] = "Retry"})

\* However many Retry messages arrive, from timers or from others, there are at most
\* max_retries attempts, and the timers sleep for the strategy's delays in its order, one
\* after each attempt (none is skipped and none used twice).
BackoffFollowsStrategy ==
    /\ attempts <= given.max_retries
    /\ Len(delays) <= IF given.kind = "NoInterval" THEN 0 ELSE attempts
    /\ \A i \in 1..Len(delays) : delays[i] = PromisedDelay(given, i)

\* The chains of retries do not multiply: each Retry sent by others is, at any
\* time, at most one message or one timer, or has led to one report to the parent.
OneReportPerRequest == RetriesIn(mailbox) + timers + Len(reports) <= asked

\* After End a timer that was already sleeping has no effect: no attempt, no timer, no
\* report.
EndIsFinal ==
    [][is_end => is_end' /\ attempts' = attempts /\ delays' = delays /\ reports' = reports]_vars

\* The actor was told to end, or to stop.
Over == is_end \/ stop_requested \/ phase = "done"

\* With a strategy that has delays a request is retried until the parent is told that
\* the attempts are used up, unless the actor is ended, stopped or out of the registry.
\* (Without delays, no attempt follows the first.)
ExhaustionReported ==
    RetriesIn(mailbox) > 0 /\ given.kind # "NoInterval"
        ~> reports # <<>> \/ Over \/ ~registered

=============================================================================
