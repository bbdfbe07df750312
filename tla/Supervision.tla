----------------------------- MODULE Supervision -----------------------------
(***************************************************************************)
(* The retry strategies of actor/src/supervision.rs as values: the enum    *)
(* Strategy is a record; next_backoff is whether it has a delay, the delay *)
(* and the strategy it leaves behind.                                      *)
(***************************************************************************)
EXTENDS Naturals, Sequences

Kinds == {"NoInterval", "FixedInterval", "CustomInterval"}

NoInterval(n) == [kind |-> "NoInterval", max_retries |-> n, durations |-> <<>>]
FixedInterval(n, d) == [kind |-> "FixedInterval", max_retries |-> n, durations |-> <<d>>]
CustomInterval(ds) == [kind |-> "CustomInterval", max_retries |-> Len(ds), durations |-> ds]

\* Mutant: the last delay of the queue is not given out.
HasBackoffButLast(s) == s.kind # "NoInterval" /\ Len(s.durations) > 1

HasBackoff(s) == s.kind # "NoInterval" /\ s.durations # <<>>

NextBackoff(s) == Head(s.durations)

\* Mutant: the front of the queue is read but not popped.
LeftByNextBackoffUnpopped(s) == s

\* A custom strategy pops the front of its queue; the others do not change.
LeftByNextBackoff(s) ==
    IF s.kind = "CustomInterval" /\ s.durations # <<>>
    THEN [s EXCEPT !.durations = Tail(@)] ELSE s

=============================================================================
