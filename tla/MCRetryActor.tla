---------------------------- MODULE MCRetryActor ----------------------------
(* An instance of RetryActor for TLC: strategies of each kind, with and    *)
(* without attempts.                                                       *)
EXTENDS RetryActor

CONSTANT MaxAttempts

\* Delays all different, so that their order shows.
Instances ==
    {NoInterval(n) : n \in 0..MaxAttempts}
    \cup {FixedInterval(n, 7) : n \in 0..MaxAttempts}
    \cup {CustomInterval([i \in 1..n |-> i]) : n \in 0..MaxAttempts}

=============================================================================
