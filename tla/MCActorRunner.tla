---------------------------- MODULE MCActorRunner ----------------------------
(* Instances of ActorRunner for TLC.                                       *)
EXTENDS ActorRunner, TLC

\* Root actors and children, with either strategy.
AllSetups == [parent : BOOLEAN, retry : BOOLEAN]

RetrySetups == [parent : BOOLEAN, retry : {TRUE}]

RetryChild == [parent : {TRUE}, retry : {TRUE}]

\* The callers of ask_stop are interchangeable (used by runs without liveness).
StopperSymmetry == Permutations(Stoppers)

=============================================================================
