---------------------------- MODULE MCActorSystem ----------------------------
(* Instances of ActorSystem for TLC: which paths the calls ask for.        *)
EXTENDS ActorSystem, TLC

CONSTANTS a1, a2, a3, p1, p2, p3

\* Three calls, three paths.
DistinctPaths == a1 :> p1 @@ a2 :> p2 @@ a3 :> p3

\* Two of the calls ask for the same path.
SharedPath == a1 :> p1 @@ a2 :> p1 @@ a3 :> p2

=============================================================================
