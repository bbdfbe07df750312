----------------------------- MODULE MCActorTree -----------------------------
(* An instance of ActorTree for TLC, and the bounded inputs on which the   *)
(* operations of ActorPath are compared with their reference definitions.  *)
EXTENDS ActorTree, TLC

CONSTANTS root, child, MaxText

ASSUME MaxTextAssumption == MaxText \in Nat

\* A root and its child.
Pair == root :> NoActor @@ child :> root
Names == root :> <<"a">> @@ child :> <<"a", "b">>

-----------------------------------------------------------------------------
\* Every short text over a separator, a blank and two letters, and what it parses to.
Texts == UNION {[1..n -> {Separator, Space, "a", "b"}] : n \in 0..MaxText}
Parsed == {From(text) : text \in Texts}

\* The two properties are about inputs, not about states: they are evaluated where
\* nothing has happened yet.
Untouched ==
    pc[root] = "pre_start" /\ ~fail[root] /\ stop_queue[root] = <<>> /\ born[child] = "none"

\* A path and its text stand for each other, also where a name is a text of several.
PathTextAgrees == Untouched => \A path \in Parsed, name \in Texts : PathText(path, name)

\* Ancestry, which the code decides on texts, is ancestry of names.
AncestryAgrees == Untouched => \A path, other \in Parsed : Ancestry(path, other)

=============================================================================
