-------------------------- MODULE ActorTreeProofs --------------------------
(***************************************************************************)
(* What holds of every tree of actors, whatever its shape, the supervision *)
(* strategy, and the hooks that fail, create children or report errors.    *)
(*                                                                         *)
(* A task that awaits a child in create_child or stop_childs does not move,*)
(* so a creator is still in the hook that created a child when the child   *)
(* starts, and a parent is still in stop_childs when a child confirms its  *)
(* stop.                                                                   *)
(***************************************************************************)
EXTENDS ActorTree, SequenceTheorems, TLAPS

-----------------------------------------------------------------------------
(* The invariant.                                                          *)

NoOne == Actors \cup {NoActor}

Points == Hooks \cup {"none", "loop", "select", "await_action", "stop_childs", "done"}

TypeOK ==
    /\ pc \in [Actors -> Points] /\ waits \in [Actors -> NoOne] /\ serving \in [Actors -> NoOne]
    /\ child_senders \in [Actors -> Seq(Actors)] /\ stop_queue \in [Actors -> Seq(NoOne)]
    /\ error_queue \in [Actors -> Seq(Actors)]
    /\ born \in [Actors -> Points] /\ left \in [Actors -> BOOLEAN]

\* A child that has not started is waited for by its creator, in the hook it is born in.
CreatorWaits ==
    \A c \in Actors : pc[c] = "pre_start" /\ ~IsRoot(c) =>
        /\ waits[Parent[c]] = c /\ born[c] = pc[Parent[c]] /\ born[c] \in Hooks

\* c is among the children that p is to stop.
Listed(c, p) == \E i \in 1..Len(child_senders[p]) : child_senders[p][i] = c

\* A parent can stop each of its children that have started, once.
SendersOK ==
    /\ \A p, c \in Actors : Listed(c, p) =>
          Parent[c] = p /\ pc[p] # "none" /\ pc[c] \notin {"none", "pre_start"} /\ waits[p] # c
    /\ \A p \in Actors : \A i, j \in 1..Len(child_senders[p]) :
          child_senders[p][i] = child_senders[p][j] => i = j

\* The parent of c waits in stop_childs for c.
Confirms(c, p) == p = Parent[c] /\ waits[p] = c /\ pc[p] = "stop_childs"

Confirming(c) == pc[c] \in {"pre_stop", "stop_childs"} /\ serving[c] # NoActor

\* A stop is asked for by a parent that waits for it, and only once.
RequestsOK ==
    \A c \in Actors :
        /\ Confirming(c) => Confirms(c, serving[c])
        /\ \A i \in 1..Len(stop_queue[c]) : stop_queue[c][i] # NoActor =>
              /\ Confirms(c, stop_queue[c][i]) /\ ~Confirming(c)
              /\ \A j \in 1..Len(stop_queue[c]) : stop_queue[c][j] # NoActor => i = j

HistoryOK ==
    \A a \in Actors :
        /\ pc[a] \in {"none", "pre_start"} => ~left[a]
        /\ IsRoot(a) => born[a] = "none"

\* Outside run a parent has no other children than those of the hooks around it.
Orphan(c, a) == \/ born[c] \in {"pre_restart", "post_stop"}
                \/ born[c] = "pre_start" /\ ~left[a]

Outside == {"pre_start", "loop", "pre_restart", "post_stop", "done"}

OutsideRun == \A a, c \in Actors : pc[a] \in Outside /\ Listed(c, a) => Orphan(c, a)

StopFirst ==
    \A c \in Actors : born[c] # "none" /\ pc[c] # "done" =>
        Listed(c, Parent[c]) \/ waits[Parent[c]] = c \/ left[c]

TreeInv == TypeOK /\ CreatorWaits /\ SendersOK /\ RequestsOK /\ HistoryOK /\ OutsideRun /\ StopFirst

-----------------------------------------------------------------------------
(* The kinds of steps.                                                     *)

\* The task of a goes on at `to`, or does not move; if it did, it was awaiting nobody.
\* It may have asked itself to stop.
Goes(a, to) ==
    /\ pc' = [pc EXCEPT ![a] = to] /\ UNCHANGED <<waits, child_senders, born, left>>
    /\ \/ stop_queue' = stop_queue
       \/ stop_queue' = [stop_queue EXCEPT ![a] = Append(@, NoActor)]
    /\ serving' \in [Actors -> NoOne] /\ \A b \in Actors \ {a} : serving'[b] = serving[b]
    /\ \/ to = pc[a] /\ serving' = serving
       \/ /\ waits[a] = NoActor /\ pc[a] \notin {"none", "done"} /\ to \in Points \ {"none", "pre_start"}
          /\ to \in Outside => pc[a] \in Outside
          /\ to \in {"pre_stop", "stop_childs"} => pc[a] = "pre_stop" /\ serving' = serving

LEMMA TreeCases ==
    ASSUME TypeOK, [Next]_vars
    PROVE  \/ \E a \in Actors : \/ \E to \in Points : Goes(a, to)
                                \/ \E c \in Actors : CreateChild(a, c)
                                \/ Starts(a) /\ ~IsRoot(a)
                                \/ StopBranch(a) \/ Terminates(a)
                                \/ StopNextChild(a) \/ LeavesRun(a)
           \/ UNCHANGED vars
<1> SUFFICES ASSUME NEW a \in Actors,
                    \/ UserCode(a) \/ Loop(a) \/ HookReturns(a) \/ Stopping(a)
                    \/ StopBranch(a) \/ MessageBranch(a) \/ FaultBranch(a)
                    \/ InnerBranch(a) \/ ActionReceived(a)
             PROVE  \/ \E to \in Points : Goes(a, to)
                    \/ \E c \in Actors : CreateChild(a, c)
                    \/ Starts(a) /\ ~IsRoot(a)
                    \/ StopBranch(a) \/ Terminates(a)
                    \/ StopNextChild(a) \/ LeavesRun(a)
  BY DEF Next
<1> USE DEF run, family
<1>t. /\ pc \in [Actors -> Points] /\ waits \in [Actors -> NoOne] /\ serving \in [Actors -> NoOne]
      /\ stop_queue \in [Actors -> Seq(NoOne)] /\ error_queue \in [Actors -> Seq(Actors)]
  BY DEF TypeOK
<1>p. Hooks \subseteq Points /\ {"none", "loop", "select", "await_action", "stop_childs", "done"} \subseteq Points
  BY DEF Points
<1>0. pc = [pc EXCEPT ![a] = pc[a]]
  BY <1>t
<1>1. CASE EmitFail(a)
  <2>1. Goes(a, pc[a])
    BY <1>0, <1>1, <1>t DEF EmitFail, Goes
  <2> QED
    BY <1>t, <2>1
<1>2. CASE RequestStop(a)
  <2>1. stop_queue' = [stop_queue EXCEPT ![a] = Append(@, NoActor)]
    BY <1>2, <1>t DEF RequestStop
  <2>2. Goes(a, pc[a])
    BY <1>0, <1>2, <1>t, <2>1 DEF RequestStop, Goes
  <2> QED
    BY <1>t, <2>2
<1>g. ASSUME NEW to \in Points \ {"none", "pre_start"}, waits[a] = NoActor, pc[a] \notin {"none", "done"},
             pc' = [pc EXCEPT ![a] = to], UNCHANGED <<waits, serving, child_senders, born, left>>,
             \/ stop_queue' = stop_queue
             \/ stop_queue' = [stop_queue EXCEPT ![a] = Append(@, NoActor)],
             to \in Outside => pc[a] \in Outside,
             to \in {"pre_stop", "stop_childs"} => pc[a] = "pre_stop"
      PROVE  \E q \in Points : Goes(a, q)
  BY <1>g, <1>t DEF Goes
<1>3. CASE LoopFailed(a) \/ GiveUp(a) \/ TryRestart(a) \/ LoopStopped(a)
  <2>1. PICK to \in {"loop", "pre_restart", "post_stop"} : pc' = [pc EXCEPT ![a] = to]
    BY <1>3 DEF LoopFailed, GiveUp, TryRestart, LoopStopped, GoTo
  <2>2. to \in Points \ {"none", "pre_start", "pre_stop", "stop_childs"}
    BY <1>p DEF Hooks
  <2>3. /\ pc[a] = "loop" /\ waits[a] = NoActor
        /\ UNCHANGED <<waits, serving, child_senders, born, left, stop_queue>>
    BY <1>3 DEF LoopFailed, GiveUp, TryRestart, LoopStopped, At
  <2> QED
    BY <1>g, <2>1, <2>2, <2>3 DEF Outside
<1>4. CASE (Starts(a) /\ IsRoot(a)) \/ Restarts(a) \/ MessageHandled(a)
  <2>1. /\ pc' = [pc EXCEPT ![a] = "select"] /\ "select" \in Points \ {"none", "pre_start"}
        /\ pc[a] \notin {"none", "done"} /\ waits[a] = NoActor
        /\ UNCHANGED <<waits, serving, child_senders, born, left, stop_queue>>
    BY <1>4, <1>p DEF Starts, Restarts, MessageHandled, GoTo, At
  <2> QED
    BY <1>g, <2>1 DEF Outside
<1>5. CASE FailsToStart(a) \/ FailsToRestart(a) \/ PostStopReturns(a)
  <2>1. /\ pc' = [pc EXCEPT ![a] = "loop"] /\ "loop" \in Points \ {"none", "pre_start"}
        /\ pc[a] \in {"pre_start", "pre_restart", "post_stop"} /\ waits[a] = NoActor
        /\ UNCHANGED <<waits, serving, child_senders, born, left, stop_queue>>
    BY <1>5, <1>p DEF FailsToStart, FailsToRestart, PostStopReturns, GoTo, At
  <2> QED
    BY <1>g, <2>1 DEF Outside
<1>6. ASSUME NEW act, FaultAnswer(a, act) PROVE \E q \in Points : Goes(a, q)
  <2>1. /\ pc' = [pc EXCEPT ![a] = "select"] /\ "select" \in Points \ {"none", "pre_start"}
        /\ pc[a] \notin {"none", "done"} /\ waits[a] = NoActor
        /\ UNCHANGED <<waits, child_senders, born, left, stop_queue>>
        /\ serving' \in [Actors -> NoOne] /\ \A b \in Actors \ {a} : serving'[b] = serving[b]
    BY <1>6, <1>p, <1>t DEF FaultAnswer, GoTo, At, NoOne
  <2> QED
    BY <2>1 DEF Goes, Outside
<1>7. ASSUME NEW ok, PreStopReturns(a, ok) PROVE \E q \in Points : Goes(a, q)
  <2>1. /\ pc' = [pc EXCEPT ![a] = "stop_childs"] /\ "stop_childs" \in Points \ {"none", "pre_start"}
        /\ pc[a] = "pre_stop" /\ waits[a] = NoActor
        /\ UNCHANGED <<waits, serving, child_senders, born, left, stop_queue>>
    BY <1>7, <1>p DEF PreStopReturns, GoTo, At
  <2> QED
    BY <1>g, <2>1 DEF Outside
<1>8. CASE MessageBranch(a)
  <2>1. /\ pc' = [pc EXCEPT ![a] = "handle_message"] /\ "handle_message" \in Points \ {"none", "pre_start"}
        /\ pc[a] \notin {"none", "done"} /\ waits[a] = NoActor
        /\ UNCHANGED <<waits, serving, child_senders, born, left, stop_queue>>
    BY <1>8, <1>p DEF MessageBranch, GoTo, At, Listening, Hooks
  <2> QED
    BY <1>g, <2>1 DEF Outside
<1>9. CASE FaultBranch(a)
  <2>0. Head(error_queue[a]) \in Actors
    BY <1>9, <1>t DEF FaultBranch
  <2>1. /\ pc' = [pc EXCEPT ![a] = "on_child_fault"] /\ "on_child_fault" \in Points \ {"none", "pre_start"}
        /\ pc[a] \notin {"none", "done"} /\ waits[a] = NoActor
        /\ UNCHANGED <<waits, child_senders, born, left, stop_queue>>
        /\ serving' \in [Actors -> NoOne] /\ \A b \in Actors \ {a} : serving'[b] = serving[b]
    BY <1>9, <1>p, <1>t, <2>0 DEF FaultBranch, GoTo, At, Listening, Hooks, NoOne
  <2> QED
    BY <2>1 DEF Goes, Outside
<1>10. CASE RootFails(a)
  <2>1. Goes(a, pc[a])
    BY <1>0, <1>10, <1>t DEF RootFails, StopsItself, Goes
  <2> QED
    BY <1>t, <2>1
<1>11. CASE ChildFails(a)
  <2>1. /\ pc' = [pc EXCEPT ![a] = "await_action"] /\ "await_action" \in Points \ {"none", "pre_start"}
        /\ pc[a] \notin {"none", "done"} /\ waits[a] = NoActor
        /\ UNCHANGED <<waits, serving, child_senders, born, left, stop_queue>>
    BY <1>11, <1>p DEF ChildFails, GoTo, At, Listening
  <2> QED
    BY <1>g, <2>1 DEF Outside
<1>12. CASE ActionReceived(a)
  <2>1. /\ pc' = [pc EXCEPT ![a] = "select"] /\ "select" \in Points \ {"none", "pre_start"}
        /\ pc[a] \notin {"none", "done"} /\ waits[a] = NoActor
        /\ UNCHANGED <<waits, serving, child_senders, born, left>>
        /\ stop_queue' = [stop_queue EXCEPT ![a] = Append(@, NoActor)]
    BY <1>12, <1>p DEF ActionReceived, GoTo, At, StopsItself
  <2> QED
    BY <1>g, <2>1 DEF Outside
<1> QED
  BY <1>1, <1>2, <1>3, <1>4, <1>5, <1>6, <1>7, <1>8, <1>9, <1>10, <1>11, <1>12
     DEF UserCode, Loop, HookReturns, Stopping, InnerBranch

\* Of a sequence that is not empty: its last element, and the others.
LEMMA LastAndFront ==
    ASSUME NEW S, NEW s \in Seq(S), s # <<>>
    PROVE  /\ Front(s) \in Seq(S) /\ Len(Front(s)) = Len(s) - 1
           /\ \A i \in 1..(Len(s) - 1) : Front(s)[i] = s[i]
           /\ Len(s) \in Nat \ {0} /\ Last(s) = s[Len(s)] /\ Last(s) \in S
<1>1. Len(s) \in Nat \ {0}
  OBVIOUS
<1>2. PICK n \in Nat : n = Len(s) - 1
  BY <1>1
<1>3. /\ Front(s) = SubSeq(s, 1, n) /\ Last(s) = s[Len(s)]
  BY <1>2 DEF Front, Last
<1>4. /\ SubSeq(s, 1, n) \in Seq(S) /\ Len(SubSeq(s, 1, n)) = n
      /\ \A i \in 1..n : SubSeq(s, 1, n)[i] = s[i]
  <2>1. \A i \in 1..n : s[i] \in S
    BY <1>1, <1>2
  <2> QED
    BY <1>2, <2>1, SubSeqProperties
<1> QED
  BY <1>1, <1>2, <1>3, <1>4

LEMMA ErrorTypes ==
    ASSUME TypeOK, [Next]_vars
    PROVE  error_queue' \in [Actors -> Seq(Actors)]
<1> SUFFICES ASSUME NEW a \in Actors,
                    \/ UserCode(a) \/ Loop(a) \/ HookReturns(a) \/ Stopping(a)
                    \/ StopBranch(a) \/ MessageBranch(a) \/ FaultBranch(a)
                    \/ InnerBranch(a) \/ ActionReceived(a)
             PROVE  error_queue' \in [Actors -> Seq(Actors)]
  BY DEF Next, TypeOK, vars, family
<1> USE DEF family
<1>t. error_queue \in [Actors -> Seq(Actors)]
  BY DEF TypeOK
<1>1. CASE FaultBranch(a)
  <2>1. Tail(error_queue[a]) \in Seq(Actors)
    BY <1>1, <1>t DEF FaultBranch
  <2> QED
    BY <1>1, <1>t, <2>1 DEF FaultBranch
<1>2. CASE Terminates(a)
  <2>1. <<>> \in Seq(Actors)
    OBVIOUS
  <2> QED
    BY <1>2, <1>t, <2>1 DEF Terminates
<1>3. CASE ChildFails(a)
  <2>1. Parent[a] \in Actors
    BY <1>3, TreeAssumption DEF ChildFails, IsRoot
  <2>2. Append(error_queue[Parent[a]], a) \in Seq(Actors)
    BY <1>t, <2>1
  <2> QED
    BY <1>3, <1>t, <2>2 DEF ChildFails
<1>4. CASE UserCode(a)
  BY <1>4, <1>t DEF UserCode, EmitFail, RequestStop, CreateChild
<1>5. CASE LoopFailed(a) \/ TryRestart(a) \/ GiveUp(a) \/ LoopStopped(a)
  BY <1>5, <1>t DEF LoopFailed, TryRestart, GiveUp, LoopStopped
<1>6. CASE HookReturns(a)
  BY <1>6, <1>t DEF HookReturns, Starts, FailsToStart, Restarts, FailsToRestart, PostStopReturns,
     MessageHandled, FaultAnswer, PreStopReturns
<1>7. CASE Stopping(a) \/ StopBranch(a) \/ MessageBranch(a) \/ RootFails(a) \/ ActionReceived(a)
  BY <1>7, <1>t DEF Stopping, StopNextChild, LeavesRun, StopBranch, MessageBranch, RootFails,
     ActionReceived
<1> QED
  BY <1>1, <1>2, <1>3, <1>4, <1>5, <1>6, <1>7 DEF Loop, InnerBranch

LEMMA TypeStep ==
    ASSUME TypeOK, [Next]_vars
    PROVE  TypeOK'
<1> USE DEF run, family
<1>t. /\ pc \in [Actors -> Points] /\ waits \in [Actors -> NoOne] /\ serving \in [Actors -> NoOne]
      /\ child_senders \in [Actors -> Seq(Actors)] /\ stop_queue \in [Actors -> Seq(NoOne)]
      /\ born \in [Actors -> Points] /\ left \in [Actors -> BOOLEAN]
  BY DEF TypeOK
<1>n. NoActor \in NoOne /\ Actors \subseteq NoOne
  BY DEF NoOne
<1>p. {"pre_start", "select", "pre_stop", "done", "loop"} \subseteq Points
  BY DEF Points, Hooks
<1>e. error_queue' \in [Actors -> Seq(Actors)]
  BY ErrorTypes
<1>1. ASSUME NEW a \in Actors, NEW to \in Points, Goes(a, to) PROVE TypeOK'
  <2>1. Append(stop_queue[a], NoActor) \in Seq(NoOne)
    BY <1>t, <1>n
  <2>2. stop_queue' \in [Actors -> Seq(NoOne)]
    BY <1>1, <1>t, <2>1 DEF Goes
  <2> QED
    BY <1>1, <1>t, <1>e, <2>2 DEF Goes, TypeOK
<1>2. ASSUME NEW a \in Actors, NEW c \in Actors, CreateChild(a, c) PROVE TypeOK'
  BY <1>2, <1>t, <1>e, <1>n, <1>p DEF CreateChild, TypeOK
<1>3. ASSUME NEW a \in Actors, Starts(a), ~IsRoot(a) PROVE TypeOK'
  <2>1. Parent[a] \in Actors
    BY <1>3, TreeAssumption DEF IsRoot
  <2>2. Append(child_senders[Parent[a]], a) \in Seq(Actors)
    BY <1>t, <2>1
  <2>3. child_senders' \in [Actors -> Seq(Actors)]
    BY <1>3, <1>t, <2>1, <2>2 DEF Starts, Kept
  <2>4. waits' \in [Actors -> NoOne]
    BY <1>3, <1>t, <1>n, <2>1 DEF Starts, Released
  <2> QED
    BY <1>3, <1>t, <1>e, <1>p, <2>3, <2>4 DEF Starts, GoTo, TypeOK
<1>4. ASSUME NEW a \in Actors, StopBranch(a) PROVE TypeOK'
  <2>1. Head(stop_queue[a]) \in NoOne /\ Tail(stop_queue[a]) \in Seq(NoOne)
    BY <1>4, <1>t DEF StopBranch
  <2> QED
    BY <1>4, <1>t, <1>e, <1>p, <2>1 DEF StopBranch, GoTo, TypeOK
<1>5. ASSUME NEW a \in Actors, Terminates(a) PROVE TypeOK'
  <2>1. <<>> \in Seq(NoOne)
    OBVIOUS
  <2>2. waits' \in [Actors -> NoOne]
    BY <1>5, <1>t, <1>n DEF Terminates, Released
  <2> QED
    BY <1>5, <1>t, <1>e, <1>p, <2>1, <2>2 DEF Terminates, GoTo, TypeOK
<1>6. ASSUME NEW a \in Actors, StopNextChild(a) PROVE TypeOK'
  <2>1. PICK c \in Actors : c = Last(child_senders[a])
    BY <1>6, <1>t, LastAndFront DEF StopNextChild
  <2>2. Front(child_senders[a]) \in Seq(Actors)
    BY <1>6, <1>t, LastAndFront DEF StopNextChild
  <2>3. child_senders' \in [Actors -> Seq(Actors)]
    BY <1>6, <1>t, <2>2 DEF StopNextChild
  <2>4. waits' \in [Actors -> NoOne]
    BY <1>6, <1>t, <1>n, <2>1 DEF StopNextChild, Awaited
  <2>5. Append(stop_queue[c], a) \in Seq(NoOne)
    BY <1>t, <1>n
  <2>6. stop_queue' \in [Actors -> Seq(NoOne)]
    BY <1>6, <1>t, <2>1, <2>5 DEF StopNextChild
  <2> QED
    BY <1>6, <1>t, <1>e, <2>3, <2>4, <2>6 DEF StopNextChild, TypeOK
<1>7. ASSUME NEW a \in Actors, LeavesRun(a) PROVE TypeOK'
  <2>1. waits' \in [Actors -> NoOne] /\ serving' \in [Actors -> NoOne]
    BY <1>7, <1>t, <1>n DEF LeavesRun, Released
  <2> QED
    BY <1>7, <1>t, <1>e, <1>p, <2>1 DEF LeavesRun, GoTo, TypeOK
<1>8. CASE UNCHANGED vars
  BY <1>8, <1>t, <1>e DEF vars, TypeOK
<1> QED
  BY <1>1, <1>2, <1>3, <1>4, <1>5, <1>6, <1>7, <1>8, TreeCases

\* c will confirm a stop to its parent.
Claims(c) == \/ Confirming(c)
             \/ \E i \in 1..Len(stop_queue[c]) : stop_queue[c][i] # NoActor

\* A step that adds no request keeps RequestsOK, if parents wait for confirmations.
LEMMA RequestsKept ==
    ASSUME TypeOK, RequestsOK,
           \A c, p \in Actors : Claims(c)' /\ Confirms(c, p) => Confirms(c, p)',
           \A c \in Actors : Confirming(c)' => Confirming(c) /\ serving'[c] = serving[c],
           \A c \in Actors : \A i \in 1..Len(stop_queue'[c]) : stop_queue'[c][i] # NoActor =>
              i \in 1..Len(stop_queue[c]) /\ stop_queue'[c][i] = stop_queue[c][i]
    PROVE  RequestsOK'
<1>1. ASSUME NEW c \in Actors, Confirming(c)' PROVE Confirms(c, serving[c])'
  <2>1. PICK p \in Actors : p = serving[c]
    BY <1>1 DEF TypeOK, NoOne, Confirming
  <2>2. Confirms(c, p)
    BY <1>1, <2>1 DEF RequestsOK
  <2>3. Confirms(c, p)' /\ serving'[c] = p
    BY <1>1, <2>1, <2>2 DEF Claims
  <2> QED
    BY <2>3 DEF Confirms
<1>2. ASSUME NEW c \in Actors, NEW i \in 1..Len(stop_queue'[c]), stop_queue'[c][i] # NoActor
      PROVE  /\ Confirms(c, stop_queue[c][i])' /\ ~Confirming(c)'
             /\ \A j \in 1..Len(stop_queue'[c]) : stop_queue'[c][j] # NoActor => i = j
  <2>0. i \in 1..Len(stop_queue[c]) /\ stop_queue[c][i] # NoActor /\ stop_queue'[c][i] = stop_queue[c][i]
    BY <1>2
  <2>1. PICK p \in Actors : p = stop_queue[c][i]
    BY <2>0 DEF TypeOK, NoOne
  <2>2. /\ Confirms(c, p) /\ ~Confirming(c)
        /\ \A j \in 1..Len(stop_queue'[c]) : stop_queue'[c][j] # NoActor => i = j
    BY <2>0, <2>1 DEF RequestsOK
  <2>3. Claims(c)'
    BY <1>2 DEF Claims
  <2>4. Confirms(c, p)' /\ stop_queue'[c][i] = p
    BY <2>0, <2>1, <2>2, <2>3
  <2> QED
    BY <2>2, <2>4 DEF Confirms
<1> QED
  BY <1>1, <1>2 DEF RequestsOK

-----------------------------------------------------------------------------
(* Each kind of step keeps the invariant.                                  *)

LEMMA GoesStep ==
    ASSUME TreeInv, TypeOK', NEW a \in Actors, NEW to \in Points, Goes(a, to)
    PROVE  TreeInv'
<1>t. /\ pc \in [Actors -> Points] /\ waits \in [Actors -> NoOne]
      /\ stop_queue \in [Actors -> Seq(NoOne)] /\ NoActor \notin Actors
      /\ \A c \in Actors : ~IsRoot(c) => Parent[c] \in Actors
  BY TreeAssumption DEF TreeInv, TypeOK, IsRoot
<1>1. /\ pc'[a] = to /\ \A b \in Actors : b # a => pc'[b] = pc[b]
      /\ waits' = waits /\ child_senders' = child_senders /\ born' = born /\ left' = left
      /\ \A b \in Actors : b # a => serving'[b] = serving[b]
  BY <1>t DEF Goes
<1>2. \A c \in Actors : \A i \in 1..Len(stop_queue'[c]) : stop_queue'[c][i] # NoActor =>
         i \in 1..Len(stop_queue[c]) /\ stop_queue'[c][i] = stop_queue[c][i]
  <2>1. CASE stop_queue' = stop_queue
    BY <2>1
  <2>2. CASE stop_queue' = [stop_queue EXCEPT ![a] = Append(@, NoActor)]
    <3>1. PICK q \in Seq(NoOne) : q = stop_queue[a]
      BY <1>t
    <3>2. stop_queue'[a] = Append(q, NoActor) /\ \A b \in Actors : b # a => stop_queue'[b] = stop_queue[b]
      BY <1>t, <2>2, <3>1
    <3>3. \A i \in 1..Len(Append(q, NoActor)) : Append(q, NoActor)[i] # NoActor =>
             i \in 1..Len(q) /\ Append(q, NoActor)[i] = q[i]
      BY AppendProperties DEF NoOne
    <3> QED
      BY <3>1, <3>2, <3>3
  <2> QED
    BY <2>1, <2>2 DEF Goes
<1>s. \A p, c : Listed(c, p)' <=> Listed(c, p)
  BY <1>1 DEF Listed
<1>3. CASE to = pc[a] /\ serving' = serving
  <2>1. pc' = pc
    BY <1>3, <1>t DEF Goes
  <2>2. RequestsOK'
    <3>1. \A c, p \in Actors : Confirms(c, p) => Confirms(c, p)'
      BY <1>1, <2>1 DEF Confirms
    <3>2. \A c \in Actors : Confirming(c)' => Confirming(c) /\ serving'[c] = serving[c]
      BY <1>3, <2>1 DEF Confirming
    <3> QED
      BY <1>2, <3>1, <3>2, RequestsKept DEF TreeInv
  <2> QED
    BY <1>1, <1>s, <2>1, <2>2
       DEF TreeInv, CreatorWaits, SendersOK, HistoryOK, OutsideRun, Orphan, StopFirst
<1>4. CASE /\ waits[a] = NoActor /\ pc[a] \notin {"none", "done"} /\ to \in Points \ {"none", "pre_start"}
           /\ to \in Outside => pc[a] \in Outside
           /\ to \in {"pre_stop", "stop_childs"} => pc[a] = "pre_stop" /\ serving' = serving
  <2>0. \A c \in Actors : waits[a] # c
    BY <1>4, <1>t
  <2>1. CreatorWaits'
    BY <1>1, <1>4, <1>t, <2>0 DEF TreeInv, CreatorWaits
  <2>2. SendersOK'
    BY <1>1, <1>4, <1>s DEF TreeInv, SendersOK
  <2>3. RequestsOK'
    <3>1. \A c, p \in Actors : Confirms(c, p) => Confirms(c, p)'
      BY <1>1, <2>0 DEF Confirms
    <3>2. \A c \in Actors : Confirming(c)' => Confirming(c) /\ serving'[c] = serving[c]
      BY <1>1, <1>4 DEF Confirming
    <3> QED
      BY <1>2, <3>1, <3>2, RequestsKept DEF TreeInv
  <2>4. HistoryOK'
    BY <1>1, <1>4 DEF TreeInv, HistoryOK
  <2>5. OutsideRun'
    BY <1>1, <1>4, <1>s DEF TreeInv, OutsideRun, Orphan
  <2>6. StopFirst'
    <3>1. \A c \in Actors : pc'[c] # "done" => pc[c] # "done" \/ c = a
      BY <1>1
    <3>2. pc'[a] # "done" => pc[a] # "done"
      BY <1>1, <1>4
    <3> QED
      BY <1>1, <1>s, <3>1, <3>2 DEF TreeInv, StopFirst
  <2> QED
    BY <2>1, <2>2, <2>3, <2>4, <2>5, <2>6 DEF TreeInv
<1> QED
  BY <1>3, <1>4 DEF Goes

LEMMA CreateStep ==
    ASSUME TreeInv, TypeOK', NEW a \in Actors, NEW c \in Actors, CreateChild(a, c)
    PROVE  TreeInv'
<1>t. /\ pc \in [Actors -> Points] /\ waits \in [Actors -> NoOne] /\ born \in [Actors -> Points]
      /\ NoActor \notin Actors /\ a # c /\ Parent[c] = a /\ pc[c] = "none"
      /\ pc[a] \in Hooks /\ waits[a] = NoActor
      /\ \A b \in Actors : ~IsRoot(b) => Parent[b] \in Actors
  BY TreeAssumption, HookAssumption DEF TreeInv, TypeOK, IsRoot, CreateChild, InHook, Hooks
<1>1. /\ pc'[c] = "pre_start" /\ \A b \in Actors : b # c => pc'[b] = pc[b]
      /\ waits'[a] = c /\ \A b \in Actors : b # a => waits'[b] = waits[b]
      /\ born'[c] = pc[a] /\ \A b \in Actors : b # c => born'[b] = born[b]
      /\ child_senders' = child_senders /\ stop_queue' = stop_queue /\ serving' = serving
      /\ left' = left
  BY <1>t DEF CreateChild
<1>2. \A p \in Actors : waits[p] \in Actors => p # a /\ waits'[p] = waits[p]
  BY <1>1, <1>t
<1>s. \A p, d : Listed(d, p)' <=> Listed(d, p)
  BY <1>1 DEF Listed
<1>l. \A p \in Actors : ~Listed(c, p)
  BY <1>t DEF TreeInv, SendersOK
<1>h. \A hook \in Hooks : hook \notin {"none", "stop_childs"}
  BY DEF Hooks
<1>3. CreatorWaits'
  <2> SUFFICES ASSUME NEW d \in Actors, pc'[d] = "pre_start", ~IsRoot(d)
               PROVE  waits'[Parent[d]] = d /\ born'[d] = pc'[Parent[d]] /\ born'[d] \in Hooks
    BY DEF CreatorWaits, IsRoot
  <2>1. CASE d = c
    BY <1>1, <1>t, <2>1
  <2>2. CASE d # c
    <3>1. waits[Parent[d]] = d /\ born[d] = pc[Parent[d]] /\ born[d] \in Hooks /\ Parent[d] \in Actors
      BY <1>1, <1>t, <2>2 DEF TreeInv, CreatorWaits
    <3>2. Parent[d] # c
      BY <1>h, <1>t, <3>1
    <3> QED
      BY <1>1, <1>2, <2>2, <3>1, <3>2
  <2> QED
    BY <2>1, <2>2
<1>4. SendersOK'
  BY <1>1, <1>t, <1>s, <1>l DEF TreeInv, SendersOK
<1>5. RequestsOK'
  <2>1. \A d, p \in Actors : Confirms(d, p) => Confirms(d, p)'
    BY <1>1, <1>2, <1>t DEF Confirms
  <2>2. \A d \in Actors : Confirming(d)' => Confirming(d) /\ serving'[d] = serving[d]
    BY <1>1 DEF Confirming
  <2> QED
    BY <1>1, <2>1, <2>2, RequestsKept DEF TreeInv
<1>6. HistoryOK'
  <2>1. ~IsRoot(c)
    BY <1>t DEF IsRoot
  <2> QED
    BY <1>1, <1>t, <2>1 DEF TreeInv, HistoryOK, IsRoot
<1>7. OutsideRun'
  <2> SUFFICES ASSUME NEW p \in Actors, NEW d \in Actors, pc'[p] \in Outside, Listed(d, p)'
               PROVE  Orphan(d, p)'
    BY DEF OutsideRun
  <2>1. Listed(d, p) /\ d # c
    BY <1>s, <1>l
  <2>2. p # c
    BY <1>t, <2>1 DEF TreeInv, SendersOK
  <2> QED
    BY <1>1, <2>1, <2>2 DEF TreeInv, OutsideRun, Orphan
<1>8. StopFirst'
  <2> SUFFICES ASSUME NEW d \in Actors, born'[d] # "none", pc'[d] # "done"
               PROVE  Listed(d, Parent[d])' \/ waits'[Parent[d]] = d \/ left'[d]
    BY DEF StopFirst
  <2>1. CASE d = c
    BY <1>1, <1>t, <2>1
  <2>2. CASE d # c
    <3>1. Listed(d, Parent[d]) \/ waits[Parent[d]] = d \/ left[d]
      BY <1>1, <2>2 DEF TreeInv, StopFirst
    <3>2. Parent[d] \in Actors
      BY <1>1, <1>t, <2>2 DEF TreeInv, HistoryOK
    <3> QED
      BY <1>1, <1>2, <1>s, <3>1, <3>2
  <2> QED
    BY <2>1, <2>2
<1> QED
  BY <1>3, <1>4, <1>5, <1>6, <1>7, <1>8 DEF TreeInv

LEMMA StartStep ==
    ASSUME TreeInv, TypeOK', NEW a \in Actors, Starts(a), ~IsRoot(a)
    PROVE  TreeInv'
<1>0. PICK p \in Actors : p = Parent[a]
  BY TreeAssumption DEF IsRoot
<1>t. /\ pc \in [Actors -> Points] /\ waits \in [Actors -> NoOne] /\ NoActor \notin Actors
      /\ child_senders \in [Actors -> Seq(Actors)]
      /\ pc[a] = "pre_start" /\ waits[a] = NoActor
      /\ waits[p] = a /\ born[a] = pc[p] /\ pc[p] \in Hooks /\ p # a
      /\ \A b \in Actors : ~IsRoot(b) => Parent[b] \in Actors
  BY <1>0, TreeAssumption DEF TreeInv, TypeOK, IsRoot, Starts, At, CreatorWaits
<1>1. /\ pc'[a] = "select" /\ \A b \in Actors : b # a => pc'[b] = pc[b]
      /\ waits'[p] = NoActor /\ \A b \in Actors : b # p => waits'[b] = waits[b]
      /\ child_senders'[p] = Append(child_senders[p], a)
      /\ \A b \in Actors : b # p => child_senders'[b] = child_senders[b]
      /\ born' = born /\ stop_queue' = stop_queue /\ serving' = serving /\ left' = left
  BY <1>0, <1>t DEF Starts, GoTo, Released, Kept
<1>2. PICK s \in Seq(Actors) : s = child_senders[p]
  BY <1>t
<1>3. /\ Len(child_senders'[p]) = Len(s) + 1 /\ Len(s) \in Nat
      /\ \A i \in 1..Len(s) : child_senders'[p][i] = s[i]
      /\ child_senders'[p][Len(s) + 1] = a
  BY <1>1, <1>2, AppendProperties
<1>l. \A q \in Actors : ~Listed(a, q)
  BY <1>t DEF TreeInv, SendersOK
<1>s. \A q, d \in Actors : Listed(d, q)' <=> Listed(d, q) \/ (d = a /\ q = p)
  <2>1. \A d : (\E i \in 1..Len(child_senders'[p]) : child_senders'[p][i] = d)
                  <=> (\E i \in 1..Len(s) : s[i] = d) \/ d = a
    BY <1>3
  <2> QED
    BY <1>1, <1>2, <2>1 DEF Listed
<1>h. \A hook \in Hooks : hook \notin {"none", "stop_childs", "loop", "done"}
  BY DEF Hooks
<1>w. \A d, q \in Actors : waits[q] = d /\ d # a => q # p /\ q # a /\ waits'[q] = d
  BY <1>1, <1>t
<1>4. CreatorWaits'
  <2> SUFFICES ASSUME NEW d \in Actors, pc'[d] = "pre_start", ~IsRoot(d)
               PROVE  waits'[Parent[d]] = d /\ born'[d] = pc'[Parent[d]] /\ born'[d] \in Hooks
    BY DEF CreatorWaits, IsRoot
  <2>1. d # a /\ Parent[d] \in Actors
    BY <1>1, <1>t
  <2>2. waits[Parent[d]] = d /\ born[d] = pc[Parent[d]] /\ born[d] \in Hooks
    BY <1>1, <2>1 DEF TreeInv, CreatorWaits
  <2> QED
    BY <1>1, <1>w, <2>1, <2>2
<1>5. SendersOK'
  <2>1. \A q, d \in Actors : Listed(d, q)' =>
           Parent[d] = q /\ pc'[q] # "none" /\ pc'[d] \notin {"none", "pre_start"} /\ waits'[q] # d
    <3> SUFFICES ASSUME NEW q \in Actors, NEW d \in Actors, Listed(d, q)'
                 PROVE  Parent[d] = q /\ pc'[q] # "none" /\ pc'[d] \notin {"none", "pre_start"} /\ waits'[q] # d
      OBVIOUS
    <3>1. CASE Listed(d, q)
      BY <1>1, <1>t, <3>1 DEF TreeInv, SendersOK
    <3>2. CASE d = a /\ q = p
      BY <1>0, <1>1, <1>h, <1>t, <3>2
    <3> QED
      BY <1>s, <3>1, <3>2
  <2>2. \A q \in Actors : \A i, j \in 1..Len(child_senders'[q]) :
           child_senders'[q][i] = child_senders'[q][j] => i = j
    <3>1. \A i \in 1..Len(s) : s[i] # a
      BY <1>2, <1>l DEF Listed
    <3>2. \A i, j \in 1..Len(s) : s[i] = s[j] => i = j
      BY <1>2 DEF TreeInv, SendersOK
    <3>3. \A i, j \in 1..(Len(s) + 1) : child_senders'[p][i] = child_senders'[p][j] => i = j
      BY <1>3, <3>1, <3>2
    <3>4. \A q \in Actors : q # p => \A i, j \in 1..Len(child_senders'[q]) :
             child_senders'[q][i] = child_senders'[q][j] => i = j
      BY <1>1 DEF TreeInv, SendersOK
    <3> QED
      BY <1>3, <3>3, <3>4
  <2> QED
    BY <2>1, <2>2 DEF SendersOK
<1>6. RequestsOK'
  <2>1. \A d, q \in Actors : Confirms(d, q) => Confirms(d, q)'
    BY <1>1, <1>h, <1>t, <1>w DEF Confirms
  <2>2. \A d \in Actors : Confirming(d)' => Confirming(d) /\ serving'[d] = serving[d]
    BY <1>1 DEF Confirming
  <2> QED
    BY <1>1, <2>1, <2>2, RequestsKept DEF TreeInv
<1>7. HistoryOK'
  BY <1>1 DEF TreeInv, HistoryOK
<1>8. OutsideRun'
  <2> SUFFICES ASSUME NEW q \in Actors, NEW d \in Actors, pc'[q] \in Outside, Listed(d, q)'
               PROVE  Orphan(d, q)'
    BY DEF OutsideRun
  <2>0. q # a /\ pc[q] \in Outside
    BY <1>1 DEF Outside
  <2>1. CASE Listed(d, q)
    BY <1>1, <2>0, <2>1 DEF TreeInv, OutsideRun, Orphan
  <2>2. CASE d = a /\ q = p
    <3>1. born[a] \in {"pre_start", "pre_restart", "post_stop"}
      BY <1>h, <1>t, <2>0, <2>2 DEF Outside
    <3>2. born[a] = "pre_start" => ~left[p]
      BY <1>t DEF TreeInv, HistoryOK
    <3> QED
      BY <1>1, <2>2, <3>1, <3>2 DEF Orphan
  <2> QED
    BY <1>s, <2>1, <2>2
<1>9. StopFirst'
  <2> SUFFICES ASSUME NEW d \in Actors, born'[d] # "none", pc'[d] # "done"
               PROVE  Listed(d, Parent[d])' \/ waits'[Parent[d]] = d \/ left'[d]
    BY DEF StopFirst
  <2>1. CASE d = a
    BY <1>0, <1>s, <2>1
  <2>2. CASE d # a
    <3>1. Listed(d, Parent[d]) \/ waits[Parent[d]] = d \/ left[d]
      BY <1>1, <2>2 DEF TreeInv, StopFirst
    <3>2. Parent[d] \in Actors
      BY <1>1, <1>t DEF TreeInv, HistoryOK
    <3> QED
      BY <1>1, <1>s, <1>w, <2>2, <3>1, <3>2
  <2> QED
    BY <2>1, <2>2
<1> QED
  BY <1>4, <1>5, <1>6, <1>7, <1>8, <1>9 DEF TreeInv

LEMMA StopBranchStep ==
    ASSUME TreeInv, TypeOK', NEW a \in Actors, StopBranch(a)
    PROVE  TreeInv'
<1>t. /\ pc \in [Actors -> Points] /\ waits \in [Actors -> NoOne] /\ NoActor \notin Actors
      /\ stop_queue \in [Actors -> Seq(NoOne)] /\ serving \in [Actors -> NoOne]
      /\ pc[a] = "select" /\ waits[a] = NoActor
      /\ \A b \in Actors : ~IsRoot(b) => Parent[b] \in Actors
  BY TreeAssumption DEF TreeInv, TypeOK, IsRoot, StopBranch, At
<1>1. PICK s \in Seq(NoOne) : s = stop_queue[a] /\ s # <<>>
  BY <1>t DEF StopBranch
<1>2. /\ pc'[a] = "pre_stop" /\ \A b \in Actors : b # a => pc'[b] = pc[b]
      /\ serving'[a] = Head(s) /\ \A b \in Actors : b # a => serving'[b] = serving[b]
      /\ stop_queue'[a] = Tail(s) /\ \A b \in Actors : b # a => stop_queue'[b] = stop_queue[b]
      /\ waits' = waits /\ child_senders' = child_senders /\ born' = born /\ left' = left
  BY <1>1, <1>t DEF StopBranch, GoTo
<1>3. /\ Head(s) = s[1] /\ Len(Tail(s)) = Len(s) - 1 /\ Len(s) \in Nat \ {0}
      /\ \A i \in 1..Len(Tail(s)) : Tail(s)[i] = s[i + 1]
      /\ Head(s) \in NoOne
  BY <1>1, HeadTailProperties
<1>s. \A q, d : Listed(d, q)' <=> Listed(d, q)
  BY <1>2 DEF Listed
<1>w. \A d, q \in Actors : waits[q] = d => q # a
  BY <1>t
<1>4. CreatorWaits'
  <2> SUFFICES ASSUME NEW d \in Actors, pc'[d] = "pre_start", ~IsRoot(d)
               PROVE  waits'[Parent[d]] = d /\ born'[d] = pc'[Parent[d]] /\ born'[d] \in Hooks
    BY DEF CreatorWaits, IsRoot
  <2>1. waits[Parent[d]] = d /\ born[d] = pc[Parent[d]] /\ born[d] \in Hooks /\ Parent[d] \in Actors
    BY <1>2, <1>t DEF TreeInv, CreatorWaits
  <2> QED
    BY <1>2, <1>w, <2>1
<1>5. SendersOK' /\ HistoryOK'
  BY <1>2, <1>s, <1>t DEF TreeInv, SendersOK, HistoryOK
<1>6. RequestsOK'
  <2>1. \A d, q \in Actors : Confirms(d, q) => Confirms(d, q)'
    BY <1>2, <1>w DEF Confirms
  <2>2. \A i \in 1..Len(s) : s[i] # NoActor =>
           s[i] \in Actors /\ Confirms(a, s[i]) /\ \A j \in 1..Len(s) : s[j] # NoActor => i = j
    BY <1>1 DEF TreeInv, RequestsOK, NoOne
  <2>3. ASSUME NEW d \in Actors, Confirming(d)' PROVE Confirms(d, serving[d])'
    <3>1. PICK q : q = serving'[d]
      OBVIOUS
    <3>2. q \in Actors /\ Confirms(d, q)
      <4>1. CASE d = a
        BY <1>2, <1>3, <2>2, <2>3, <3>1, <4>1 DEF Confirming
      <4>2. CASE d # a
        BY <1>2, <1>t, <2>3, <3>1, <4>2 DEF Confirming, TreeInv, RequestsOK, NoOne
      <4> QED
        BY <4>1, <4>2
    <3>3. Confirms(d, q)'
      BY <2>1, <2>3, <3>2
    <3> QED
      BY <3>1, <3>3 DEF Confirms
  <2>4. ASSUME NEW d \in Actors, NEW i \in 1..Len(stop_queue'[d]), stop_queue'[d][i] # NoActor
        PROVE  /\ Confirms(d, stop_queue[d][i])' /\ ~Confirming(d)'
               /\ \A j \in 1..Len(stop_queue'[d]) : stop_queue'[d][j] # NoActor => i = j
    <3>1. PICK q : q = stop_queue'[d][i]
      OBVIOUS
    <3>2. /\ q \in Actors /\ Confirms(d, q) /\ ~Confirming(d)'
          /\ \A j \in 1..Len(stop_queue'[d]) : stop_queue'[d][j] # NoActor => i = j
      <4>1. CASE d = a
        <5>1. i + 1 \in 1..Len(s) /\ s[i + 1] = q /\ q # NoActor
          BY <1>2, <1>3, <2>4, <3>1, <4>1
        <5>2. Head(s) = NoActor
          BY <1>3, <2>2, <5>1
        <5>3. \A j \in 1..Len(Tail(s)) : Tail(s)[j] # NoActor => i = j
          <6>1. \A j \in 1..Len(Tail(s)) : j + 1 \in 1..Len(s) /\ Tail(s)[j] = s[j + 1]
            BY <1>3
          <6>2. \A j \in 1..Len(s) : s[j] # NoActor => i + 1 = j
            BY <2>2, <5>1
          <6> QED
            BY <1>3, <6>1, <6>2
        <5> QED
          BY <1>2, <2>2, <4>1, <5>1, <5>2, <5>3 DEF Confirming
      <4>2. CASE d # a
        <5>1. stop_queue[d][i] = q /\ i \in 1..Len(stop_queue[d]) /\ q # NoActor
          BY <1>2, <2>4, <3>1, <4>2
        <5>2. q \in Actors
          BY <1>t, <5>1 DEF NoOne
        <5> QED
          BY <1>2, <4>2, <5>1, <5>2 DEF Confirming, TreeInv, RequestsOK
      <4> QED
        BY <4>1, <4>2
    <3>3. Confirms(d, q)'
      BY <2>1, <3>2
    <3> QED
      BY <3>1, <3>2, <3>3 DEF Confirms
  <2> QED
    BY <2>3, <2>4 DEF RequestsOK
<1>7. OutsideRun'
  <2>1. \A q \in Actors : pc'[q] \in Outside => pc[q] \in Outside
    BY <1>2 DEF Outside
  <2> QED
    BY <1>2, <1>s, <2>1 DEF TreeInv, OutsideRun, Orphan
<1>8. StopFirst'
  <2>1. \A d \in Actors : pc'[d] # "done" => pc[d] # "done"
    BY <1>2, <1>t
  <2> QED
    BY <1>2, <1>s, <2>1 DEF TreeInv, StopFirst
<1> QED
  BY <1>4, <1>5, <1>6, <1>7, <1>8 DEF TreeInv

LEMMA TerminatesStep ==
    ASSUME TreeInv, TypeOK', NEW a \in Actors, Terminates(a)
    PROVE  TreeInv'
<1>t. /\ pc \in [Actors -> Points] /\ waits \in [Actors -> NoOne] /\ NoActor \notin Actors
      /\ stop_queue \in [Actors -> Seq(NoOne)] /\ pc[a] = "loop" /\ waits[a] = NoActor
      /\ \A b \in Actors : ~IsRoot(b) => Parent[b] \in Actors
  BY TreeAssumption DEF TreeInv, TypeOK, IsRoot, Terminates, At
<1>1. /\ pc'[a] = "done" /\ \A b \in Actors : b # a => pc'[b] = pc[b]
      /\ stop_queue'[a] = <<>> /\ \A b \in Actors : b # a => stop_queue'[b] = stop_queue[b]
      /\ child_senders' = child_senders /\ born' = born /\ left' = left /\ serving' = serving
  BY <1>t DEF Terminates, GoTo
<1>w. /\ \A d, q \in Actors : waits[q] = d => q # a /\ (d # a => waits'[q] = d)
      /\ \A q \in Actors : waits'[q] \in {waits[q], NoActor}
  BY <1>t DEF Terminates, Released
<1>s. \A q, d : Listed(d, q)' <=> Listed(d, q)
  BY <1>1 DEF Listed
<1>2. CreatorWaits'
  <2> SUFFICES ASSUME NEW d \in Actors, pc'[d] = "pre_start", ~IsRoot(d)
               PROVE  waits'[Parent[d]] = d /\ born'[d] = pc'[Parent[d]] /\ born'[d] \in Hooks
    BY DEF CreatorWaits, IsRoot
  <2>1. d # a /\ Parent[d] \in Actors
    BY <1>1, <1>t
  <2>2. waits[Parent[d]] = d /\ born[d] = pc[Parent[d]] /\ born[d] \in Hooks
    BY <1>1, <2>1 DEF TreeInv, CreatorWaits
  <2> QED
    BY <1>1, <1>w, <2>1, <2>2
<1>3. SendersOK' /\ HistoryOK'
  BY <1>1, <1>s, <1>t, <1>w DEF TreeInv, SendersOK, HistoryOK
<1>4. RequestsOK'
  <2>1. ~Claims(a)'
    BY <1>1 DEF Claims, Confirming
  <2>2. \A d, q \in Actors : Claims(d)' /\ Confirms(d, q) => Confirms(d, q)'
    BY <1>1, <1>w, <2>1 DEF Confirms
  <2>3. \A d \in Actors : Confirming(d)' => Confirming(d) /\ serving'[d] = serving[d]
    BY <1>1 DEF Confirming
  <2>4. \A d \in Actors : \A i \in 1..Len(stop_queue'[d]) : stop_queue'[d][i] # NoActor =>
           i \in 1..Len(stop_queue[d]) /\ stop_queue'[d][i] = stop_queue[d][i]
    BY <1>1
  <2> QED
    BY <2>2, <2>3, <2>4, RequestsKept DEF TreeInv
<1>5. OutsideRun'
  <2>1. \A q \in Actors : pc'[q] \in Outside => pc[q] \in Outside
    BY <1>1, <1>t DEF Outside
  <2> QED
    BY <1>1, <1>s, <2>1 DEF TreeInv, OutsideRun, Orphan
<1>6. StopFirst'
  <2> SUFFICES ASSUME NEW d \in Actors, born'[d] # "none", pc'[d] # "done"
               PROVE  Listed(d, Parent[d])' \/ waits'[Parent[d]] = d \/ left'[d]
    BY DEF StopFirst
  <2>1. d # a /\ pc[d] # "done" /\ born[d] # "none" /\ Parent[d] \in Actors
    BY <1>1, <1>t DEF TreeInv, HistoryOK
  <2>2. Listed(d, Parent[d]) \/ waits[Parent[d]] = d \/ left[d]
    BY <2>1 DEF TreeInv, StopFirst
  <2> QED
    BY <1>1, <1>s, <1>w, <2>1, <2>2
<1> QED
  BY <1>2, <1>3, <1>4, <1>5, <1>6 DEF TreeInv

LEMMA StopNextStep ==
    ASSUME TreeInv, TypeOK', NEW a \in Actors, StopNextChild(a)
    PROVE  TreeInv'
<1>t. /\ pc \in [Actors -> Points] /\ waits \in [Actors -> NoOne] /\ NoActor \notin Actors
      /\ stop_queue \in [Actors -> Seq(NoOne)] /\ child_senders \in [Actors -> Seq(Actors)]
      /\ pc[a] = "stop_childs" /\ waits[a] = NoActor
      /\ \A b \in Actors : ~IsRoot(b) => Parent[b] \in Actors
  BY TreeAssumption DEF TreeInv, TypeOK, IsRoot, StopNextChild, At
<1>1. PICK s \in Seq(Actors) : s = child_senders[a] /\ s # <<>>
  BY <1>t DEF StopNextChild
<1>2. /\ Len(Front(s)) = Len(s) - 1 /\ (\A i \in 1..(Len(s) - 1) : Front(s)[i] = s[i])
      /\ Len(s) \in Nat \ {0} /\ Last(s) = s[Len(s)] /\ Last(s) \in Actors
  BY <1>1, LastAndFront
<1>3. PICK c \in Actors : c = Last(s)
  BY <1>2
<1>4. /\ child_senders'[a] = Front(s)
      /\ \A b \in Actors : b # a => child_senders'[b] = child_senders[b]
      /\ waits' = (IF pc[c] = "done" THEN waits ELSE [waits EXCEPT ![a] = c])
      /\ stop_queue' = IF pc[c] = "done" THEN stop_queue
                       ELSE [stop_queue EXCEPT ![c] = Append(@, a)]
      /\ pc' = pc /\ born' = born /\ left' = left /\ serving' = serving
  BY <1>1, <1>3, <1>t DEF StopNextChild, Awaited, run
<1>5. /\ Listed(c, a) /\ Parent[c] = a
  <2>1. Listed(c, a)
    BY <1>1, <1>2, <1>3 DEF Listed
  <2> QED
    BY <2>1 DEF TreeInv, SendersOK
<1>6. \A i, j \in 1..Len(s) : s[i] = s[j] => i = j
  BY <1>1 DEF TreeInv, SendersOK
<1>s. \A q, d \in Actors : Listed(d, q)' <=> Listed(d, q) /\ ~(d = c /\ q = a)
  <2>1. \A d \in Actors : (\E i \in 1..Len(Front(s)) : Front(s)[i] = d)
                             <=> (\E i \in 1..Len(s) : s[i] = d) /\ d # c
    <3>1. ASSUME NEW i \in 1..Len(Front(s)) PROVE i \in 1..Len(s) /\ s[i] = Front(s)[i] /\ s[i] # c
      BY <1>2, <1>3, <1>6
    <3>2. ASSUME NEW i \in 1..Len(s), s[i] # c PROVE i \in 1..Len(Front(s)) /\ Front(s)[i] = s[i]
      BY <1>2, <1>3, <3>2
    <3> QED
      BY <3>1, <3>2
  <2>2. ASSUME NEW d \in Actors PROVE Listed(d, a)' <=> Listed(d, a) /\ d # c
    BY <1>1, <1>4, <2>1 DEF Listed
  <2>3. ASSUME NEW q \in Actors, NEW d \in Actors, q # a PROVE Listed(d, q)' <=> Listed(d, q)
    BY <1>4, <2>3 DEF Listed
  <2> QED
    BY <2>2, <2>3
<1>w. /\ \A d, q \in Actors : waits[q] = d => q # a /\ waits'[q] = d
      /\ \A d, q \in Actors : waits'[q] = d => waits[q] = d \/ (q = a /\ d = c)
      /\ pc[c] # "done" => waits'[a] = c
  BY <1>4, <1>t
<1>7. CreatorWaits'
  <2> SUFFICES ASSUME NEW d \in Actors, pc'[d] = "pre_start", ~IsRoot(d)
               PROVE  waits'[Parent[d]] = d /\ born'[d] = pc'[Parent[d]] /\ born'[d] \in Hooks
    BY DEF CreatorWaits, IsRoot
  <2>1. /\ waits[Parent[d]] = d /\ born[d] = pc[Parent[d]] /\ born[d] \in Hooks
        /\ Parent[d] \in Actors
    BY <1>4, <1>t DEF TreeInv, CreatorWaits
  <2> QED
    BY <1>4, <1>w, <2>1
<1>8. SendersOK'
  <2>1. \A q, d \in Actors : Listed(d, q)' =>
           Parent[d] = q /\ pc'[q] # "none" /\ pc'[d] \notin {"none", "pre_start"} /\ waits'[q] # d
    BY <1>4, <1>s, <1>w DEF TreeInv, SendersOK
  <2>2. \A i, j \in 1..Len(Front(s)) : Front(s)[i] = Front(s)[j] => i = j
    BY <1>2, <1>6
  <2>3. \A q \in Actors : q # a => \A i, j \in 1..Len(child_senders'[q]) :
           child_senders'[q][i] = child_senders'[q][j] => i = j
    BY <1>4 DEF TreeInv, SendersOK
  <2> QED
    BY <1>4, <2>1, <2>2, <2>3 DEF SendersOK
<1>9. RequestsOK'
  <2>1. \A d, q \in Actors : Confirms(d, q) => Confirms(d, q)'
    BY <1>4, <1>w DEF Confirms
  <2>2. \A d \in Actors : Confirming(d)' => Confirming(d) /\ serving'[d] = serving[d]
    BY <1>4 DEF Confirming
  <2>3. CASE pc[c] = "done"
    <3>1. stop_queue' = stop_queue
      BY <1>4, <2>3
    <3> QED
      BY <2>1, <2>2, <3>1, RequestsKept DEF TreeInv
  <2>4. CASE pc[c] # "done"
    <3>1. PICK q \in Seq(NoOne) : q = stop_queue[c]
      BY <1>t
    <3>2. /\ stop_queue'[c] = Append(q, a)
          /\ \A d \in Actors : d # c => stop_queue'[d] = stop_queue[d]
      BY <1>4, <1>t, <2>4, <3>1
    <3>3. ~\E p : Confirms(c, p)
      BY <1>5, <1>t DEF Confirms
    <3>4. ~Confirming(c) /\ \A i \in 1..Len(q) : q[i] = NoActor
      BY <3>1, <3>3 DEF TreeInv, RequestsOK
    <3>5. /\ Len(Append(q, a)) = Len(q) + 1 /\ Append(q, a)[Len(q) + 1] = a /\ Len(q) \in Nat
          /\ \A i \in 1..Len(q) : Append(q, a)[i] = q[i]
      <4>1. a \in NoOne
        BY DEF NoOne
      <4> QED
        BY <4>1, AppendProperties
    <3>6. Confirms(c, a)'
      BY <1>4, <1>5, <1>t, <1>w, <2>4 DEF Confirms
    <3>7. ASSUME NEW d \in Actors, Confirming(d)' PROVE Confirms(d, serving[d])'
      <4>1. PICK p \in Actors : p = serving[d]
        BY <2>2, <3>7 DEF Confirming, TreeInv, TypeOK, NoOne
      <4>2. Confirms(d, p)' /\ serving'[d] = p
        BY <2>1, <2>2, <3>7, <4>1 DEF TreeInv, RequestsOK
      <4> QED
        BY <4>2 DEF Confirms
    <3>8. ASSUME NEW d \in Actors, NEW i \in 1..Len(stop_queue'[d]), stop_queue'[d][i] # NoActor
          PROVE  /\ Confirms(d, stop_queue[d][i])' /\ ~Confirming(d)'
                 /\ \A j \in 1..Len(stop_queue'[d]) : stop_queue'[d][j] # NoActor => i = j
      <4>1. PICK p : p = stop_queue'[d][i]
        OBVIOUS
      <4>2. CASE d = c
        <5>1. \A j \in 1..Len(stop_queue'[c]) : stop_queue'[c][j] # NoActor => j = Len(q) + 1
          BY <3>2, <3>4, <3>5
        <5>2. i = Len(q) + 1 /\ p = a
          BY <3>2, <3>5, <3>8, <4>1, <4>2, <5>1
        <5>3. Confirms(c, a)' /\ stop_queue'[d][i] = a /\ d = c /\ ~Confirming(c)'
          BY <2>2, <3>4, <3>6, <4>1, <4>2, <5>2
        <5> QED
          BY <5>1, <5>2, <5>3 DEF Confirms
      <4>3. CASE d # c
        <5>1. stop_queue[d][i] = p /\ i \in 1..Len(stop_queue[d]) /\ p # NoActor
          BY <3>2, <3>8, <4>1, <4>3
        <5>2. p \in Actors
          BY <1>t, <5>1 DEF NoOne
        <5>3. /\ Confirms(d, p) /\ ~Confirming(d)
              /\ \A j \in 1..Len(stop_queue'[d]) : stop_queue'[d][j] # NoActor => i = j
          <6>1. stop_queue'[d] = stop_queue[d]
            BY <3>2, <4>3
          <6>2. /\ Confirms(d, stop_queue[d][i]) /\ ~Confirming(d)
                /\ \A j \in 1..Len(stop_queue[d]) : stop_queue[d][j] # NoActor => i = j
            BY <5>1 DEF TreeInv, RequestsOK
          <6> QED
            BY <5>1, <6>1, <6>2
        <5>4. Confirms(d, p)' /\ ~Confirming(d)'
          BY <2>1, <2>2, <5>2, <5>3
        <5> QED
          BY <4>1, <5>3, <5>4 DEF Confirms
      <4> QED
        BY <4>2, <4>3
    <3> QED
      BY <3>7, <3>8 DEF RequestsOK
  <2> QED
    BY <2>3, <2>4
<1>10. HistoryOK'
  BY <1>4 DEF TreeInv, HistoryOK
<1>11. OutsideRun'
  BY <1>4, <1>s DEF TreeInv, OutsideRun, Orphan
<1>12. StopFirst'
  <2> SUFFICES ASSUME NEW d \in Actors, born'[d] # "none", pc'[d] # "done"
               PROVE  Listed(d, Parent[d])' \/ waits'[Parent[d]] = d \/ left'[d]
    BY DEF StopFirst
  <2>1. pc[d] # "done" /\ born[d] # "none" /\ Parent[d] \in Actors
    BY <1>4, <1>t DEF TreeInv, HistoryOK
  <2>2. Listed(d, Parent[d]) \/ waits[Parent[d]] = d \/ left[d]
    BY <2>1 DEF TreeInv, StopFirst
  <2> QED
    BY <1>4, <1>5, <1>s, <1>w, <2>1, <2>2
<1> QED
  BY <1>7, <1>8, <1>9, <1>10, <1>11, <1>12 DEF TreeInv

LEMMA LeavesStep ==
    ASSUME TreeInv, TypeOK', NEW a \in Actors, LeavesRun(a)
    PROVE  TreeInv'
<1>t. /\ pc \in [Actors -> Points] /\ waits \in [Actors -> NoOne] /\ NoActor \notin Actors
      /\ serving \in [Actors -> NoOne] /\ left \in [Actors -> BOOLEAN]
      /\ pc[a] = "stop_childs" /\ waits[a] = NoActor /\ child_senders[a] = <<>>
      /\ \A b \in Actors : ~IsRoot(b) => Parent[b] \in Actors
  BY TreeAssumption DEF TreeInv, TypeOK, IsRoot, LeavesRun, At, NoChildLeft
<1>1. /\ pc'[a] = "loop" /\ \A b \in Actors : b # a => pc'[b] = pc[b]
      /\ serving'[a] = NoActor /\ \A b \in Actors : b # a => serving'[b] = serving[b]
      /\ left'[a] /\ \A b \in Actors : b # a => left'[b] = left[b]
      /\ child_senders' = child_senders /\ born' = born /\ stop_queue' = stop_queue
      /\ waits' = IF serving[a] = NoActor THEN waits ELSE [waits EXCEPT ![serving[a]] = NoActor]
  BY <1>t DEF LeavesRun, GoTo, Released
<1>2. serving[a] # NoActor => serving[a] \in Actors /\ waits[serving[a]] = a
  BY <1>t DEF TreeInv, RequestsOK, Confirming, Confirms, NoOne
<1>w. /\ \A d, q \in Actors : waits[q] = d => q # a /\ (d # a \/ serving[a] = NoActor => waits'[q] = d)
      /\ \A q \in Actors : waits'[q] \in {waits[q], NoActor}
  BY <1>1, <1>2, <1>t
<1>s. \A q, d : Listed(d, q)' <=> Listed(d, q)
  BY <1>1 DEF Listed
<1>3. CreatorWaits'
  <2> SUFFICES ASSUME NEW d \in Actors, pc'[d] = "pre_start", ~IsRoot(d)
               PROVE  waits'[Parent[d]] = d /\ born'[d] = pc'[Parent[d]] /\ born'[d] \in Hooks
    BY DEF CreatorWaits, IsRoot
  <2>1. d # a /\ Parent[d] \in Actors
    BY <1>1, <1>t
  <2>2. waits[Parent[d]] = d /\ born[d] = pc[Parent[d]] /\ born[d] \in Hooks
    BY <1>1, <2>1 DEF TreeInv, CreatorWaits
  <2> QED
    BY <1>1, <1>w, <2>1, <2>2
<1>4. SendersOK' /\ HistoryOK'
  BY <1>1, <1>s, <1>t, <1>w DEF TreeInv, SendersOK, HistoryOK
<1>5. RequestsOK'
  <2>1. serving[a] # NoActor => ~Claims(a)'
    BY <1>1, <1>t DEF Claims, Confirming, TreeInv, RequestsOK
  <2>2. \A d, q \in Actors : Claims(d)' /\ Confirms(d, q) => Confirms(d, q)'
    <3> SUFFICES ASSUME NEW d \in Actors, NEW q \in Actors, Claims(d)', Confirms(d, q)
                 PROVE  Confirms(d, q)'
      OBVIOUS
    <3>1. q # a /\ waits[q] = d
      BY <1>w DEF Confirms
    <3>2. d # a \/ serving[a] = NoActor
      BY <2>1
    <3> QED
      BY <1>1, <1>w, <3>1, <3>2 DEF Confirms
  <2>3. \A d \in Actors : Confirming(d)' => Confirming(d) /\ serving'[d] = serving[d]
    BY <1>1 DEF Confirming
  <2> QED
    BY <1>1, <2>2, <2>3, RequestsKept DEF TreeInv
<1>6. OutsideRun'
  <2> SUFFICES ASSUME NEW q \in Actors, NEW d \in Actors, pc'[q] \in Outside, Listed(d, q)'
               PROVE  Orphan(d, q)'
    BY DEF OutsideRun
  <2>1. q # a
    <3>1. ~Listed(d, a)
      BY <1>t DEF Listed
    <3> QED
      BY <1>s, <3>1
  <2> QED
    BY <1>1, <1>s, <2>1 DEF TreeInv, OutsideRun, Orphan
<1>7. StopFirst'
  <2> SUFFICES ASSUME NEW d \in Actors, born'[d] # "none", pc'[d] # "done"
               PROVE  Listed(d, Parent[d])' \/ waits'[Parent[d]] = d \/ left'[d]
    BY DEF StopFirst
  <2>1. CASE d = a
    BY <1>1, <2>1
  <2>2. CASE d # a
    <3>1. pc[d] # "done" /\ born[d] # "none" /\ Parent[d] \in Actors
      BY <1>1, <1>t, <2>2 DEF TreeInv, HistoryOK
    <3>2. Listed(d, Parent[d]) \/ waits[Parent[d]] = d \/ left[d]
      BY <3>1 DEF TreeInv, StopFirst
    <3> QED
      BY <1>1, <1>s, <1>w, <2>2, <3>1, <3>2
  <2> QED
    BY <2>1, <2>2
<1> QED
  BY <1>3, <1>4, <1>5, <1>6, <1>7 DEF TreeInv

LEMMA TreeInvariant == Spec => []TreeInv
<1>1. Init => TreeInv
  <2> SUFFICES ASSUME Init PROVE TreeInv
    OBVIOUS
  <2>1. TypeOK
    <3>1. <<>> \in Seq(Actors) /\ <<>> \in Seq(NoOne)
      OBVIOUS
    <3>2. NoActor \in NoOne /\ {"pre_start", "none"} \subseteq Points
      BY DEF NoOne, Points, Hooks
    <3> QED
      BY <3>1, <3>2 DEF Init, TypeOK
  <2>2. \A c, p \in Actors : ~Listed(c, p)
    BY DEF Init, Listed
  <2>3. \A c \in Actors : /\ waits[c] = NoActor /\ stop_queue[c] = <<>> /\ serving[c] = NoActor
                          /\ born[c] = "none" /\ ~left[c]
                          /\ pc[c] = "pre_start" => IsRoot(c)
    BY DEF Init
  <2>4. \A p \in Actors : child_senders[p] = <<>>
    BY DEF Init
  <2> QED
    BY <2>1, <2>2, <2>3, <2>4 DEF TreeInv, CreatorWaits, SendersOK, RequestsOK, HistoryOK,
       OutsideRun, StopFirst, Confirming
<1>2. TreeInv /\ [Next]_vars => TreeInv'
  <2> SUFFICES ASSUME TreeInv, [Next]_vars PROVE TreeInv'
    OBVIOUS
  <2>1. TypeOK /\ TypeOK'
    BY TypeStep DEF TreeInv
  <2>2. CASE UNCHANGED vars
    BY <2>2 DEF vars, run, family, TreeInv, TypeOK, CreatorWaits, SendersOK, Listed, RequestsOK,
       Confirming, Confirms, HistoryOK, OutsideRun, Orphan, StopFirst
  <2> QED
    BY <2>1, <2>2, TreeCases, GoesStep, CreateStep, StartStep, StopBranchStep, TerminatesStep,
       StopNextStep, LeavesStep
<1> QED
  BY <1>1, <1>2, PTL DEF Spec

\* For every tree of actors: a child that has been created and has not ended is one its
\* parent can still stop, or the one the parent awaits, or has left run. stop_childs
\* loses no child, whatever hooks create, fail or report in between.
THEOREM EveryChildStopsFirst == Spec => []ChildrenStopFirst
<1>1. TreeInv => ChildrenStopFirst
  <2> SUFFICES ASSUME TreeInv, NEW c \in Actors, born[c] # "none", pc[c] # "done"
               PROVE  c \in ToSet(child_senders[Parent[c]]) \/ waits[Parent[c]] = c \/ left[c]
    BY DEF ChildrenStopFirst
  <2>1. Parent[c] \in Actors
    BY TreeAssumption DEF TreeInv, HistoryOK, IsRoot
  <2>2. Listed(c, Parent[c]) => c \in ToSet(child_senders[Parent[c]])
    BY <2>1, SMTT(30) DEF Listed, ToSet, TreeInv, TypeOK
  <2> QED
    BY <2>2 DEF TreeInv, StopFirst
<1> QED
  BY <1>1, TreeInvariant, PTL

\* For every tree of actors: a runner that ends leaves no child behind that was created
\* by a handler or before a successful start.
THEOREM NoOtherOrphans == Spec => []OrphansOnlyUnrun
<1>1. TreeInv => OrphansOnlyUnrun
  <2> SUFFICES ASSUME TreeInv, NEW a \in Actors, pc[a] = "done", NEW c \in ToSet(child_senders[a])
               PROVE  born[c] \in {"pre_restart", "post_stop"} \/ (born[c] = "pre_start" /\ ~left[a])
    BY DEF OrphansOnlyUnrun
  <2>1. c \in Actors /\ Listed(c, a)
    BY DEF Listed, ToSet, TreeInv, TypeOK
  <2> QED
    BY <2>1 DEF TreeInv, OutsideRun, Outside, Orphan
<1> QED
  BY <1>1, TreeInvariant, PTL

=============================================================================
