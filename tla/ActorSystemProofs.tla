-------------------------- MODULE ActorSystemProofs --------------------------
(***************************************************************************)
(* What holds of the system for every set of calls, however they race:     *)
(* types, what a lookup finds and does not miss, and the order in which    *)
(* the shutdown stops the root actors.                                     *)
(***************************************************************************)
EXTENDS ActorSystem, SequenceTheorems, TLAPS

\* The kinds of steps a behaviour takes.
LEMMA StepKinds ==
    ASSUME [Next]_vars
    PROVE  \/ \E a \in Actors : Creation(a) \/ Runner(a) \/ StopOne(a)
           \/ Cancel \/ Shutdown \/ SystemRunnerEnds \/ UNCHANGED vars
BY DEF Next

LEMMA TypeStep == TypeOK /\ [Next]_vars => TypeOK'
<1> SUFFICES ASSUME TypeOK, [Next]_vars PROVE TypeOK'
  OBVIOUS
<1> USE PathAssumption DEF TypeOK, calls, roots, teardown
<1>1. ASSUME NEW a \in Actors, Creation(a) PROVE TypeOK'
  <2>1. CASE CheckFree(a)
    BY <2>1 DEF CheckFree
  <2>2. CASE InsertAndSpawn(a)
    BY <2>2 DEF InsertAndSpawn, Insert
  <2>3. CASE PushSender(a)
    BY <2>3 DEF PushSender, Kept
  <2> QED
    BY <1>1, <2>1, <2>2, <2>3 DEF Creation
<1>2. ASSUME NEW a \in Actors, Runner(a) PROVE TypeOK'
  <2>1. CASE Starts(a)
    BY <2>1 DEF Starts
  <2>2. CASE FailsToStart(a)
    BY <2>2 DEF FailsToStart, Remove
  <2>3. CASE LeavesRun(a)
    BY <2>3 DEF LeavesRun, Remove
  <2>4. CASE Terminates(a)
    BY <2>4 DEF Terminates, Remove
  <2> QED
    BY <1>2, <2>1, <2>2, <2>3, <2>4 DEF Runner
<1>3. ASSUME NEW a \in Actors, StopOne(a) PROVE TypeOK'
  BY <1>3 DEF StopOne
<1>4. CASE Cancel
  BY <1>4 DEF Cancel
<1>5. CASE Shutdown
  <2>1. CASE BeginShutdown \/ FinishShutdown
    BY <2>1 DEF BeginShutdown, FinishShutdown
  <2>2. CASE PopAndAsk
    <3>1. LastSender \in Actors /\ SubSeq(root_senders, 1, Len(root_senders) - 1) \in Seq(Actors)
      BY <2>2 DEF PopAndAsk, LastSender
    <3> QED
      BY <2>2, <3>1 DEF PopAndAsk
  <2>3. CASE PopAndAbort
    <3>1. SubSeq(root_senders, 1, Len(root_senders) - 1) \in Seq(Actors)
      BY <2>3 DEF PopAndAbort
    <3> QED
      BY <2>3, <3>1 DEF PopAndAbort
  <2>4. CASE GotConfirmation
    BY <2>4 DEF GotConfirmation
  <2> QED
    BY <1>5, <2>1, <2>2, <2>3, <2>4 DEF Shutdown
<1>6. CASE SystemRunnerEnds
  BY <1>6 DEF SystemRunnerEnds
<1>7. CASE UNCHANGED vars
  BY <1>7 DEF vars
<1> QED
  BY <1>1, <1>2, <1>3, <1>4, <1>5, <1>6, <1>7, StepKinds

\* Every reachable state of the system is well typed.
THEOREM TypeCorrect == Spec => []TypeOK
<1>1. Init => TypeOK
  <2> SUFFICES ASSUME Init PROVE TypeOK
    OBVIOUS
  <2>1. cancelled \in BOOLEAN
    BY Zenon DEF Init
  <2> QED
    BY <2>1 DEF Init, TypeOK
<1>2. TypeOK /\ [Next]_vars => TypeOK'
  BY TypeStep
<1> QED
  BY <1>1, <1>2, PTL DEF Spec

\* An entry always names an actor of its own path, so the removal by path that an
\* actor does when it leaves run takes its own entry out, if it is still there.
LEMMA LookupStep == TypeOK /\ LookupFindsLiveActor /\ [Next]_vars => LookupFindsLiveActor'
<1> SUFFICES ASSUME TypeOK, LookupFindsLiveActor, [Next]_vars
             PROVE  LookupFindsLiveActor'
  OBVIOUS
<1>t. /\ actors \in [Paths -> Actors \cup {NoActor}]
      /\ phase \in [Actors -> {"none", "starting", "running", "stopped", "ended"}]
      /\ PathOf \in [Actors -> Paths] /\ NoActor \notin Actors
  BY PathAssumption, NoActorAssumption DEF TypeOK
<1> USE DEF LookupFindsLiveActor, calls
<1>1. ASSUME NEW a \in Actors, Creation(a) PROVE LookupFindsLiveActor'
  BY <1>1, <1>t DEF Creation, CheckFree, InsertAndSpawn, Insert, PushSender
<1>2. ASSUME NEW a \in Actors, Runner(a) PROVE LookupFindsLiveActor'
  BY <1>2, <1>t DEF Runner, Starts, FailsToStart, LeavesRun, Terminates, Remove
<1>3. ASSUME NEW a \in Actors, StopOne(a) PROVE LookupFindsLiveActor'
  BY <1>3 DEF StopOne
<1>4. CASE UNCHANGED <<actors, phase>>
  BY <1>4
<1>5. Cancel \/ Shutdown \/ SystemRunnerEnds \/ UNCHANGED vars => UNCHANGED <<actors, phase>>
  BY DEF Cancel, Shutdown, BeginShutdown, PopAndAsk, PopAndAbort, GotConfirmation,
     FinishShutdown, SystemRunnerEnds, vars
<1> QED
  BY <1>1, <1>2, <1>3, <1>4, <1>5, StepKinds

\* However many calls race for a path and whenever actors stop, what get_actor
\* returns is an actor of that path that has not confirmed a stop.
THEOREM LookupCorrect == Spec => []LookupFindsLiveActor
<1>1. Init => LookupFindsLiveActor
  BY DEF Init, LookupFindsLiveActor
<1>2. TypeOK /\ LookupFindsLiveActor /\ [Next]_vars => LookupFindsLiveActor'
  BY LookupStep
<1> QED
  BY <1>1, <1>2, TypeCorrect, PTL DEF Spec

-----------------------------------------------------------------------------
\* A call that has not passed the check, or not yet made its entry, has no runner that
\* could remove anything.
NothingSpawned ==
    \A a \in Actors : creator[a] \in {"idle", "checked", "exists"} => phase[a] = "none"

LEMMA SpawnedStep == TypeOK /\ NothingSpawned /\ [Next]_vars => NothingSpawned'
<1> SUFFICES ASSUME TypeOK, NothingSpawned, [Next]_vars
             PROVE  NothingSpawned'
  OBVIOUS
<1>t. /\ creator \in [Actors -> {"idle", "checked", "exists", "awaiting_start",
                                 "started", "failed", "returned"}]
      /\ phase \in [Actors -> {"none", "starting", "running", "stopped", "ended"}]
  BY DEF TypeOK
<1> USE DEF NothingSpawned
<1>1. ASSUME NEW a \in Actors, Creation(a) PROVE NothingSpawned'
  BY <1>1, <1>t DEF Creation, CheckFree, InsertAndSpawn, PushSender
<1>2. ASSUME NEW a \in Actors, Runner(a) PROVE NothingSpawned'
  BY <1>2, <1>t DEF Runner, Starts, FailsToStart, LeavesRun, Terminates
<1>3. CASE UNCHANGED <<creator, phase>>
  BY <1>3
<1>4. /\ \A a \in Actors : StopOne(a) => UNCHANGED <<creator, phase>>
      /\ Cancel \/ Shutdown \/ SystemRunnerEnds \/ UNCHANGED vars => UNCHANGED <<creator, phase>>
  BY DEF StopOne, Cancel, Shutdown, BeginShutdown, PopAndAsk, PopAndAbort, GotConfirmation,
     FinishShutdown, SystemRunnerEnds, vars, calls
<1> QED
  BY <1>1, <1>2, <1>3, <1>4, StepKinds

\* From its insertion until it leaves run an actor of an uncontested path has its
\* entry: RunningActorFound, also while the actor starts.
EntryKept ==
    \A a \in Actors :
        phase[a] \in {"starting", "running"} /\ Uncontested(a) => actors[PathOf[a]] = a

LEMMA EntryStep == TypeOK /\ NothingSpawned /\ EntryKept /\ [Next]_vars => EntryKept'
<1> SUFFICES ASSUME TypeOK, NothingSpawned, EntryKept, [Next]_vars
             PROVE  EntryKept'
  OBVIOUS
<1>t. /\ actors \in [Paths -> Actors \cup {NoActor}]
      /\ phase \in [Actors -> {"none", "starting", "running", "stopped", "ended"}]
      /\ creator \in [Actors -> {"idle", "checked", "exists", "awaiting_start",
                                 "started", "failed", "returned"}]
      /\ PathOf \in [Actors -> Paths]
  BY PathAssumption DEF TypeOK
<1> USE DEF EntryKept, Uncontested, calls
<1>1. ASSUME NEW a \in Actors, CheckFree(a) \/ InsertAndSpawn(a) \/ PushSender(a)
      PROVE  EntryKept'
  <2>1. CASE CheckFree(a)
    BY <2>1, <1>t DEF CheckFree
  <2>2. CASE InsertAndSpawn(a)
    BY <2>2, <1>t DEF InsertAndSpawn, Insert
  <2>3. CASE PushSender(a)
    BY <2>3, <1>t DEF PushSender
  <2> QED
    BY <1>1, <2>1, <2>2, <2>3
<1>2. ASSUME NEW a \in Actors, Starts(a) PROVE EntryKept'
  BY <1>2, <1>t DEF Starts
<1>3. ASSUME NEW a \in Actors, FailsToStart(a) \/ LeavesRun(a) \/ Terminates(a)
      PROVE  EntryKept'
  \* A removal takes the entry of a path that is contested by the actor that goes.
  <2>1. creator[a] \notin {"idle", "exists"} /\ phase'[a] \in {"stopped", "ended"}
    BY <1>3, <1>t DEF FailsToStart, LeavesRun, Terminates, NothingSpawned
  <2>2. /\ actors' = [actors EXCEPT ![PathOf[a]] = NoActor]
        /\ \A b \in Actors : b # a => phase'[b] = phase[b] /\ creator'[b] = creator[b]
        /\ creator'[a] \notin {"idle", "exists"}
    BY <1>3, <2>1, <1>t DEF FailsToStart, LeavesRun, Terminates, Remove
  <2> QED
    BY <2>1, <2>2, <1>t
<1>4. /\ \A a \in Actors : StopOne(a) => UNCHANGED <<actors, phase, creator>>
      /\ Cancel \/ Shutdown \/ SystemRunnerEnds \/ UNCHANGED vars
            => UNCHANGED <<actors, phase, creator>>
  BY DEF StopOne, Cancel, Shutdown, BeginShutdown, PopAndAsk, PopAndAbort, GotConfirmation,
     FinishShutdown, SystemRunnerEnds, vars
<1>5. CASE UNCHANGED <<actors, phase, creator>>
  BY <1>5
<1> QED
  BY <1>1, <1>2, <1>3, <1>4, <1>5, StepKinds DEF Creation, Runner

\* A running actor is found by get_actor, whatever else is created, stopped or shut
\* down, unless another call passed the check for its path.
THEOREM RunningFound == Spec => []RunningActorFound
<1>1. Init => NothingSpawned /\ EntryKept
  BY DEF Init, NothingSpawned, EntryKept
<1>2. TypeOK /\ NothingSpawned /\ EntryKept /\ [Next]_vars => NothingSpawned' /\ EntryKept'
  BY SpawnedStep, EntryStep
<1>3. EntryKept => RunningActorFound
  BY DEF EntryKept, RunningActorFound
<1> QED
  BY <1>1, <1>2, <1>3, TypeCorrect, PTL DEF Spec

-----------------------------------------------------------------------------
\* A call whose actor starts waits for it, and one whose sender was pushed has returned:
\* an actor that was pushed is never started again.
CallsInOrder ==
    /\ \A a \in Actors : phase[a] = "starting" => creator[a] = "awaiting_start"
    /\ \A i \in 1..Len(pushed) : creator[pushed[i]] = "returned"

\* The shutdown task has at most one request under way, to its target, while it waits.
OneRequest ==
    \A a \in Actors : \A i \in 1..Len(stop_queue[a]) :
        stop_queue[a][i] = "shutdown" =>
            /\ shutdown = "awaiting" /\ target = a
            /\ \A j \in 1..Len(stop_queue[a]) : stop_queue[a][j] = "shutdown" => i = j

LEMMA CallsStep == TypeOK /\ CallsInOrder /\ [Next]_vars => CallsInOrder'
<1> SUFFICES ASSUME TypeOK, CallsInOrder, [Next]_vars
             PROVE  CallsInOrder'
  OBVIOUS
<1>t. /\ creator \in [Actors -> {"idle", "checked", "exists", "awaiting_start",
                                 "started", "failed", "returned"}]
      /\ phase \in [Actors -> {"none", "starting", "running", "stopped", "ended"}]
      /\ pushed \in Seq(Actors) /\ \A i \in 1..Len(pushed) : pushed[i] \in Actors
  BY DEF TypeOK
<1> USE DEF CallsInOrder
<1>1. ASSUME NEW a \in Actors, Creation(a) PROVE CallsInOrder'
  <2>1. CASE CheckFree(a)
    BY <2>1, <1>t DEF CheckFree, roots
  <2>2. CASE InsertAndSpawn(a)
    BY <2>2, <1>t DEF InsertAndSpawn, roots
  <2>3. CASE PushSender(a)
    BY <2>3, <1>t DEF PushSender
  <2> QED
    BY <1>1, <2>1, <2>2, <2>3 DEF Creation
<1>2. ASSUME NEW a \in Actors, Runner(a) PROVE CallsInOrder'
  <2>1. CASE Starts(a) \/ FailsToStart(a)
    BY <2>1, <1>t DEF Starts, FailsToStart, roots
  <2>2. CASE LeavesRun(a) \/ Terminates(a)
    BY <2>2, <1>t DEF LeavesRun, Terminates, roots
  <2> QED
    BY <1>2, <2>1, <2>2 DEF Runner
<1>3. CASE UNCHANGED <<creator, phase, pushed>>
  BY <1>3
<1>4. /\ \A a \in Actors : StopOne(a) => UNCHANGED <<creator, phase, pushed>>
      /\ Cancel \/ Shutdown \/ SystemRunnerEnds \/ UNCHANGED vars
            => UNCHANGED <<creator, phase, pushed>>
  BY DEF StopOne, Cancel, Shutdown, BeginShutdown, PopAndAsk, PopAndAbort, GotConfirmation,
     FinishShutdown, SystemRunnerEnds, vars, calls, roots
<1> QED
  BY <1>1, <1>2, <1>3, <1>4, StepKinds

LEMMA RequestStep == TypeOK /\ OneRequest /\ [Next]_vars => OneRequest'
<1> SUFFICES ASSUME TypeOK, OneRequest, [Next]_vars
             PROVE  OneRequest'
  OBVIOUS
<1>t. stop_queue \in [Actors -> Seq({"caller", "shutdown"})]
  BY DEF TypeOK
<1>1. ASSUME NEW a \in Actors, LeavesRun(a) PROVE OneRequest'
  <2>1. /\ stop_queue'[a] = Tail(stop_queue[a]) /\ target' = target
        /\ stop_queue[a] \in Seq({"caller", "shutdown"}) /\ stop_queue[a] # <<>>
        /\ \A b \in Actors : b # a => stop_queue'[b] = stop_queue[b]
        /\ shutdown' = IF stop_queue[a][1] = "shutdown" THEN "confirmed" ELSE shutdown
    BY <1>1, <1>t DEF LeavesRun
  <2>2. /\ Len(stop_queue'[a]) = Len(stop_queue[a]) - 1 /\ Len(stop_queue[a]) \in Nat \ {0}
        /\ \A i \in 1..Len(stop_queue'[a]) : stop_queue'[a][i] = stop_queue[a][i + 1]
    BY <2>1
  <2>3. ASSUME NEW b \in Actors, NEW i \in 1..Len(stop_queue'[b]), stop_queue'[b][i] = "shutdown"
        PROVE  /\ shutdown' = "awaiting" /\ target' = b
               /\ \A j \in 1..Len(stop_queue'[b]) : stop_queue'[b][j] = "shutdown" => i = j
    <3>1. CASE b = a
      <4>1. i + 1 \in 1..Len(stop_queue[a]) /\ stop_queue[a][i + 1] = "shutdown"
        BY <3>1, <2>2, <2>3
      <4>2. /\ shutdown = "awaiting" /\ target = a
            /\ \A j \in 1..Len(stop_queue[a]) : stop_queue[a][j] = "shutdown" => i + 1 = j
        BY <4>1 DEF OneRequest
      <4>3. stop_queue[a][1] # "shutdown"
        BY <4>2, <2>2
      <4>4. ASSUME NEW j \in 1..Len(stop_queue'[b]), stop_queue'[b][j] = "shutdown" PROVE i = j
        BY <4>4, <4>2, <3>1, <2>2
      <4> QED
        BY <4>2, <4>3, <4>4, <3>1, <2>1
    <3>2. CASE b # a
      <4>1. /\ shutdown = "awaiting" /\ target = b
            /\ \A j \in 1..Len(stop_queue[b]) : stop_queue[b][j] = "shutdown" => i = j
        BY <3>2, <2>1, <2>3 DEF OneRequest
      <4>2. stop_queue[a][1] # "shutdown"
        BY <4>1, <2>2, <3>2 DEF OneRequest
      <4> QED
        BY <4>1, <4>2, <2>1, <3>2
    <3> QED
      BY <3>1, <3>2
  <2> QED
    BY <2>3 DEF OneRequest
<1>2. ASSUME NEW a \in Actors, Terminates(a) PROVE OneRequest'
  BY <1>2, <1>t DEF Terminates, OneRequest
<1>3. ASSUME NEW a \in Actors, StopOne(a) PROVE OneRequest'
  BY <1>3, <1>t DEF StopOne, OneRequest, teardown
<1>4. CASE PopAndAsk
  <2>1. LastSender \in Actors /\ shutdown = "popping"
    BY <1>4 DEF PopAndAsk, LastSender, TypeOK
  <2>2. \A a \in Actors : \A i \in 1..Len(stop_queue[a]) : stop_queue[a][i] # "shutdown"
    BY <2>1 DEF OneRequest
  <2>3. /\ shutdown' = "awaiting" /\ target' = LastSender
        /\ stop_queue'[LastSender] = Append(stop_queue[LastSender], "shutdown")
        /\ \A a \in Actors : a # LastSender => stop_queue'[a] = stop_queue[a]
    BY <1>4, <2>1, <1>t DEF PopAndAsk
  <2>4. /\ Len(stop_queue'[LastSender]) = Len(stop_queue[LastSender]) + 1
        /\ \A i \in 1..Len(stop_queue[LastSender]) :
              stop_queue'[LastSender][i] = stop_queue[LastSender][i]
        /\ Len(stop_queue[LastSender]) \in Nat
    BY <2>1, <2>3, <1>t
  <2>5. ASSUME NEW a \in Actors, NEW i \in 1..Len(stop_queue'[a]), stop_queue'[a][i] = "shutdown"
        PROVE  a = LastSender /\ i = Len(stop_queue[LastSender]) + 1
    BY <2>2, <2>3, <2>4, <2>5, SMTT(30)
  <2> QED
    BY <2>3, <2>5 DEF OneRequest
<1>5. CASE UNCHANGED <<stop_queue, shutdown, target>>
  BY <1>5 DEF OneRequest
<1>6. CASE shutdown # "awaiting" /\ UNCHANGED stop_queue
  BY <1>6 DEF OneRequest
<1>7. /\ \A a \in Actors : Creation(a) \/ Starts(a) \/ FailsToStart(a)
            => UNCHANGED <<stop_queue, shutdown, target>>
      /\ Cancel \/ SystemRunnerEnds \/ UNCHANGED vars => UNCHANGED <<stop_queue, shutdown, target>>
      /\ BeginShutdown \/ PopAndAbort \/ GotConfirmation \/ FinishShutdown
            => shutdown # "awaiting" /\ UNCHANGED stop_queue
  BY DEF Creation, CheckFree, InsertAndSpawn, PushSender, Starts, FailsToStart, Cancel,
     SystemRunnerEnds, BeginShutdown, PopAndAbort, GotConfirmation, FinishShutdown,
     vars, calls, teardown
<1> QED
  BY <1>1, <1>2, <1>3, <1>4, <1>5, <1>6, <1>7, StepKinds DEF Runner, Shutdown

\* What a pop leaves of a sequence.
LEMMA PopFacts ==
    ASSUME NEW S, NEW s \in Seq(S), s # <<>>
    PROVE  /\ Len(s) \in Nat \ {0} /\ Len(SubSeq(s, 1, Len(s) - 1)) = Len(s) - 1
           /\ \A k \in 1..Len(SubSeq(s, 1, Len(s) - 1)) : SubSeq(s, 1, Len(s) - 1)[k] = s[k]
<1>1. Len(s) \in Nat \ {0} /\ \A k \in 1..Len(s) : s[k] \in S
  OBVIOUS
<1>2. PICK n \in Nat : Len(s) = n + 1
  <2>1. Len(s) - 1 \in Nat /\ Len(s) = (Len(s) - 1) + 1
    BY <1>1
  <2> QED
    BY <2>1
<1>3. Len(s) - 1 = n /\ \A k \in 1..n : s[k] \in S
  BY <1>1, <1>2
<1>4. /\ Len(SubSeq(s, 1, n)) = IF 1 <= n THEN n - 1 + 1 ELSE 0
      /\ \A k \in 1..(n - 1 + 1) : SubSeq(s, 1, n)[k] = s[1 + k - 1]
  BY <1>3, SubSeqProperties
<1>5. Len(SubSeq(s, 1, n)) = n
  BY <1>4
<1>6. \A k \in 1..n : SubSeq(s, 1, n)[k] = s[k]
  <2> SUFFICES ASSUME NEW k \in 1..n PROVE SubSeq(s, 1, n)[k] = s[k]
    OBVIOUS
  <2>1. k \in 1..(n - 1 + 1) /\ 1 + k - 1 = k
    OBVIOUS
  <2> QED
    BY <1>4, <2>1
<1> QED
  BY <1>1, <1>3, <1>5, <1>6

\* Where the sender of the actor pushed i-th is.
Accounted(i) ==
    \/ \E k \in 1..Len(root_senders) : root_senders[k] = pushed[i]
    \/ shutdown = "awaiting" /\ target = pushed[i]
    \/ phase[pushed[i]] \in {"stopped", "ended"}

AllAccounted == \A i \in 1..Len(pushed) : Accounted(i)

LEMMA AccountedStep ==
    TypeOK /\ CallsInOrder /\ OneRequest /\ AllAccounted /\ [Next]_vars => AllAccounted'
<1> SUFFICES ASSUME TypeOK, CallsInOrder, OneRequest, AllAccounted, [Next]_vars
             PROVE  AllAccounted'
  OBVIOUS
<1>t. /\ phase \in [Actors -> {"none", "starting", "running", "stopped", "ended"}]
      /\ pushed \in Seq(Actors) /\ \A i \in 1..Len(pushed) : pushed[i] \in Actors
      /\ root_senders \in Seq(Actors)
      /\ stop_queue \in [Actors -> Seq({"caller", "shutdown"})]
  BY DEF TypeOK
<1>a. \A i \in 1..Len(pushed) : Accounted(i)
  BY DEF AllAccounted
<1>b. (\A i \in 1..Len(pushed') : Accounted(i)') => AllAccounted'
  BY DEF AllAccounted
<1>c. \A i \in 1..Len(pushed) : creator[pushed[i]] = "returned" /\ phase[pushed[i]] # "starting"
  BY <1>t DEF CallsInOrder
<1>1. ASSUME NEW a \in Actors, PushSender(a) PROVE AllAccounted'
  <2>1. /\ UNCHANGED <<phase, shutdown, target>>
        /\ Len(pushed') = Len(pushed) + 1 /\ Len(root_senders') = Len(root_senders) + 1
        /\ \A i \in 1..Len(pushed) : pushed'[i] = pushed[i]
        /\ \A k \in 1..Len(root_senders) : root_senders'[k] = root_senders[k]
        /\ pushed'[Len(pushed) + 1] = a /\ root_senders'[Len(root_senders) + 1] = a
        /\ Len(pushed) \in Nat /\ Len(root_senders) \in Nat
    BY <1>1, <1>t DEF PushSender, Kept, calls, teardown
  <2>2. ASSUME NEW i \in 1..Len(pushed') PROVE Accounted(i)'
    <3>1. CASE i \in 1..Len(pushed)
      BY <3>1, <2>1, <1>a DEF Accounted
    <3>2. CASE i = Len(pushed) + 1
      BY <3>2, <2>1 DEF Accounted
    <3> QED
      BY <2>1, <3>1, <3>2
  <2> QED
    BY <2>2, <1>b
<1>2. ASSUME NEW a \in Actors, LeavesRun(a) PROVE AllAccounted'
  <2>1. /\ UNCHANGED <<pushed, root_senders, target>> /\ phase' = [phase EXCEPT ![a] = "stopped"]
        /\ stop_queue[a] \in Seq({"caller", "shutdown"}) /\ stop_queue[a] # <<>>
        /\ shutdown' = IF stop_queue[a][1] = "shutdown" THEN "confirmed" ELSE shutdown
    BY <1>2, <1>t DEF LeavesRun, roots
  <2>2. stop_queue[a][1] = "shutdown" => target = a
    BY <2>1 DEF OneRequest
  <2>3. ASSUME NEW i \in 1..Len(pushed) PROVE Accounted(i)'
    BY <2>1, <2>2, <1>t, <1>a DEF Accounted
  <2> QED
    BY <2>1, <2>3, <1>b
<1>3. ASSUME NEW a \in Actors, Terminates(a) PROVE AllAccounted'
  <2>1. /\ UNCHANGED <<pushed, root_senders, target>> /\ phase' = [phase EXCEPT ![a] = "ended"]
        /\ shutdown' = IF shutdown = "awaiting" /\ target = a THEN "confirmed" ELSE shutdown
    BY <1>3 DEF Terminates, roots
  <2>2. ASSUME NEW i \in 1..Len(pushed) PROVE Accounted(i)'
    BY <2>1, <1>t, <1>a DEF Accounted
  <2> QED
    BY <2>1, <2>2, <1>b
<1>4. CASE PopAndAsk \/ PopAndAbort
  <2>1. /\ UNCHANGED <<pushed, phase>> /\ shutdown = "popping" /\ root_senders # <<>>
        /\ root_senders' = SubSeq(root_senders, 1, Len(root_senders) - 1)
        /\ \/ shutdown' = "awaiting" /\ target' = LastSender
           \/ phase[LastSender] = "ended"
    BY <1>4 DEF PopAndAsk, PopAndAbort, SendFails, calls
  <2>2. /\ Len(root_senders') = Len(root_senders) - 1 /\ Len(root_senders) \in Nat \ {0}
        /\ \A k \in 1..Len(root_senders') : root_senders'[k] = root_senders[k]
    BY <2>1, <1>t, PopFacts
  <2>3. ASSUME NEW i \in 1..Len(pushed) PROVE Accounted(i)'
    <3>1. CASE \E k \in 1..Len(root_senders) : root_senders[k] = pushed[i]
      <4>1. PICK k \in 1..Len(root_senders) : root_senders[k] = pushed[i]
        BY <3>1
      <4>2. CASE k = Len(root_senders)
        BY <4>1, <4>2, <2>1 DEF LastSender, Accounted
      <4>3. CASE k # Len(root_senders)
        <5>1. k \in 1..Len(root_senders') /\ root_senders'[k] = pushed'[i]
          BY <4>1, <4>3, <2>1, <2>2
        <5> QED
          BY <5>1 DEF Accounted
      <4> QED
        BY <4>2, <4>3
    <3>2. CASE phase[pushed[i]] \in {"stopped", "ended"}
      BY <3>2, <2>1 DEF Accounted
    <3> QED
      BY <3>1, <3>2, <2>1, <1>a DEF Accounted
  <2> QED
    BY <2>1, <2>3, <1>b
<1>5. ASSUME UNCHANGED <<pushed, root_senders>>,
             shutdown # "awaiting" \/ UNCHANGED <<shutdown, target>>,
             \A i \in 1..Len(pushed) : phase'[pushed[i]] = phase[pushed[i]]
      PROVE  AllAccounted'
  BY <1>5, <1>a, <1>b DEF Accounted
<1>6. ASSUME NEW a \in Actors, CheckFree(a) \/ InsertAndSpawn(a) \/ Starts(a) \/ FailsToStart(a)
      PROVE  AllAccounted'
  <2>1. UNCHANGED <<pushed, root_senders, shutdown, target>>
    BY <1>6 DEF CheckFree, InsertAndSpawn, Starts, FailsToStart, roots, teardown
  <2>2. \A b \in Actors : phase'[b] # phase[b] => creator[b] = "checked" \/ phase[b] = "starting"
    BY <1>6, <1>t DEF CheckFree, InsertAndSpawn, Starts, FailsToStart
  <2>3. \A i \in 1..Len(pushed) : phase'[pushed[i]] = phase[pushed[i]]
    BY <2>2, <1>t, <1>c
  <2> QED
    BY <2>1, <2>3, <1>5
<1>7. CASE UNCHANGED <<pushed, root_senders, phase>>
           /\ (shutdown # "awaiting" \/ UNCHANGED <<shutdown, target>>)
  BY <1>5, <1>7
<1>8. /\ \A a \in Actors : StopOne(a)
            => UNCHANGED <<pushed, root_senders, phase, shutdown, target>>
      /\ Cancel \/ SystemRunnerEnds \/ UNCHANGED vars
            => UNCHANGED <<pushed, root_senders, phase, shutdown, target>>
      /\ BeginShutdown \/ GotConfirmation \/ FinishShutdown
            => shutdown # "awaiting" /\ UNCHANGED <<pushed, root_senders, phase>>
  BY DEF StopOne, Cancel, SystemRunnerEnds, BeginShutdown, GotConfirmation, FinishShutdown,
     vars, calls, teardown, roots
<1> QED
  BY <1>1, <1>2, <1>3, <1>4, <1>6, <1>7, <1>8, StepKinds DEF Creation, Runner, Shutdown

-----------------------------------------------------------------------------
\* The shutdown task is at work and holds the lock.
Locked == shutdown \in {"popping", "awaiting", "confirmed"}

\* Until the shutdown ends root_senders is what was pushed, less what was popped from
\* its end; the target is the last one popped. Nobody was pushed twice.
InPlace ==
    /\ \A i, k \in 1..Len(pushed) : pushed[i] = pushed[k] => i = k
    /\ shutdown = "waiting" => root_senders = pushed
    /\ Locked => /\ Len(root_senders) <= Len(pushed)
                 /\ \A k \in 1..Len(root_senders) : root_senders[k] = pushed[k]
    /\ shutdown = "awaiting" => /\ Len(root_senders) < Len(pushed)
                                /\ target = pushed[Len(root_senders) + 1]

LEMMA PlaceStep == TypeOK /\ CallsInOrder /\ OneRequest /\ InPlace /\ [Next]_vars => InPlace'
<1> SUFFICES ASSUME TypeOK, CallsInOrder, OneRequest, InPlace, [Next]_vars
             PROVE  InPlace'
  OBVIOUS
<1>t. /\ pushed \in Seq(Actors) /\ root_senders \in Seq(Actors)
      /\ Len(pushed) \in Nat /\ Len(root_senders) \in Nat
      /\ shutdown \in {"waiting", "popping", "awaiting", "confirmed", "finished", "aborted"}
  BY DEF TypeOK
<1>1. ASSUME NEW a \in Actors, PushSender(a) PROVE InPlace'
  <2>1. /\ pushed' = Append(pushed, a) /\ root_senders' = Append(root_senders, a)
        /\ shutdown' = shutdown /\ target' = target /\ ~Locked
    BY <1>1 DEF PushSender, Kept, LockFree, Locked, teardown
  <2>2. \A i \in 1..Len(pushed) : pushed[i] # a
    BY <1>1 DEF PushSender, CallsInOrder
  <2>3. /\ Len(pushed') = Len(pushed) + 1 /\ pushed'[Len(pushed) + 1] = a
        /\ \A i \in 1..Len(pushed) : pushed'[i] = pushed[i]
    BY <2>1, <1>t
  <2>4. ASSUME NEW i \in 1..Len(pushed'), NEW k \in 1..Len(pushed'), pushed'[i] = pushed'[k]
        PROVE  i = k
    <3>1. i \in 1..Len(pushed) \/ i = Len(pushed) + 1
      BY <2>3, <1>t
    <3>2. k \in 1..Len(pushed) \/ k = Len(pushed) + 1
      BY <2>3, <1>t
    <3> QED
      BY <3>1, <3>2, <2>2, <2>3, <2>4 DEF InPlace
  <2> QED
    BY <2>1, <2>4 DEF InPlace, Locked
<1>2. CASE BeginShutdown
  <2>1. UNCHANGED <<pushed, root_senders>> /\ shutdown = "waiting" /\ shutdown' = "popping"
    BY <1>2 DEF BeginShutdown, roots
  <2> QED
    BY <2>1, <1>t DEF InPlace, Locked
<1>3. CASE PopAndAsk \/ PopAndAbort
  <2>1. /\ UNCHANGED pushed /\ shutdown = "popping" /\ root_senders # <<>>
        /\ root_senders' = SubSeq(root_senders, 1, Len(root_senders) - 1)
        /\ \/ shutdown' = "awaiting" /\ target' = root_senders[Len(root_senders)]
           \/ shutdown' = "aborted"
    BY <1>3 DEF PopAndAsk, PopAndAbort, LastSender
  <2>2. /\ Len(root_senders') = Len(root_senders) - 1 /\ Len(root_senders) \in Nat \ {0}
        /\ \A k \in 1..Len(root_senders') : root_senders'[k] = root_senders[k]
    BY <2>1, <1>t, PopFacts
  <2>3. /\ Len(root_senders) <= Len(pushed)
        /\ \A k \in 1..Len(root_senders) : root_senders[k] = pushed[k]
    BY <2>1 DEF InPlace, Locked
  <2>4. /\ Len(root_senders') < Len(pushed)
        /\ root_senders[Len(root_senders)] = pushed[Len(root_senders') + 1]
        /\ \A k \in 1..Len(root_senders') : root_senders'[k] = pushed[k]
    BY <2>2, <2>3, <1>t
  <2> QED
    BY <2>1, <2>2, <2>4, <1>t DEF InPlace, Locked
<1>4. CASE UNCHANGED <<pushed, root_senders>> /\ shutdown' # "waiting" /\ shutdown' # "awaiting"
           /\ (Locked \/ ~Locked')
  BY <1>4 DEF InPlace
<1>5. CASE UNCHANGED <<pushed, root_senders, shutdown, target>>
  BY <1>5 DEF InPlace, Locked
<1>6. ASSUME NEW a \in Actors, LeavesRun(a) \/ Terminates(a) PROVE InPlace'
  <2>1. UNCHANGED <<pushed, root_senders, target>>
    BY <1>6 DEF LeavesRun, Terminates, roots
  <2>2. CASE LeavesRun(a)
    <3>1. /\ stop_queue[a] \in Seq({"caller", "shutdown"}) /\ stop_queue[a] # <<>>
          /\ shutdown' = IF stop_queue[a][1] = "shutdown" THEN "confirmed" ELSE shutdown
      BY <2>2 DEF LeavesRun, TypeOK
    <3>2. stop_queue[a][1] = "shutdown" => shutdown = "awaiting"
      BY <3>1 DEF OneRequest
    <3> QED
      BY <2>1, <3>1, <3>2, <1>4, <1>5 DEF Locked
  <2>3. CASE Terminates(a)
    <3>1. shutdown' = IF shutdown = "awaiting" /\ target = a THEN "confirmed" ELSE shutdown
      BY <2>3 DEF Terminates
    <3> QED
      BY <2>1, <3>1, <1>4, <1>5 DEF Locked
  <2> QED
    BY <1>6, <2>2, <2>3
<1>7. /\ \A a \in Actors : \/ CheckFree(a) \/ InsertAndSpawn(a) \/ Starts(a)
                           \/ FailsToStart(a) \/ StopOne(a)
            => UNCHANGED <<pushed, root_senders, shutdown, target>>
      /\ Cancel \/ SystemRunnerEnds \/ UNCHANGED vars
            => UNCHANGED <<pushed, root_senders, shutdown, target>>
      /\ GotConfirmation \/ FinishShutdown
            => /\ UNCHANGED <<pushed, root_senders>> /\ Locked
               /\ shutdown' # "waiting" /\ shutdown' # "awaiting"
  BY DEF CheckFree, InsertAndSpawn, Starts, FailsToStart, StopOne, Cancel, SystemRunnerEnds,
     GotConfirmation, FinishShutdown, vars, roots, teardown, Locked
<1> QED
  BY <1>1, <1>2, <1>3, <1>4, <1>5, <1>6, <1>7, StepKinds DEF Creation, Runner, Shutdown

\* An actor pushed after the target has no sender left in root_senders.
LEMMA OrderlyFromPlace == TypeOK /\ AllAccounted /\ InPlace => OrderlyShutdown
<1> SUFFICES ASSUME TypeOK, AllAccounted, InPlace PROVE OrderlyShutdown
  OBVIOUS
<1>1. ASSUME shutdown = "awaiting", NEW i \in 1..Len(pushed), NEW k \in 1..Len(pushed),
             pushed[i] = target, i < k
      PROVE  phase[pushed[k]] \in {"stopped", "ended"}
  <2>1. /\ Len(root_senders) < Len(pushed) /\ target = pushed[Len(root_senders) + 1]
        /\ Len(pushed) \in Nat /\ Len(root_senders) \in Nat
        /\ \A j \in 1..Len(root_senders) : root_senders[j] = pushed[j]
    BY <1>1 DEF InPlace, Locked, TypeOK
  <2>2. i = Len(root_senders) + 1
    BY <1>1, <2>1 DEF InPlace
  <2>3. pushed[k] # target
    BY <1>1 DEF InPlace
  <2>4. \A j \in 1..Len(root_senders) : root_senders[j] # pushed[k]
    BY <1>1, <2>1, <2>2 DEF InPlace
  <2> QED
    BY <2>3, <2>4 DEF AllAccounted, Accounted
<1> QED
  BY <1>1 DEF OrderlyShutdown, AllAccounted, Accounted

\* However creations, failures and stops race with it, the shutdown stops the root
\* actors one by one and last created first: every actor whose sender it has taken has
\* stopped, but for the one whose confirmation it awaits, and so has every one that was
\* created after that one.
THEOREM OrderlyShutdownCorrect == Spec => []OrderlyShutdown
<1> DEFINE Inv == CallsInOrder /\ OneRequest /\ AllAccounted /\ InPlace
<1>1. Init => Inv
  BY DEF Init, CallsInOrder, OneRequest, AllAccounted, InPlace, Locked
<1>2. TypeOK /\ Inv /\ [Next]_vars => Inv'
  BY CallsStep, RequestStep, AccountedStep, PlaceStep
<1>3. TypeOK /\ Inv => OrderlyShutdown
  BY OrderlyFromPlace
<1> QED
  BY <1>1, <1>2, <1>3, TypeCorrect, PTL DEF Spec

=============================================================================
