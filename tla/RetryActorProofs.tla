--------------------------- MODULE RetryActorProofs ---------------------------
(***************************************************************************)
(* Proofs about RetryActor, for every set of strategies: any number of     *)
(* attempts, any delays.                                                   *)
(***************************************************************************)
EXTENDS RetryActor, FiniteSetTheorems, FunctionTheorems, SequenceTheorems, TLAPS

\* The types the argument needs.
DataOK ==
    /\ given \in Strategies
    /\ retries \in Nat /\ attempts \in Nat /\ delays \in Seq(Nat)
    /\ retry_strategy \in [kind : Kinds, max_retries : Nat, durations : Seq(Nat)]

\* The strategy in use is the one given, less the delays already taken from a custom
\* queue: what is left in the queue are the delays still to come.
StrategyOK ==
    /\ retry_strategy.kind = given.kind
    /\ retry_strategy.max_retries = given.max_retries
    /\ given.kind # "CustomInterval" => retry_strategy.durations = given.durations
    /\ given.kind = "CustomInterval" =>
          /\ Len(retry_strategy.durations) + Len(delays) = Len(given.durations)
          /\ \A i \in 1..Len(retry_strategy.durations) :
                retry_strategy.durations[i] = given.durations[Len(delays) + i]

\* Every attempt is counted in retries, which the limit is compared with.
RetryInv == DataOK /\ StrategyOK /\ BackoffFollowsStrategy /\ attempts <= retries

\* What next_backoff leaves behind is a strategy of the same kind and limit.
LEMMA LeftByNextBackoffIsStrategy ==
    ASSUME NEW s \in [kind : Kinds, max_retries : Nat, durations : Seq(Nat)]
    PROVE  /\ LeftByNextBackoff(s) \in [kind : Kinds, max_retries : Nat, durations : Seq(Nat)]
           /\ LeftByNextBackoff(s).kind = s.kind
           /\ LeftByNextBackoff(s).max_retries = s.max_retries
           /\ LeftByNextBackoff(s).durations =
                 IF s.kind = "CustomInterval" /\ s.durations # <<>> THEN Tail(s.durations)
                 ELSE s.durations
<1>1. CASE s.kind = "CustomInterval" /\ s.durations # <<>>
  <2>1. LeftByNextBackoff(s) = [s EXCEPT !.durations = Tail(s.durations)]
    BY <1>1 DEF LeftByNextBackoff
  <2>2. s.durations \in Seq(Nat) /\ Tail(s.durations) \in Seq(Nat)
    BY <1>1
  <2> QED
    BY <1>1, <2>1, <2>2
<1>2. CASE ~(s.kind = "CustomInterval" /\ s.durations # <<>>)
  BY <1>2 DEF LeftByNextBackoff
<1> QED
  BY <1>1, <1>2

\* Append, as far as it is used below.
LEMMA AppendFacts ==
    ASSUME NEW q \in Seq(Nat), NEW d \in Nat
    PROVE  /\ Append(q, d) \in Seq(Nat) /\ Len(Append(q, d)) = Len(q) + 1
           /\ Append(q, d)[Len(q) + 1] = d
           /\ \A i \in 1..Len(q) : Append(q, d)[i] = q[i]
  OBVIOUS

\* The one step that takes a delay keeps the order of the delays.
LEMMA SpawnTimerKeepsOrder ==
    ASSUME RetryInv, HandleRetry, registered
    PROVE  RetryInv'
<1> DEFINE s == retry_strategy
<1> DEFINE n == Len(delays)
<1>0. /\ given \in Strategies /\ retries \in Nat /\ attempts \in Nat /\ delays \in Seq(Nat)
      /\ s \in [kind : Kinds, max_retries : Nat, durations : Seq(Nat)]
      /\ attempts <= retries /\ n \in Nat
  BY DEF RetryInv, DataOK
<1>1. /\ given \in [kind : Kinds, max_retries : Nat, durations : Seq(Nat)]
      /\ given.kind = "FixedInterval" => Len(given.durations) = 1
  BY <1>0, StrategiesAssumption
<1>2. /\ retries' = retries + 1 /\ attempts' = attempts + 1 /\ given' = given
      /\ retries + 1 <= given.max_retries
      /\ s' = LeftByNextBackoff(s)
      /\ IF HasBackoff(s) THEN delays' = Append(delays, Head(s.durations)) ELSE delays' = delays
  BY DEF HandleRetry, SpawnTimer, MoreToTry, NextBackoff, RetryInv, StrategyOK
<1>3. DataOK' /\ attempts' <= retries' /\ attempts' <= given'.max_retries
  <2>1. HasBackoff(s) => Head(s.durations) \in Nat
    BY <1>0 DEF HasBackoff
  <2>2. delays' \in Seq(Nat)
    <3>1. CASE HasBackoff(s)
      <4>1. delays' = Append(delays, Head(s.durations)) /\ Head(s.durations) \in Nat
        BY <1>2, <2>1, <3>1, Zenon
      <4>. QED  BY <1>0, <4>1, AppendFacts
    <3>2. CASE ~HasBackoff(s)
      <4>1. delays' = delays
        BY <1>2, <3>2, Zenon
      <4>. QED  BY <1>0, <4>1
    <3>. QED  BY <3>1, <3>2
  <2> QED
    BY <1>0, <1>1, <1>2, <2>2, LeftByNextBackoffIsStrategy DEF DataOK
<1>4. /\ s'.kind = given.kind /\ s'.max_retries = given.max_retries
  BY <1>0, <1>2, LeftByNextBackoffIsStrategy DEF RetryInv, StrategyOK
<1>5. /\ Len(delays) <= IF given.kind = "NoInterval" THEN 0 ELSE attempts
      /\ \A i \in 1..n : delays[i] = PromisedDelay(given, i)
      /\ s.kind = given.kind
  BY DEF RetryInv, BackoffFollowsStrategy, StrategyOK
<1>6. CASE ~HasBackoff(s)
  <2>1. s'.durations = s.durations /\ delays' = delays
    BY <1>0, <1>2, <1>6, LeftByNextBackoffIsStrategy DEF HasBackoff
  <2>2. StrategyOK'
    BY <1>2, <1>4, <2>1 DEF RetryInv, StrategyOK
  <2>3. BackoffFollowsStrategy'
    BY <1>0, <1>2, <1>3, <1>5, <2>1 DEF BackoffFollowsStrategy
  <2> QED
    BY <1>3, <2>2, <2>3 DEF RetryInv
<1>7. CASE HasBackoff(s)
  <2>1. /\ delays' = Append(delays, Head(s.durations)) /\ Len(delays') = n + 1
        /\ delays'[n + 1] = Head(s.durations)
        /\ \A i \in 1..n : delays'[i] = delays[i]
        /\ s.durations # <<>> /\ s.durations \in Seq(Nat) /\ given.kind # "NoInterval"
    <3>1. s.durations # <<>> /\ s.durations \in Seq(Nat) /\ given.kind # "NoInterval"
      BY <1>0, <1>5, <1>7 DEF HasBackoff
    <3>2. Head(s.durations) \in Nat
      BY <3>1
    <3>3. delays' = Append(delays, Head(s.durations))
      BY <1>2, <1>7
    <3> HIDE DEF s
    <3> QED
      BY <1>0, <3>1, <3>2, <3>3, AppendFacts
  <2>2. Head(s.durations) = PromisedDelay(given, n + 1)
    <3>1. CASE given.kind = "CustomInterval"
      <4>1. s.durations[1] = given.durations[n + 1]
        BY <1>0, <2>1, <3>1 DEF RetryInv, StrategyOK
      <4> QED
        BY <2>1, <3>1, <4>1 DEF PromisedDelay
    <3>2. CASE given.kind = "FixedInterval"
      BY <1>1, <2>1, <3>2 DEF RetryInv, StrategyOK, PromisedDelay
    <3> QED
      BY <1>1, <2>1, <3>1, <3>2 DEF Kinds
  <2>3. BackoffFollowsStrategy'
    <3>1. \A i \in 1..(n + 1) : delays'[i] = PromisedDelay(given, i)
      BY <1>0, <1>5, <2>1, <2>2
    <3>2. Len(delays') <= attempts'
      BY <1>0, <1>2, <1>5, <2>1
    <3> QED
      BY <1>2, <1>3, <2>1, <3>1, <3>2 DEF BackoffFollowsStrategy
  <2>4. StrategyOK'
    <3>1. CASE given.kind = "CustomInterval"
      <4>1. s'.durations = Tail(s.durations)
        BY <1>0, <1>2, <1>5, <2>1, <3>1, LeftByNextBackoffIsStrategy
      <4>2. /\ Len(s'.durations) = Len(s.durations) - 1 /\ Len(s.durations) \in Nat \ {0}
            /\ \A i \in 1..(Len(s.durations) - 1) : s'.durations[i] = s.durations[i + 1]
        BY <2>1, <4>1
      <4>3. /\ Len(s.durations) + n = Len(given.durations)
            /\ \A i \in 1..Len(s.durations) : s.durations[i] = given.durations[n + i]
        BY <3>1 DEF RetryInv, StrategyOK
      <4>4. \A i \in 1..Len(s'.durations) : s'.durations[i] = given.durations[Len(delays') + i]
        <5> SUFFICES ASSUME NEW i \in 1..Len(s'.durations)
                     PROVE  s'.durations[i] = given.durations[Len(delays') + i]
          OBVIOUS
        <5>1. i + 1 \in 1..Len(s.durations) /\ s'.durations[i] = s.durations[i + 1]
          BY <4>2
        <5>2. s.durations[i + 1] = given.durations[n + (i + 1)]
          BY <4>3, <5>1
        <5>3. n + (i + 1) = Len(delays') + i
          BY <1>0, <2>1
        <5> QED
          BY <5>1, <5>2, <5>3
      <4>5. Len(s'.durations) + Len(delays') = Len(given.durations)
        <5>1. \A a, b \in Nat : (a - 1) + (b + 1) = a + b
          OBVIOUS
        <5>2. (Len(s.durations) - 1) + (n + 1) = Len(s.durations) + n
          BY <1>0, <4>2, <5>1
        <5>3. Len(s'.durations) = Len(s.durations) - 1 /\ Len(delays') = n + 1
          BY <2>1, <4>2
        <5> QED
          BY <4>3, <5>2, <5>3, Zenon
      <4> QED
        BY <1>2, <1>4, <3>1, <4>4, <4>5 DEF StrategyOK
    <3>2. CASE given.kind # "CustomInterval"
      <4>1. s'.durations = s.durations
        BY <1>0, <1>2, <1>5, <3>2, LeftByNextBackoffIsStrategy
      <4> QED
        BY <1>2, <1>4, <3>2, <4>1 DEF RetryInv, StrategyOK
    <3> QED
      BY <3>1, <3>2
  <2> QED
    BY <1>3, <2>3, <2>4 DEF RetryInv
<1> QED
  BY <1>6, <1>7

LEMMA RetryStep == RetryInv /\ [Next]_vars => RetryInv'
<1> SUFFICES ASSUME RetryInv, [Next]_vars PROVE RetryInv'
  OBVIOUS
<1>1. CASE HandleRetry /\ registered
  BY <1>1, SpawnTimerKeepsOrder
<1>2. CASE HandleRetry /\ ~registered
  <2>1. /\ retries' = retries + 1 /\ attempts' = attempts + 1
        /\ UNCHANGED <<retry_strategy, given, delays>>
        /\ retries + 1 <= retry_strategy.max_retries
    BY <1>2 DEF HandleRetry, MoreToTry
  <2>2. /\ given.max_retries \in Nat /\ retry_strategy.max_retries = given.max_retries
        /\ retries \in Nat /\ attempts \in Nat /\ attempts <= retries
    BY StrategiesAssumption DEF RetryInv, DataOK, StrategyOK
  <2>3. DataOK' /\ StrategyOK'
    BY <2>1, <2>2 DEF RetryInv, DataOK, StrategyOK
  <2>4. Len(delays) \in Nat
    BY DEF RetryInv, DataOK
  <2>5. BackoffFollowsStrategy'
    BY <2>1, <2>2, <2>4 DEF RetryInv, BackoffFollowsStrategy
  <2>6. attempts' <= retries'
    BY <2>1, <2>2
  <2> QED
    BY <2>3, <2>5, <2>6 DEF RetryInv
<1>3. CASE HandleRetryExhausted
  <2>1. retries' = retries + 1 /\ UNCHANGED <<retry_strategy, given, attempts, delays>>
    BY <1>3 DEF HandleRetryExhausted
  <2> QED
    BY <2>1 DEF RetryInv, DataOK, StrategyOK, BackoffFollowsStrategy
<1>4. CASE UNCHANGED <<retry_strategy, retries, given, attempts, delays>>
  BY <1>4 DEF RetryInv, DataOK, StrategyOK, BackoffFollowsStrategy
<1> QED
  BY <1>1, <1>2, <1>3, <1>4 DEF Next, HandleMessage, HandleEnd, HandleRetryEnded, TimerFires,
     PreStart, BeginStop, FinishStop, Environment, Tell, TellStop, EntryRemoved, vars, self,
     past

\* However many Retry messages and timers there are, the target is sent the message at
\* most max_retries times, and the timers take the strategy's delays in its order.
THEOREM BackoffCorrect == Spec => []BackoffFollowsStrategy
<1>1. Init => RetryInv
  BY StrategiesAssumption DEF Init, RetryInv, DataOK, StrategyOK, BackoffFollowsStrategy
<1>2. RetryInv /\ [Next]_vars => RetryInv'
  BY RetryStep
<1>3. RetryInv => BackoffFollowsStrategy
  BY DEF RetryInv
<1> QED
  BY <1>1, <1>2, <1>3, PTL DEF Spec

\* A timer that fires after End changes nothing but the mailbox: there is no further
\* attempt, timer or report.
THEOREM EndFinal == Spec => EndIsFinal
<1>1. [Next]_vars => [is_end => /\ is_end' /\ attempts' = attempts /\ delays' = delays
                                /\ reports' = reports]_vars
  BY DEF Next, HandleMessage, HandleRetry, HandleRetryExhausted, Tries, HandleEnd,
     HandleRetryEnded, TimerFires, PreStart, BeginStop, FinishStop, Environment, Tell,
     TellStop, EntryRemoved, vars, self, past
<1> QED
  BY <1>1, PTL DEF Spec, EndIsFinal

-----------------------------------------------------------------------------
Messages == {"Retry", "End"}

\* The places of the Retry messages in a mailbox.
Places(queue) == {i \in DOMAIN queue : queue[i] = "Retry"}

LEMMA CountIsNat ==
    ASSUME NEW q \in Seq(Messages)
    PROVE  IsFiniteSet(Places(q)) /\ RetriesIn(q) \in Nat /\ RetriesIn(q) = Cardinality(Places(q))
<1>1. Places(q) \in SUBSET (1..Len(q)) /\ Len(q) \in Nat
  BY DEF Places
<1>2. IsFiniteSet(1..Len(q))
  BY <1>1, FS_Interval
<1>3. IsFiniteSet(Places(q))
  BY <1>1, <1>2, FS_Subset
<1>4. RetriesIn(q) = Cardinality(Places(q))
  BY DEF RetriesIn, Places
<1> QED
  BY <1>3, <1>4, FS_CardinalityType

LEMMA CountEmpty == RetriesIn(<<>>) = 0
<1>1. {i \in DOMAIN <<>> : <<>>[i] = "Retry"} = {}
  OBVIOUS
<1> QED
  BY <1>1, FS_EmptySet DEF RetriesIn

\* A message put at the end is counted if it is a Retry.
LEMMA CountAppended ==
    ASSUME NEW q \in Seq(Messages), NEW m \in Messages
    PROVE  /\ Append(q, m) \in Seq(Messages)
           /\ RetriesIn(Append(q, m)) = RetriesIn(q) + (IF m = "Retry" THEN 1 ELSE 0)
<1> DEFINE r == Append(q, m)
<1>1. /\ r \in Seq(Messages) /\ Len(r) = Len(q) + 1 /\ r[Len(q) + 1] = m /\ Len(q) \in Nat
      /\ \A i \in 1..Len(q) : r[i] = q[i]
  OBVIOUS
<1>2. DOMAIN r = 1..(Len(q) + 1) /\ DOMAIN q = 1..Len(q)
  BY <1>1
<1>3. IsFiniteSet(Places(q)) /\ RetriesIn(q) = Cardinality(Places(q)) /\ RetriesIn(q) \in Nat
  BY CountIsNat
<1>4. r \in Seq(Messages) /\ RetriesIn(r) = Cardinality(Places(r))
  BY <1>1, CountIsNat
<1> HIDE DEF r
<1>5. CASE m = "Retry"
  <2>1. Places(r) = Places(q) \cup {Len(q) + 1} /\ Len(q) + 1 \notin Places(q)
    BY <1>1, <1>2, <1>5 DEF Places
  <2>2. Cardinality(Places(r)) = Cardinality(Places(q)) + 1
    BY <1>3, <2>1, FS_AddElement
  <2> QED
    BY <1>3, <1>4, <1>5, <2>2 DEF r
<1>6. CASE m # "Retry"
  <2>1. Places(r) = Places(q)
    BY <1>1, <1>2, <1>6 DEF Places
  <2> QED
    BY <1>3, <1>4, <1>6, <2>1 DEF r
<1> QED
  BY <1>5, <1>6

\* A message taken from the front is no longer counted.
LEMMA CountTaken ==
    ASSUME NEW q \in Seq(Messages), q # <<>>
    PROVE  /\ Tail(q) \in Seq(Messages) /\ Head(q) \in Messages
           /\ RetriesIn(q) = RetriesIn(Tail(q)) + (IF Head(q) = "Retry" THEN 1 ELSE 0)
<1> DEFINE r == Tail(q)
<1>1. /\ r \in Seq(Messages) /\ Len(r) = Len(q) - 1 /\ Len(q) \in Nat \ {0}
      /\ \A i \in 1..Len(r) : r[i] = q[i + 1]
      /\ Head(q) = q[1] /\ Head(q) \in Messages
  BY HeadTailProperties
<1>2. DOMAIN r = 1..(Len(q) - 1) /\ DOMAIN q = 1..Len(q)
  BY <1>1
<1>3. IsFiniteSet(Places(r)) /\ RetriesIn(r) = Cardinality(Places(r)) /\ RetriesIn(r) \in Nat
  BY <1>1, CountIsNat
<1>4. IsFiniteSet(Places(q)) /\ RetriesIn(q) = Cardinality(Places(q)) /\ RetriesIn(q) \in Nat
  BY CountIsNat
<1> HIDE DEF r
<1> DEFINE S == Places(q) \ {1}
<1> DEFINE f == [i \in Places(r) |-> i + 1]
<1>5. f \in [Places(r) -> S]
  <2> SUFFICES ASSUME NEW i \in Places(r) PROVE i + 1 \in S
    OBVIOUS
  <2> QED
    BY <1>1, <1>2 DEF Places
<1>6. \A i, j \in Places(r) : f[i] = f[j] => i = j
  BY <1>2 DEF Places
<1>7. \A k \in S : \E i \in Places(r) : f[i] = k
  <2> SUFFICES ASSUME NEW k \in S PROVE \E i \in Places(r) : f[i] = k
    OBVIOUS
  <2>1. k - 1 \in 1..Len(r) /\ r[k - 1] = q[(k - 1) + 1] /\ (k - 1) + 1 = k /\ q[k] = "Retry"
    BY <1>1, <1>2 DEF Places
  <2>2. k - 1 \in Places(r)
    BY <1>1, <1>2, <2>1 DEF Places
  <2> QED
    BY <2>1, <2>2
<1>8. ExistsBijection(Places(r), S)
  <2>1. f \in Bijection(Places(r), S)
    BY <1>5, <1>6, <1>7, Fun_IsBij
  <2> QED
    BY <2>1, Fun_ExistsBij
<1>9. Cardinality(S) = Cardinality(Places(r))
  BY <1>3, <1>8, FS_Bijection
<1>10. Cardinality(S) = IF 1 \in Places(q) THEN Cardinality(Places(q)) - 1 ELSE Cardinality(Places(q))
  BY <1>4, FS_RemoveElement
<1>11. 1 \in Places(q) <=> Head(q) = "Retry"
  BY <1>1, <1>2 DEF Places
<1> QED
  BY <1>1, <1>3, <1>4, <1>9, <1>10, <1>11 DEF r

\* The types the count needs.
CountOK ==
    /\ mailbox \in Seq(Messages) /\ timers \in Nat /\ asked \in Nat
    /\ reports \in Seq({"Send", "ReTry"})

\* A step takes a Retry before it makes a timer or a report of it.
LEMMA CountStep ==
    CountOK /\ OneReportPerRequest /\ [Next]_vars => CountOK' /\ OneReportPerRequest'
<1> SUFFICES ASSUME CountOK, OneReportPerRequest, [Next]_vars
             PROVE  CountOK' /\ OneReportPerRequest'
  OBVIOUS
<1> DEFINE n == RetriesIn(mailbox)
<1>t. /\ mailbox \in Seq(Messages) /\ timers \in Nat /\ asked \in Nat
      /\ reports \in Seq({"Send", "ReTry"}) /\ Len(reports) \in Nat /\ n \in Nat
      /\ n + timers + Len(reports) <= asked
  BY CountIsNat DEF CountOK, OneReportPerRequest
<1>r. \A x \in {"Send", "ReTry"} :
         Append(reports, x) \in Seq({"Send", "ReTry"}) /\ Len(Append(reports, x)) = Len(reports) + 1
  BY <1>t
<1>1. ASSUME NEW m \in Messages, Serves(m), mailbox' = Tail(mailbox)
      PROVE  /\ mailbox' \in Seq(Messages) /\ RetriesIn(mailbox') \in Nat
             /\ n = RetriesIn(mailbox') + (IF m = "Retry" THEN 1 ELSE 0)
  BY <1>1, <1>t, CountTaken, CountIsNat DEF Serves
<1> HIDE DEF n
<1>2. CASE HandleRetry
  <2>1. /\ mailbox' \in Seq(Messages) /\ RetriesIn(mailbox') \in Nat
        /\ n = RetriesIn(mailbox') + 1
    BY <1>1, <1>2 DEF HandleRetry, Tries, Messages
  <2>2. /\ asked' = asked
        /\ \/ timers' = timers + 1 /\ reports' = reports
           \/ timers' = timers /\ reports' = reports
           \/ timers' = timers /\ reports' = Append(reports, "Send")
    BY <1>2 DEF HandleRetry, SpawnTimer
  <2>3. CASE reports' = reports
    BY <1>t, <2>1, <2>2, <2>3, SMTT(30) DEF CountOK, OneReportPerRequest
  <2>4. CASE timers' = timers /\ reports' = Append(reports, "Send")
    BY <1>t, <1>r, <2>1, <2>2, <2>4 DEF CountOK, OneReportPerRequest
  <2> QED
    BY <2>2, <2>3, <2>4
<1>3. CASE HandleRetryExhausted
  <2>1. /\ mailbox' \in Seq(Messages) /\ RetriesIn(mailbox') \in Nat
        /\ n = RetriesIn(mailbox') + 1
    BY <1>1, <1>3 DEF HandleRetryExhausted, Tries, Messages
  <2>2. asked' = asked /\ timers' = timers /\ reports' = Append(reports, "ReTry")
    BY <1>3 DEF HandleRetryExhausted, TimersAfterLast
  <2> QED
    BY <1>t, <1>r, <2>1, <2>2 DEF CountOK, OneReportPerRequest
<1>4. CASE HandleEnd \/ HandleRetryEnded
  <2>1. /\ mailbox' \in Seq(Messages) /\ RetriesIn(mailbox') \in Nat /\ RetriesIn(mailbox') <= n
    BY <1>1, <1>4 DEF HandleEnd, HandleRetryEnded, Messages
  <2>2. UNCHANGED <<asked, timers, reports>>
    BY <1>4 DEF HandleEnd, HandleRetryEnded, past
  <2> QED
    BY <1>t, <2>1, <2>2 DEF CountOK, OneReportPerRequest
<1>5. CASE TimerFires
  <2>1. \/ mailbox' = mailbox
        \/ mailbox' = Append(mailbox, "Retry")
    BY <1>5 DEF TimerFires
  <2>2. /\ mailbox' \in Seq(Messages) /\ RetriesIn(mailbox') \in Nat
        /\ RetriesIn(mailbox') <= n + 1
    <3>1. CASE mailbox' = mailbox
      BY <1>t, <3>1 DEF n
    <3>2. CASE mailbox' = Append(mailbox, "Retry")
      <4>1. "Retry" \in Messages
        BY DEF Messages
      <4>2. mailbox' \in Seq(Messages) /\ RetriesIn(mailbox') = RetriesIn(mailbox) + 1
        BY <1>t, <3>2, <4>1, CountAppended
      <4> QED
        BY <1>t, <4>2 DEF n
    <3> QED
      BY <2>1, <3>1, <3>2
  <2>3. timers' = timers - 1 /\ timers - 1 \in Nat /\ asked' = asked /\ reports' = reports
    BY <1>t, <1>5 DEF TimerFires, past
  <2> QED
    BY <1>t, <2>2, <2>3 DEF CountOK, OneReportPerRequest
<1>6. ASSUME NEW m \in Messages, Tell(m) PROVE CountOK' /\ OneReportPerRequest'
  <2>1. /\ mailbox' = Append(mailbox, m) /\ asked' = asked + (IF m = "Retry" THEN 1 ELSE 0)
        /\ timers' = timers /\ reports' = reports
    BY <1>t, <1>6 DEF Tell
  <2>2. mailbox' \in Seq(Messages) /\ RetriesIn(mailbox') = n + (IF m = "Retry" THEN 1 ELSE 0)
    BY <1>t, <2>1, CountAppended DEF n
  <2> QED
    BY <1>t, <2>1, <2>2 DEF CountOK, OneReportPerRequest
<1>7. CASE (mailbox' = mailbox \/ mailbox' = <<>>) /\ UNCHANGED <<timers, asked, reports>>
  <2>1. mailbox' \in Seq(Messages) /\ RetriesIn(mailbox') \in Nat /\ RetriesIn(mailbox') <= n
    <3>1. CASE mailbox' = mailbox
      BY <1>t, <3>1 DEF n
    <3>2. CASE mailbox' = <<>>
      BY <1>t, <3>2, CountEmpty
    <3> QED
      BY <1>7, <3>1, <3>2
  <2> QED
    BY <1>t, <1>7, <2>1 DEF CountOK, OneReportPerRequest
<1>8. (\E ok \in BOOLEAN : PreStart(ok)) \/ BeginStop \/ FinishStop \/ TellStop \/ EntryRemoved
         \/ UNCHANGED vars
      => (mailbox' = mailbox \/ mailbox' = <<>>) /\ UNCHANGED <<timers, asked, reports>>
  BY DEF PreStart, BeginStop, FinishStop, TellStop, EntryRemoved, vars, runner, past
<1> QED
  BY <1>2, <1>3, <1>4, <1>5, <1>6, <1>7, <1>8
     DEF Next, HandleMessage, Environment, Messages

\* However timers, callers and End interleave, the chains of retries do not multiply:
\* every Retry that others sent is at most one message, one timer or one report.
THEOREM ReportsBounded == Spec => []OneReportPerRequest
<1> DEFINE Inv == CountOK /\ OneReportPerRequest
<1>1. Init => Inv
  BY CountEmpty DEF Init, CountOK, OneReportPerRequest
<1>2. Inv /\ [Next]_vars => Inv'
  BY CountStep
<1>3. Inv => OneReportPerRequest
  OBVIOUS
<1> QED
  BY <1>1, <1>2, <1>3, PTL DEF Spec

=============================================================================
