------------------------ MODULE PersistentActorProofs ------------------------
(***************************************************************************)
(* What holds of a persistent actor and its store for any number of        *)
(* events, crashes, restarts and faults.                                   *)
(*                                                                         *)
(* The commands in the store's mailbox are in an order that carries most   *)
(* of the argument: a command whose answer the actor awaits has only       *)
(* purges behind it, so the state of a snapshot told before it lacks the   *)
(* event under way, and states reach the database in the order in which    *)
(* the actor had them.                                                     *)
(***************************************************************************)
EXTENDS PersistentActor, SequenceTheorems, TLAPS

-----------------------------------------------------------------------------
(* The invariant.                                                          *)

Ops == {"Persist", "PersistLight", "PutEvent", "Snapshot", "Purge", "PurgeStates", "Recover"}
Commands == [op : Ops, state : Seq(Events), event : Numbers, asked : BOOLEAN]

\* The commands that store a state.
Saves == {"Snapshot", "PersistLight"}

\* The actor waits for the answer to the persist of the event issued last.
Pending == call = "persist" /\ reply = "none"

\* The commands whose answer the actor may be waiting for.
Awaited == CASE call = "recover" -> {"Recover"}
             [] call = "persist" -> IF Light THEN {"PersistLight", "PutEvent"} ELSE {"Persist"}
             [] call = "snapshot" -> {"Snapshot"}
             [] OTHER -> {}

\* What holds of a command c in the store's mailbox.
Fit(c) ==
    /\ c.asked => c.op \in Awaited /\ reply = "none" /\ (call = "persist" => c.event = issued)
    /\ ~c.asked => c.op \in {"Snapshot", "Purge", "PurgeStates"}
    /\ c.op = "PurgeStates" => "purge" \in faults
    /\ c.op \in Saves => Elements(c.state) \subseteq Elements(state)

\* The command the actor waits for has only purges behind it, and a state that is
\* stored later has all the events of one stored before.
Ordered(q) ==
    \A i, j \in 1..Len(q) : i < j =>
        /\ q[i].asked => q[j].op = "Purge"
        /\ q[i].op \in Saves /\ q[j].op \in Saves => Elements(q[i].state) \subseteq Elements(q[j].state)

QueueOK ==
    /\ queue \in Seq(Commands)
    /\ \A c \in Elements(queue) : Fit(c)
    /\ Ordered(queue)

CallOK ==
    /\ mode = "recovering" <=> call = "recover"
    /\ call = "persist" => mode = "up" /\ issued > 0
    /\ mode = "down" => queue = <<>> /\ call = "none"
    /\ mode = "recovering" => state = <<>>

\* A number given so far: an event that is pending has none yet.
Given(n) == n < issued /\ (Pending => n + 1 < issued)

\* The collection is empty or has a last number.
HasLast == DOMAIN events = {} \/ \E n \in DOMAIN events : \A k \in DOMAIN events : k <= n

NumbersGiven ==
    /\ \A n \in DOMAIN events : Given(n)
    /\ event_counter = 0 \/ Given(event_counter)
    /\ snapshot.counter <= issued
    /\ HasLast

TypeInv == TypeOK /\ QueueOK /\ CallOK /\ NumbersGiven

-----------------------------------------------------------------------------
(* Sequences and the commands in a mailbox.                                *)

LEMMA ElementsAdded ==
    ASSUME NEW S, NEW s \in Seq(S), NEW e \in S
    PROVE  /\ Append(s, e) \in Seq(S) /\ Elements(Append(s, e)) = Elements(s) \cup {e}
           /\ Elements(s) \subseteq S
<1>1. /\ Append(s, e) \in Seq(S) /\ Len(Append(s, e)) = Len(s) + 1 /\ Len(s) \in Nat
      /\ \A i \in 1..Len(s) : Append(s, e)[i] = s[i]
      /\ Append(s, e)[Len(s) + 1] = e
  BY AppendProperties
<1>2. ASSUME NEW x \in Elements(Append(s, e)) PROVE x \in Elements(s) \cup {e}
  BY <1>1 DEF Elements
<1>3. ASSUME NEW x \in Elements(s) PROVE x \in Elements(Append(s, e)) /\ x \in S
  <2>1. PICK i \in 1..Len(s) : x = s[i]
    BY DEF Elements
  <2>2. i \in 1..Len(Append(s, e)) /\ Append(s, e)[i] = x
    BY <1>1, <2>1
  <2> QED
    BY <2>1, <2>2 DEF Elements
<1>4. e \in Elements(Append(s, e))
  <2>1. Len(s) + 1 \in 1..Len(Append(s, e))
    BY <1>1
  <2> QED
    BY <1>1, <2>1 DEF Elements
<1> QED
  BY <1>1, <1>2, <1>3, <1>4

LEMMA ElementsEmpty == Elements(<<>>) = {}
BY DEF Elements

\* The command at the head and the rest of the mailbox.
LEMMA HeadAndTail ==
    ASSUME NEW q \in Seq(Commands), q # <<>>
    PROVE  /\ Head(q) \in Commands /\ Tail(q) \in Seq(Commands)
           /\ Elements(q) = Elements(Tail(q)) \cup {Head(q)}
           /\ Ordered(q) =>
                 /\ Ordered(Tail(q))
                 /\ \A c \in Elements(Tail(q)) :
                       /\ Head(q).asked => c.op = "Purge"
                       /\ Head(q).op \in Saves /\ c.op \in Saves =>
                             Elements(Head(q).state) \subseteq Elements(c.state)
<1> DEFINE r == Tail(q)
<1>1. /\ Head(q) \in Commands /\ r \in Seq(Commands) /\ Len(r) = Len(q) - 1
      /\ \A i \in 1..Len(r) : r[i] = q[i + 1]
      /\ Head(q) = q[1] /\ Len(q) \in Nat \ {0}
  BY HeadTailProperties
<1> HIDE DEF r
<1>2. \A i \in 1..Len(r) : i + 1 \in 1..Len(q) /\ 1 < i + 1
  BY <1>1
<1>3. Elements(q) = Elements(r) \cup {Head(q)}
  <2>1. ASSUME NEW x \in Elements(q) PROVE x \in Elements(r) \cup {Head(q)}
    <3>1. PICK i \in 1..Len(q) : x = q[i]
      BY DEF Elements
    <3>2. CASE i = 1
      BY <1>1, <3>1, <3>2
    <3>3. CASE i # 1
      <4>1. i - 1 \in 1..Len(r) /\ (i - 1) + 1 = i
        BY <1>1, <3>1, <3>3
      <4>2. r[i - 1] = x
        BY <1>1, <3>1, <4>1
      <4> QED
        BY <4>1, <4>2 DEF Elements
    <3> QED
      BY <3>2, <3>3
  <2>2. ASSUME NEW x \in Elements(r) PROVE x \in Elements(q)
    BY <1>1, <1>2 DEF Elements
  <2>3. Head(q) \in Elements(q)
    BY <1>1 DEF Elements
  <2> QED
    BY <2>1, <2>2, <2>3
<1>4. ASSUME Ordered(q)
      PROVE  /\ Ordered(r)
             /\ \A c \in Elements(r) :
                   /\ Head(q).asked => c.op = "Purge"
                   /\ Head(q).op \in Saves /\ c.op \in Saves =>
                         Elements(Head(q).state) \subseteq Elements(c.state)
  <2>1. Ordered(r)
    <3> SUFFICES ASSUME NEW i \in 1..Len(r), NEW j \in 1..Len(r), i < j
                 PROVE  /\ r[i].asked => r[j].op = "Purge"
                        /\ r[i].op \in Saves /\ r[j].op \in Saves =>
                              Elements(r[i].state) \subseteq Elements(r[j].state)
      BY DEF Ordered
    <3>1. i + 1 \in 1..Len(q) /\ j + 1 \in 1..Len(q) /\ i + 1 < j + 1
      BY <1>1, <1>2
    <3>2. r[i] = q[i + 1] /\ r[j] = q[j + 1]
      BY <1>1
    <3> QED
      BY <1>4, <3>1, <3>2 DEF Ordered
  <2>2. ASSUME NEW c \in Elements(r)
        PROVE  /\ Head(q).asked => c.op = "Purge"
               /\ Head(q).op \in Saves /\ c.op \in Saves =>
                     Elements(Head(q).state) \subseteq Elements(c.state)
    <3>1. PICK i \in 1..Len(r) : c = r[i]
      BY DEF Elements
    <3>2. c = q[i + 1] /\ i + 1 \in 1..Len(q) /\ 1 \in 1..Len(q) /\ 1 < i + 1
      BY <1>1, <1>2, <3>1
    <3> QED
      BY <1>1, <1>4, <3>2 DEF Ordered
  <2> QED
    BY <2>1, <2>2
<1> QED
  BY <1>1, <1>3, <1>4 DEF r

\* A command put behind the others.
LEMMA Adding ==
    ASSUME NEW q \in Seq(Commands), NEW c \in Commands, Ordered(q),
           \A d \in Elements(q) :
              /\ d.asked => c.op = "Purge"
              /\ d.op \in Saves /\ c.op \in Saves => Elements(d.state) \subseteq Elements(c.state)
    PROVE  /\ Append(q, c) \in Seq(Commands) /\ Elements(Append(q, c)) = Elements(q) \cup {c}
           /\ Ordered(Append(q, c))
<1> DEFINE r == Append(q, c)
<1>1. /\ r \in Seq(Commands) /\ Len(r) = Len(q) + 1 /\ Len(q) \in Nat
      /\ \A i \in 1..Len(q) : r[i] = q[i]
      /\ r[Len(q) + 1] = c
  BY AppendProperties
<1>2. Elements(r) = Elements(q) \cup {c}
  BY ElementsAdded
<1> HIDE DEF r
<1>3. ASSUME NEW i \in 1..Len(r), NEW j \in 1..Len(r), i < j
      PROVE  /\ r[i].asked => r[j].op = "Purge"
             /\ r[i].op \in Saves /\ r[j].op \in Saves =>
                   Elements(r[i].state) \subseteq Elements(r[j].state)
  <2>1. i \in 1..Len(q) /\ r[i] = q[i] /\ q[i] \in Elements(q)
    BY <1>1, <1>3 DEF Elements
  <2>2. CASE j \in 1..Len(q)
    BY <1>1, <1>3, <2>1, <2>2 DEF Ordered
  <2>3. CASE j = Len(q) + 1
    BY <1>1, <2>1, <2>3
  <2> QED
    BY <1>1, <2>2, <2>3
<1>4. Ordered(r)
  BY <1>3 DEF Ordered
<1> QED
  BY <1>1, <1>2, <1>4 DEF r

\* A command of which one of two writes is done.
LEMMA Retagging ==
    ASSUME NEW q \in Seq(Commands), q # <<>>, Ordered(q), NEW op \in {"PutEvent", "PurgeStates"}
    PROVE  LET r == [q EXCEPT ![1].op = op]
           IN  /\ r \in Seq(Commands) /\ Ordered(r)
               /\ [Head(q) EXCEPT !.op = op] \in Commands
               /\ Elements(r) = Elements(Tail(q)) \cup {[Head(q) EXCEPT !.op = op]}
<1> DEFINE r == [q EXCEPT ![1].op = op]
<1> DEFINE t == Tail(q)
<1> DEFINE h == [Head(q) EXCEPT !.op = op]
<1>1. /\ q[1] \in Commands /\ Head(q) = q[1] /\ Len(q) \in Nat \ {0} /\ 1 \in 1..Len(q)
      /\ DOMAIN q = 1..Len(q)
  OBVIOUS
<1>2. /\ h \in Commands /\ h.op = op /\ h.asked = q[1].asked /\ h.state = q[1].state
  BY <1>1 DEF Commands, Ops
<1>3. r = [q EXCEPT ![1] = h]
  BY <1>1
<1>4. /\ t \in Seq(Commands) /\ Len(t) = Len(q) - 1
      /\ \A i \in 1..Len(t) : t[i] = q[i + 1]
  BY HeadTailProperties
<1> HIDE DEF h, t
<1>5. /\ r \in Seq(Commands) /\ Len(r) = Len(q) /\ r[1] = h
      /\ \A i \in 1..Len(q) : i # 1 => r[i] = q[i]
  BY <1>1, <1>2, <1>3
<1> HIDE DEF r
<1>6. Ordered(r)
  <2> SUFFICES ASSUME NEW i \in 1..Len(r), NEW j \in 1..Len(r), i < j
               PROVE  /\ r[i].asked => r[j].op = "Purge"
                      /\ r[i].op \in Saves /\ r[j].op \in Saves =>
                            Elements(r[i].state) \subseteq Elements(r[j].state)
    BY DEF Ordered
  <2>1. r[j] = q[j] /\ j \in 1..Len(q) /\ i \in 1..Len(q)
    BY <1>1, <1>5
  <2>2. CASE i = 1
    <3>1. r[i].asked = q[i].asked /\ r[i].op \notin Saves
      BY <1>2, <1>5, <2>2 DEF Saves
    <3> QED
      BY <2>1, <3>1 DEF Ordered
  <2>3. CASE i # 1
    BY <1>5, <2>1, <2>3 DEF Ordered
  <2> QED
    BY <2>2, <2>3
<1>7. Elements(r) = Elements(t) \cup {h}
  <2>1. ASSUME NEW x \in Elements(r) PROVE x \in Elements(t) \cup {h}
    <3>1. PICK i \in 1..Len(r) : x = r[i]
      BY DEF Elements
    <3>2. CASE i = 1
      BY <1>5, <3>1, <3>2
    <3>3. CASE i # 1
      <4>1. i - 1 \in 1..Len(t) /\ (i - 1) + 1 = i
        BY <1>1, <1>4, <1>5, <3>1, <3>3
      <4>2. t[i - 1] = x
        BY <1>4, <1>5, <3>1, <3>3, <4>1
      <4> QED
        BY <4>1, <4>2 DEF Elements
    <3> QED
      BY <3>2, <3>3
  <2>2. ASSUME NEW x \in Elements(t) PROVE x \in Elements(r)
    <3>1. PICK i \in 1..Len(t) : x = t[i]
      BY DEF Elements
    <3>2. i + 1 \in 1..Len(r) /\ i + 1 # 1 /\ r[i + 1] = x
      BY <1>1, <1>4, <1>5, <3>1
    <3> QED
      BY <3>2 DEF Elements
  <2>3. h \in Elements(r)
    BY <1>1, <1>5 DEF Elements
  <2> QED
    BY <2>1, <2>2, <2>3
<1> QED
  BY <1>2, <1>5, <1>6, <1>7 DEF r, t, h

-----------------------------------------------------------------------------
(* Types, the mailbox and the numbers given.                               *)

\* What a fault adds to the kinds that have happened.
LEMMA FaultAdded ==
    ASSUME NEW k \in Kinds, NEW f \in May(k)
    PROVE  f \subseteq Kinds /\ (f = {} \/ f = {k})
BY FaultsAssumption DEF May

\* A snapshot is none, or a state and the counter at which it was taken.
LEMMA SnapshotType ==
    ASSUME TypeOK
    PROVE  /\ snapshot.state \in Seq(Events) /\ snapshot.counter \in Int
           /\ snapshot = NoSnapshot => snapshot.state = <<>> /\ snapshot.counter = -1
           /\ snapshot # NoSnapshot => snapshot.counter \in Numbers
<1>1. NoSnapshot.state = <<>> /\ NoSnapshot.counter = -1
  BY DEF NoSnapshot
<1>2. CASE snapshot = NoSnapshot
  <2>1. snapshot.state = <<>> /\ snapshot.counter = -1
    BY <1>1, <1>2
  <2>2. <<>> \in Seq(Events) /\ -1 \in Int
    OBVIOUS
  <2> QED
    BY <1>2, <2>1, <2>2
<1>3. CASE snapshot # NoSnapshot
  <2>1. snapshot \in [state : Seq(Events), counter : Numbers]
    BY <1>3 DEF TypeOK
  <2>2. snapshot.state \in Seq(Events) /\ snapshot.counter \in Numbers
    BY <2>1
  <2> QED
    BY <1>3, <2>2, MaxEventsAssumption DEF Numbers
<1> QED
  BY <1>2, <1>3

\* LastNumber is the greatest number of the collection.
LEMMA LastIsLast ==
    ASSUME TypeOK, HasLast
    PROVE  /\ LastNumber \in Numbers /\ \A k \in DOMAIN events : k <= LastNumber
           /\ DOMAIN events # {} => LastNumber \in DOMAIN events
           /\ DOMAIN events = {} => LastNumber = 0
<1>1. CASE DOMAIN events = {}
  BY <1>1, MaxEventsAssumption DEF LastNumber, LastOf, Numbers
<1>2. CASE DOMAIN events # {}
  <2>1. PICK n \in DOMAIN events : \A k \in DOMAIN events : k <= n
    BY <1>2 DEF HasLast
  <2>2. LastNumber \in DOMAIN events /\ \A k \in DOMAIN events : k <= LastNumber
    BY <1>2, <2>1 DEF LastNumber, LastOf
  <2> QED
    BY <1>2, <2>2 DEF TypeOK
<1> QED
  BY <1>1, <1>2

LEMMA LastIsGiven ==
    ASSUME TypeInv
    PROVE  LastNumber \in 0..issued /\ (LastNumber = 0 \/ LastNumber < issued)
<1>1. /\ LastNumber \in Numbers /\ issued \in Nat
      /\ DOMAIN events # {} => LastNumber \in DOMAIN events
      /\ DOMAIN events = {} => LastNumber = 0
  BY LastIsLast, MaxEventsAssumption DEF TypeInv, NumbersGiven, TypeOK
<1>2. LastNumber \in DOMAIN events => LastNumber < issued
  BY DEF TypeInv, NumbersGiven, Given
<1>3. LastNumber \in Nat
  BY <1>1, MaxEventsAssumption DEF Numbers
<1>4. LastNumber = 0 \/ LastNumber < issued
  BY <1>1, <1>2
<1> QED
  BY <1>1, <1>3, <1>4

\* A stored event adds its number, and the collection keeps a last one.
LEMMA StoringKeepsLast ==
    ASSUME TypeOK, HasLast, NEW n \in Numbers, NEW e, events' = Stored(n, e)
    PROVE  /\ DOMAIN events' = DOMAIN events \cup {n} /\ events'[n] = e
           /\ \A k \in DOMAIN events : k # n => events'[k] = events[k]
           /\ HasLast'
<1>1. /\ DOMAIN events' = DOMAIN events \cup {n} /\ events'[n] = e
      /\ \A k \in DOMAIN events : k # n => events'[k] = events[k]
  BY DEF Stored
<1>2. HasLast'
  <2>1. CASE DOMAIN events = {}
    BY <1>1, <2>1, MaxEventsAssumption DEF HasLast, Numbers
  <2>2. CASE DOMAIN events # {}
    <3>1. PICK m \in DOMAIN events : \A k \in DOMAIN events : k <= m
      BY <2>2 DEF HasLast
    <3>2. \A k \in DOMAIN events' : k \in Int
      BY <1>1, MaxEventsAssumption DEF TypeOK, Numbers
    <3>3. CASE m <= n
      <4>1. n \in DOMAIN events' /\ \A k \in DOMAIN events' : k <= n
        BY <1>1, <3>1, <3>2, <3>3
      <4> QED
        BY <4>1 DEF HasLast
    <3>4. CASE ~(m <= n)
      <4>1. m \in DOMAIN events' /\ \A k \in DOMAIN events' : k <= m
        BY <1>1, <3>1, <3>2, <3>4
      <4> QED
        BY <4>1 DEF HasLast
    <3> QED
      BY <3>3, <3>4
  <2> QED
    BY <2>1, <2>2
<1> QED
  BY <1>1, <1>2

\* A command stays fit while the actor waits, and a purge always.
LEMMA FitKept ==
    ASSUME NEW c, Fit(c), UNCHANGED <<call, reply, issued, type, state>>, faults \subseteq faults'
    PROVE  Fit(c)'
BY DEF Fit, Awaited, Light

LEMMA PurgeFits ==
    ASSUME NEW c \in Commands, Fit(c), c.op = "Purge"
    PROVE  ~c.asked /\ Fit(c)'
<1>1. ~c.asked
  BY DEF Fit, Awaited
<1> QED
  BY <1>1 DEF Fit, Saves

\* A command that is answered leaves a mailbox in order, and the number of the event
\* under way free.
LEMMA AnswerKeepsQueue ==
    ASSUME TypeInv, queue # <<>>, queue' = Tail(queue),
           UNCHANGED <<call, issued, type, state, mode>>, faults \subseteq faults',
           IF Command.asked THEN reply' \in {"ok", "err"} ELSE reply' = reply
    PROVE  QueueOK' /\ CallOK' /\ reply' \in {"none", "ok", "err"} /\ \A n : Given(n) => Given(n)'
<1>1. /\ Command \in Commands /\ Tail(queue) \in Seq(Commands)
      /\ Elements(queue) = Elements(Tail(queue)) \cup {Command}
      /\ Ordered(Tail(queue))
      /\ \A c \in Elements(Tail(queue)) : Command.asked => c.op = "Purge"
  BY HeadAndTail DEF TypeInv, QueueOK, Command
<1>2. \A c \in Elements(Tail(queue)) : c \in Commands
  BY <1>1 DEF Elements
<1>3. ASSUME NEW c \in Elements(Tail(queue)) PROVE Fit(c)'
  <2>1. Fit(c)
    BY <1>1 DEF TypeInv, QueueOK
  <2>2. CASE Command.asked
    BY <1>1, <1>2, <2>1, <2>2, PurgeFits
  <2>3. CASE ~Command.asked
    BY <2>1, <2>3, FitKept
  <2> QED
    BY <2>2, <2>3
<1>4. QueueOK'
  BY <1>1, <1>3 DEF QueueOK
<1>5. CallOK' /\ reply' \in {"none", "ok", "err"}
  BY DEF TypeInv, TypeOK, CallOK
<1>6. ASSUME NEW n, Given(n) PROVE Given(n)'
  <2>1. Pending' => Pending
    BY DEF Pending
  <2> QED
    BY <1>6, <2>1 DEF Given
<1> QED
  BY <1>4, <1>5, <1>6

\* An Answer gives what the lemma above asks for.
LEMMA AnswerReplies ==
    ASSUME NEW ok \in BOOLEAN, Answer(ok)
    PROVE  IF Command.asked THEN reply' \in {"ok", "err"} ELSE reply' = reply
BY DEF Answer

\* The number persist gives to the event under way is one of those not given yet.
LEMMA NextIsFree ==
    ASSUME TypeInv, Pending, NEW seen \in SUBSET DOMAIN events
    PROVE  NextNumber(seen) \in Numbers /\ NextNumber(seen) < issued
<1>1. /\ issued \in Nat /\ issued > 0 /\ issued <= MaxEvents /\ MaxEvents \in Nat
      /\ event_counter \in Nat
      /\ \A n \in DOMAIN events : n \in Nat /\ n + 1 < issued
      /\ event_counter = 0 \/ event_counter + 1 < issued
  BY MaxEventsAssumption DEF TypeInv, TypeOK, CallOK, Pending, NumbersGiven, Given, Numbers
<1>2. CASE event_counter # 0
  BY <1>1, <1>2 DEF NextNumber, Numbers
<1>3. CASE event_counter = 0 /\ seen # {}
  <2>1. PICK n \in seen : TRUE
    BY <1>3
  <2>2. n \in Nat /\ n + 1 < issued
    BY <1>1, <2>1
  <2> QED
    BY <1>1, <1>3, <2>2 DEF NextNumber, Numbers
<1>4. CASE event_counter = 0 /\ seen = {}
  BY <1>1, <1>4 DEF NextNumber, Numbers
<1> QED
  BY <1>2, <1>3, <1>4

\* What HandlePersist does, in terms of the number it gives.
LEMMA PersistFacts ==
    ASSUME TypeInv, HandlePersist
    PROVE  /\ Pending /\ Command.asked /\ Command.event = issued /\ ~Light /\ queue # <<>>
           /\ \A c \in Elements(queue) \cup Elements(queue') : c.op \notin Saves
           /\ \E f \in May("scan"), g \in May("put_event") :
                 /\ faults' = faults \cup f \cup g
                 /\ g = {} => /\ events' = Stored(NextNumber(Seen(f)), issued)
                              /\ event_counter' = NextNumber(Seen(f))
                              /\ reply' = "ok"
                 /\ g # {} => UNCHANGED <<events, event_counter>> /\ reply' = "err"
<1>1. queue # <<>> /\ Command \in Elements(queue) /\ Command.op = "Persist"
  BY HeadAndTail DEF HandlePersist, Serve, TypeInv, QueueOK, Command
<1>2. Fit(Command)
  BY <1>1 DEF TypeInv, QueueOK
<1>3. Command.asked /\ Command.op \in Awaited /\ reply = "none"
  BY <1>1, <1>2 DEF Fit
<1>4. call = "persist" /\ ~Light
  BY <1>1, <1>3 DEF Awaited
<1>5. Pending /\ Command.event = issued
  BY <1>2, <1>3, <1>4 DEF Pending, Fit
<1>6. PICK f \in May("scan"), g \in May("put_event") :
         /\ events' = IF g = {} THEN Stored(NextNumber(Seen(f)), Command.event) ELSE events
         /\ event_counter' = IF g = {} THEN Counted(NextNumber(Seen(f))) ELSE event_counter
         /\ Answer(g = {}) /\ Happened(f \cup g)
  BY DEF HandlePersist
<1>c. \A c \in Elements(queue) \cup Elements(queue') : c.op \notin Saves
  BY <1>1, <1>3, HeadAndTail DEF HandlePersist, Serve, TypeInv, QueueOK, Command, Saves
<1>7. /\ faults' = faults \cup f \cup g
      /\ g = {} => reply' = "ok"
      /\ g # {} => reply' = "err"
  BY <1>3, <1>6 DEF Answer, Happened
<1> QED
  BY <1>1, <1>3, <1>4, <1>5, <1>6, <1>7, <1>c DEF Counted

LEMMA StoreTypes ==
    ASSUME TypeInv, StoreStep, type' = type
    PROVE  TypeInv'
<1>q. queue # <<>>
  BY DEF StoreStep, HandlePersist, HandleSnapshot, HandlePersistLight, HandlePutEvent,
     HandlePurge, HandlePurgeStates, Serve
<1>c. /\ Command \in Commands /\ Tail(queue) \in Seq(Commands)
      /\ Elements(queue) = Elements(Tail(queue)) \cup {Command}
      /\ Command \in Elements(queue) /\ Fit(Command)
      /\ \A c \in Elements(Tail(queue)) :
            c \in Commands /\ Fit(c) /\ (Command.asked => c.op = "Purge")
  <2>1. /\ Command \in Commands /\ Tail(queue) \in Seq(Commands)
        /\ Elements(queue) = Elements(Tail(queue)) \cup {Command}
        /\ \A c \in Elements(Tail(queue)) : Command.asked => c.op = "Purge"
    BY <1>q, HeadAndTail DEF TypeInv, QueueOK, Command
  <2>2. \A c \in Elements(Tail(queue)) : c \in Commands
    BY <2>1 DEF Elements
  <2> QED
    BY <2>1, <2>2 DEF TypeInv, QueueOK
<1>u. UNCHANGED <<mode, state, call, issued, acked>> /\ faults \subseteq faults'
  BY DEF StoreStep, HandlePersist, HandleSnapshot, HandlePersistLight, HandlePutEvent,
     HandlePurge, HandlePurgeStates, Happened, actor
<1>t. /\ mode \in {"down", "recovering", "up", "stopping"}
      /\ state \in Seq(Events) /\ call \in {"none", "recover", "persist", "snapshot"}
      /\ issued \in 0..MaxEvents /\ acked \subseteq Events
      /\ faults \subseteq Kinds /\ type \in Types
      /\ event_counter \in 0..issued /\ state_counter \in 0..issued
      /\ DOMAIN events \subseteq Numbers /\ (\A n \in DOMAIN events : events[n] \in Events)
      /\ snapshot \in {NoSnapshot} \cup [state : Seq(Events), counter : Numbers]
      /\ \A n \in DOMAIN events : Given(n)
      /\ event_counter = 0 \/ Given(event_counter)
      /\ snapshot.counter <= issued /\ HasLast /\ MaxEvents \in Nat
  BY MaxEventsAssumption DEF TypeInv, TypeOK, NumbersGiven
<1>a. ASSUME queue' = Tail(queue), IF Command.asked THEN reply' \in {"ok", "err"} ELSE reply' = reply
      PROVE  QueueOK' /\ CallOK' /\ reply' \in {"none", "ok", "err"} /\ \A n : Given(n) => Given(n)'
  BY <1>q, <1>u, <1>a, AnswerKeepsQueue
<1>1. CASE HandlePersist
  <2>1. /\ Pending /\ Command.asked /\ reply' \in {"ok", "err"}
        /\ \E f \in May("scan"), g \in May("put_event") :
              /\ faults' = faults \cup f \cup g
              /\ \/ /\ events' = Stored(NextNumber(Seen(f)), issued)
                    /\ event_counter' = NextNumber(Seen(f))
                 \/ UNCHANGED <<events, event_counter>>
    BY <1>1, PersistFacts
  <2>2. PICK f \in May("scan"), g \in May("put_event") :
              /\ faults' = faults \cup f \cup g
              /\ \/ /\ events' = Stored(NextNumber(Seen(f)), issued)
                    /\ event_counter' = NextNumber(Seen(f))
                 \/ UNCHANGED <<events, event_counter>>
    BY <2>1
  <2>3. faults' \subseteq Kinds
    BY <1>t, <2>2, FaultAdded DEF Kinds
  <2>4. QueueOK' /\ CallOK' /\ reply' \in {"none", "ok", "err"} /\ \A n : Given(n) => Given(n)'
    BY <1>1, <1>a, <2>1 DEF HandlePersist, Serve
  <2>5. UNCHANGED <<snapshot, state_counter>>
    BY <1>1 DEF HandlePersist
  <2>6. CASE UNCHANGED <<events, event_counter>>
    BY <1>t, <1>u, <2>3, <2>4, <2>5, <2>6 DEF TypeInv, TypeOK, NumbersGiven, HasLast
  <2>7. CASE /\ events' = Stored(NextNumber(Seen(f)), issued)
             /\ event_counter' = NextNumber(Seen(f))
    <3>0. PICK n : n = NextNumber(Seen(f))
      OBVIOUS
    <3>1. n \in Numbers /\ n < issued
      BY <2>1, <3>0, NextIsFree DEF Seen
    <3>2. n \in Nat /\ n \in 0..issued /\ issued \in Events
      BY <1>t, <3>1 DEF Numbers, Events
    <3>3. events' = Stored(n, issued) /\ event_counter' = n
      BY <2>7, <3>0
    <3>4. /\ DOMAIN events' = DOMAIN events \cup {n} /\ events'[n] = issued
          /\ \A k \in DOMAIN events : k # n => events'[k] = events[k]
          /\ HasLast'
      BY <1>t, <3>1, <3>3, StoringKeepsLast DEF TypeInv
    <3>5. Given(n)'
      BY <1>u, <2>1, <3>1 DEF Given, Pending
    <3>6. DOMAIN events' \subseteq Numbers /\ \A k \in DOMAIN events' : events'[k] \in Events /\ Given(k)'
      BY <1>t, <2>4, <3>1, <3>2, <3>4, <3>5
    <3>7. TypeOK'
      BY <1>t, <1>u, <2>3, <2>4, <2>5, <3>2, <3>3, <3>6 DEF TypeOK
    <3> QED
      BY <1>t, <1>u, <2>4, <2>5, <3>3, <3>4, <3>5, <3>6, <3>7 DEF TypeInv, NumbersGiven
  <2> QED
    BY <2>2, <2>6, <2>7
<1>s. ASSUME NEW st \in Seq(Events), NEW f \in May(SnapshotFault), PutSnapshot(st, f = {}), Happened(f)
      PROVE  /\ faults' \subseteq Kinds /\ state_counter' \in 0..issued
             /\ snapshot' \in {NoSnapshot} \cup [state : Seq(Events), counter : Numbers]
             /\ snapshot'.counter <= issued
  <2>1. SnapshotFault \in Kinds
    BY DEF SnapshotFault, Kinds
  <2>2. faults' \subseteq Kinds
    BY <1>t, <1>s, <2>1, FaultAdded DEF Happened
  <2>3. event_counter \in Numbers
    BY <1>t DEF Numbers
  <2>4. CASE f = {}
    <3>1. snapshot' = [state |-> st, counter |-> event_counter] /\ state_counter' = event_counter
      BY <1>s, <2>4 DEF PutSnapshot
    <3>2. snapshot' \in [state : Seq(Events), counter : Numbers]
      BY <2>3, <3>1
    <3>3. snapshot'.counter <= issued
      BY <1>t, <3>1
    <3> QED
      BY <1>t, <2>2, <3>1, <3>2, <3>3
  <2>5. CASE f # {}
    <3>1. snapshot' = snapshot /\ state_counter' = event_counter
      BY <1>s, <2>5 DEF PutSnapshot
    <3> QED
      BY <1>t, <2>2, <3>1
  <2> QED
    BY <2>4, <2>5
<1>d. Command.state \in Seq(Events) /\ Command.asked \in BOOLEAN
  BY <1>c DEF Commands
<1>2. CASE HandleSnapshot
  <2>1. PICK f \in May(SnapshotFault) :
           PutSnapshot(Command.state, f = {}) /\ Answer(f = {}) /\ Happened(f)
    BY <1>2 DEF HandleSnapshot
  <2>2. /\ faults' \subseteq Kinds /\ state_counter' \in 0..issued
        /\ snapshot' \in {NoSnapshot} \cup [state : Seq(Events), counter : Numbers]
        /\ snapshot'.counter <= issued
    BY <1>d, <1>s, <2>1
  <2>3. QueueOK' /\ CallOK' /\ reply' \in {"none", "ok", "err"} /\ \A n : Given(n) => Given(n)'
    BY <1>2, <1>a, <2>1, AnswerReplies DEF HandleSnapshot, Serve
  <2>4. UNCHANGED <<events, event_counter>>
    BY <1>2 DEF HandleSnapshot
  <2> QED
    BY <1>t, <1>u, <2>2, <2>3, <2>4 DEF TypeInv, TypeOK, NumbersGiven, HasLast
<1>3. CASE HandlePersistLight
  <2>1. PICK f \in May(SnapshotFault) :
           /\ PutSnapshot(LightState, f = {}) /\ Happened(f)
           /\ IF f = {} THEN /\ queue' = [queue EXCEPT ![1].op = "PutEvent"] /\ UNCHANGED reply
                        ELSE /\ queue' = Tail(queue) /\ Answer(FALSE)
    BY <1>3 DEF HandlePersistLight
  <2>2. /\ faults' \subseteq Kinds /\ state_counter' \in 0..issued
        /\ snapshot' \in {NoSnapshot} \cup [state : Seq(Events), counter : Numbers]
        /\ snapshot'.counter <= issued
    BY <1>d, <1>s, <2>1 DEF LightState
  <2>3. QueueOK' /\ CallOK' /\ reply' \in {"none", "ok", "err"} /\ \A n : Given(n) => Given(n)'
    <3>1. CASE f # {}
      BY <1>a, <2>1, <3>1, AnswerReplies
    <3>2. CASE f = {}
      <4>0. PICK h : h = [Command EXCEPT !.op = "PutEvent"]
        OBVIOUS
      <4>1. queue' = [queue EXCEPT ![1].op = "PutEvent"] /\ reply' = reply
        BY <2>1, <3>2
      <4>2. /\ queue' \in Seq(Commands) /\ Ordered(queue')
            /\ Elements(queue') = Elements(Tail(queue)) \cup {h}
        BY <1>q, <4>0, <4>1, Retagging DEF TypeInv, QueueOK, Command
      <4>3. /\ h.op = "PutEvent" /\ h.asked = Command.asked /\ h.event = Command.event
        BY <1>c, <4>0 DEF Commands
      <4>4. /\ Command.op = "PersistLight" /\ Command.asked /\ Command.op \in Awaited
            /\ reply = "none" /\ (call = "persist" => Command.event = issued)
        BY <1>3, <1>c DEF HandlePersistLight, Fit
      <4>5. Awaited = {"PersistLight", "PutEvent"} /\ Awaited' = Awaited
        BY <1>u, <4>4 DEF Awaited, Light
      <4>6. Fit(h)'
        BY <1>u, <4>1, <4>3, <4>4, <4>5 DEF Fit, Saves
      <4>7. \A c \in Elements(Tail(queue)) : Fit(c)'
        BY <1>c, <1>u, <4>1, FitKept
      <4>8. QueueOK'
        BY <4>2, <4>6, <4>7 DEF QueueOK
      <4>9. CallOK'
        BY <1>q, <1>u DEF TypeInv, CallOK
      <4> QED
        BY <1>u, <4>1, <4>4, <4>8, <4>9 DEF Given, Pending
    <3> QED
      BY <3>1, <3>2
  <2>4. UNCHANGED <<events, event_counter>>
    BY <1>3 DEF HandlePersistLight
  <2> QED
    BY <1>t, <1>u, <2>2, <2>3, <2>4 DEF TypeInv, TypeOK, NumbersGiven, HasLast
<1>4. CASE HandlePutEvent
  <2>1. PICK f \in May("put_event") :
           /\ events' = IF f = {} THEN Stored(event_counter, Command.event) ELSE events
           /\ Answer(f = {}) /\ Happened(f)
    BY <1>4 DEF HandlePutEvent
  <2>2. /\ Command.op = "PutEvent" /\ Command.asked /\ Command.op \in Awaited /\ reply = "none"
        /\ (call = "persist" => Command.event = issued)
    BY <1>4, <1>c DEF HandlePutEvent, Serve, Fit
  <2>3. Pending /\ Command.event = issued
    BY <2>2 DEF Awaited, Pending
  <2>4. QueueOK' /\ CallOK' /\ reply' \in {"ok", "err"} /\ \A n : Given(n) => Given(n)'
    BY <1>4, <1>a, <2>1, <2>2, AnswerReplies DEF HandlePutEvent, Serve
  <2>5. faults' \subseteq Kinds
    BY <1>t, <2>1, FaultAdded DEF Happened, Kinds
  <2>6. UNCHANGED <<snapshot, event_counter, state_counter>>
    BY <1>4 DEF HandlePutEvent
  <2>7. CASE events' = events
    BY <1>t, <1>u, <2>4, <2>5, <2>6, <2>7 DEF TypeInv, TypeOK, NumbersGiven, HasLast
  <2>8. CASE events' = Stored(event_counter, issued)
    <3>1. /\ event_counter \in Numbers /\ issued \in Events /\ event_counter < issued
      BY <1>t, <2>3 DEF Numbers, Events, Given, Pending, TypeInv, CallOK
    <3>2. /\ DOMAIN events' = DOMAIN events \cup {event_counter} /\ events'[event_counter] = issued
          /\ \A k \in DOMAIN events : k # event_counter => events'[k] = events[k]
          /\ HasLast'
      BY <1>t, <2>8, <3>1, StoringKeepsLast DEF TypeInv
    <3>3. Given(event_counter)'
      BY <1>u, <2>4, <2>6, <3>1 DEF Given, Pending
    <3>4. DOMAIN events' \subseteq Numbers /\ \A k \in DOMAIN events' : events'[k] \in Events /\ Given(k)'
      BY <1>t, <2>4, <2>6, <3>1, <3>2, <3>3
    <3>5. TypeOK'
      BY <1>t, <1>u, <2>4, <2>5, <2>6, <3>4 DEF TypeOK
    <3> QED
      BY <1>t, <1>u, <2>4, <2>6, <3>2, <3>3, <3>4, <3>5 DEF TypeInv, NumbersGiven
  <2> QED
    BY <2>1, <2>3, <2>7, <2>8
<1>5. CASE HandlePurge
  <2>1. Command.op = "Purge" /\ ~Command.asked
    BY <1>5, <1>c, PurgeFits DEF HandlePurge
  <2>2. UNCHANGED <<snapshot, event_counter, state_counter, reply>>
    BY <1>5 DEF HandlePurge, actor
  <2>3. CASE queue' = Tail(queue) /\ UNCHANGED <<events, faults>>
    <3>1. QueueOK' /\ CallOK' /\ \A n : Given(n) => Given(n)'
      BY <1>a, <2>1, <2>2, <2>3
    <3> QED
      BY <1>t, <1>u, <2>2, <2>3, <3>1 DEF TypeInv, TypeOK, NumbersGiven, HasLast
  <2>4. CASE events' = <<>> /\ queue' = [queue EXCEPT ![1].op = "PurgeStates"] /\ Happened({"purge"})
    <3>0. PICK h : h = [Command EXCEPT !.op = "PurgeStates"]
      OBVIOUS
    <3>1. /\ queue' \in Seq(Commands) /\ Ordered(queue')
          /\ Elements(queue') = Elements(Tail(queue)) \cup {h}
      BY <1>q, <2>4, <3>0, Retagging DEF TypeInv, QueueOK, Command
    <3>2. /\ h.op = "PurgeStates" /\ h.asked = FALSE
      BY <1>c, <1>d, <2>1, <3>0 DEF Commands
    <3>3. "purge" \in faults' /\ faults' \subseteq Kinds
      BY <1>t, <2>4 DEF Happened, Kinds
    <3>4. Fit(h)'
      BY <3>2, <3>3 DEF Fit, Saves
    <3>5. \A c \in Elements(Tail(queue)) : Fit(c)'
      BY <1>c, <1>u, <2>2, FitKept
    <3>6. QueueOK'
      BY <3>1, <3>4, <3>5 DEF QueueOK
    <3>7. CallOK'
      BY <1>q, <1>u DEF TypeInv, CallOK
    <3>8. DOMAIN events' = {} /\ \A n : Given(n)' <=> Given(n)
      BY <1>u, <2>2, <2>4 DEF Given, Pending
    <3> QED
      BY <1>t, <1>u, <2>2, <3>3, <3>6, <3>7, <3>8 DEF TypeInv, TypeOK, NumbersGiven, HasLast
  <2> QED
    BY <1>5, <2>3, <2>4 DEF HandlePurge
<1>6. CASE HandlePurgeStates
  <2>1. UNCHANGED <<events, event_counter, state_counter, reply, faults>> /\ queue' = Tail(queue)
        /\ Command.op = "PurgeStates"
    BY <1>6 DEF HandlePurgeStates, Serve, actor
  <2>2. ~Command.asked
    BY <1>c, <2>1 DEF Fit, Awaited
  <2>3. QueueOK' /\ CallOK' /\ \A n : Given(n) => Given(n)'
    BY <1>a, <2>1, <2>2
  <2>4. /\ snapshot' \in {NoSnapshot} \cup [state : Seq(Events), counter : Numbers]
        /\ snapshot'.counter <= issued
    <3>1. NoSnapshot.counter <= issued
      BY <1>t DEF NoSnapshot
    <3> QED
      BY <1>6, <1>t, <3>1 DEF HandlePurgeStates
  <2> QED
    BY <1>t, <1>u, <2>1, <2>3, <2>4 DEF TypeInv, TypeOK, NumbersGiven, HasLast
<1> QED
  BY <1>1, <1>2, <1>3, <1>4, <1>5, <1>6 DEF StoreStep

\* What a replay reads: the events after the snapshot, up to where it ends.
LEMMA ReplayFacts ==
    ASSUME TypeInv, NEW f, NEW to \in ReplayEnds(f)
    PROVE  /\ to \in Int /\ to >= snapshot.counter
           /\ Replayed(to) \in Seq(Events) /\ Len(Replayed(to)) = to - snapshot.counter
           /\ \A i \in 1..(to - snapshot.counter) :
                 /\ snapshot.counter + i \in DOMAIN events
                 /\ Replayed(to)[i] = events[snapshot.counter + i]
           /\ to >= LastNumber \/ to + 1 \notin DOMAIN events \/ f # {}
<1>1. snapshot.counter \in Int /\ LastNumber \in Int
  BY SnapshotType, LastIsLast, MaxEventsAssumption DEF TypeInv, NumbersGiven, Numbers
<1>2. /\ to \in Int /\ to >= snapshot.counter
      /\ \A n \in (snapshot.counter + 1)..to : n \in DOMAIN events
      /\ to >= LastNumber \/ to + 1 \notin DOMAIN events \/ f # {}
  BY <1>1 DEF ReplayEnds, FirstToReplay
<1>3. PICK k \in Nat : k = to - snapshot.counter
  BY <1>1, <1>2
<1>4. to - FirstToReplay + 1 = k
  BY <1>1, <1>2, <1>3 DEF FirstToReplay
<1>5. ASSUME NEW i \in 1..k
      PROVE  /\ snapshot.counter + i \in DOMAIN events /\ FirstToReplay + i - 1 = snapshot.counter + i
             /\ events[snapshot.counter + i] \in Events
  <2>1. snapshot.counter + i \in (snapshot.counter + 1)..to
    BY <1>1, <1>2, <1>3
  <2>2. FirstToReplay + i - 1 = snapshot.counter + i
    BY <1>1 DEF FirstToReplay
  <2> QED
    BY <1>2, <2>1, <2>2 DEF TypeInv, TypeOK
<1>6. Replayed(to) = [i \in 1..k |-> events[snapshot.counter + i]]
  BY <1>4, <1>5 DEF Replayed
<1>7. /\ Replayed(to) \in Seq(Events) /\ Len(Replayed(to)) = k
      /\ \A i \in 1..k : Replayed(to)[i] = events[snapshot.counter + i]
  BY <1>5, <1>6
<1> QED
  BY <1>2, <1>3, <1>5, <1>7

LEMMA RecoverTypes ==
    ASSUME TypeInv, Recover, type' = type
    PROVE  TypeInv'
<1>q. /\ Recovering /\ mode' = "up" /\ call' = "none" /\ UNCHANGED <<reply, events, issued, acked>>
      /\ faults \subseteq faults'
  BY DEF Recover, RecoverNothing, RecoverState, RecoverAndReplay, ReplayFails, RecoverFails,
     EventsToReplay, Started, Happened
<1>c. /\ queue # <<>> /\ Command.op = "Recover" /\ mode = "recovering" /\ call = "recover"
      /\ Command \in Commands /\ Tail(queue) \in Seq(Commands) /\ Ordered(Tail(queue))
      /\ \A c \in Elements(Tail(queue)) : c \in Commands /\ Fit(c) /\ c.op = "Purge"
  <2>1. queue # <<>> /\ Command.op = "Recover" /\ mode = "recovering" /\ call = "recover"
    BY <1>q DEF Recovering, TypeInv, CallOK
  <2>2. /\ Command \in Commands /\ Tail(queue) \in Seq(Commands) /\ Ordered(Tail(queue))
        /\ Elements(queue) = Elements(Tail(queue)) \cup {Command}
        /\ \A c \in Elements(Tail(queue)) : Command.asked => c.op = "Purge"
    BY <2>1, HeadAndTail DEF TypeInv, QueueOK, Command
  <2>3. Command.asked
    BY <2>1, <2>2 DEF TypeInv, QueueOK, Fit
  <2>4. \A c \in Elements(Tail(queue)) : c \in Commands
    BY <2>2 DEF Elements
  <2> QED
    BY <2>1, <2>2, <2>3, <2>4 DEF TypeInv, QueueOK
<1>f. \A c \in Elements(Tail(queue)) : Fit(c)' /\ ~c.asked
  BY <1>c, PurgeFits
<1>t. /\ state = <<>> /\ reply \in {"none", "ok", "err"}
      /\ issued \in 0..MaxEvents /\ acked \subseteq Events
      /\ faults \subseteq Kinds /\ type \in Types
      /\ event_counter \in 0..issued /\ state_counter \in 0..issued
      /\ DOMAIN events \subseteq Numbers /\ (\A n \in DOMAIN events : events[n] \in Events)
      /\ snapshot \in {NoSnapshot} \cup [state : Seq(Events), counter : Numbers]
      /\ \A n \in DOMAIN events : n < issued
      /\ event_counter = 0 \/ event_counter < issued
      /\ snapshot.counter <= issued /\ HasLast /\ MaxEvents \in Nat
  BY <1>c, MaxEventsAssumption DEF TypeInv, TypeOK, CallOK, NumbersGiven, Given
<1>k. /\ LastNumber \in 0..issued /\ (LastNumber = 0 \/ LastNumber < issued)
      /\ LastNumber \in Numbers
  BY LastIsGiven, LastIsLast DEF TypeInv, NumbersGiven
<1>n. NotRecovered => state' \in Seq(Events) /\ QueueOK'
  <2> SUFFICES ASSUME NotRecovered PROVE state' \in Seq(Events) /\ QueueOK'
    OBVIOUS
  <2>0. PICK c : c = Tell(state)
    OBVIOUS
  <2>1. /\ c \in Commands /\ c.op = "Snapshot" /\ c.asked = FALSE /\ c.state = state
    BY <1>t, <2>0 DEF Tell, Commands, Ops, Numbers
  <2>2. state' = state /\ queue' = Append(Tail(queue), c)
    BY <2>0 DEF NotRecovered
  <2>3. /\ queue' \in Seq(Commands) /\ Elements(queue') = Elements(Tail(queue)) \cup {c}
        /\ Ordered(queue')
    BY <1>c, <1>f, <2>1, <2>2, Adding DEF Saves
  <2>4. Fit(c)'
    BY <2>1, <2>2 DEF Fit
  <2> QED
    BY <1>t, <1>f, <2>2, <2>3, <2>4 DEF QueueOK
<1>r. ASSUME NEW st \in Seq(Events), Recovered(st) PROVE state' \in Seq(Events) /\ QueueOK'
  BY <1>r, <1>c, <1>f DEF Recovered, QueueOK
<1>o. CallOK'
  BY <1>q DEF CallOK
<1>g. \A n : Given(n)' <=> n < issued
  BY <1>q DEF Given, Pending
<1>e. ASSUME state' \in Seq(Events), QueueOK', faults' \subseteq Kinds,
             event_counter' \in {event_counter, LastNumber},
             state_counter' \in 0..issued,
             snapshot' \in {NoSnapshot} \cup [state : Seq(Events), counter : Numbers],
             snapshot'.counter <= issued
      PROVE  TypeInv'
  <2>1. event_counter' \in 0..issued /\ (event_counter' = 0 \/ event_counter' < issued)
    BY <1>e, <1>t, <1>k
  <2>2. TypeOK'
    BY <1>e, <1>q, <1>t, <2>1 DEF TypeOK
  <2>3. NumbersGiven'
    BY <1>e, <1>q, <1>t, <1>g, <2>1 DEF NumbersGiven, HasLast
  <2> QED
    BY <1>e, <1>o, <2>2, <2>3 DEF TypeInv
<1>s. snapshot.state \in Seq(Events) /\ (snapshot # NoSnapshot => snapshot.counter \in 0..issued)
  BY <1>t, SnapshotType DEF TypeInv, Numbers
<1>1. CASE RecoverNothing \/ RecoverFails
  <2>1. NotRecovered /\ UNCHANGED <<snapshot, event_counter, state_counter>>
    BY <1>1 DEF RecoverNothing, RecoverFails
  <2>2. faults' \subseteq Kinds
    BY <1>1, <1>t DEF RecoverNothing, RecoverFails, Happened, Kinds
  <2> QED
    BY <1>e, <1>n, <1>t, <2>1, <2>2
<1>2. CASE RecoverState
  <2>1. PICK f \in May("scan") :
           /\ event_counter' = IF Seen(f) = {} THEN event_counter ELSE LastOf(Seen(f))
           /\ Happened(f)
    BY <1>2 DEF RecoverState
  <2>2. event_counter' \in {event_counter, LastNumber}
    BY <2>1 DEF Seen, LastNumber
  <2>3. faults' \subseteq Kinds
    BY <1>t, <2>1, FaultAdded DEF Happened, Kinds
  <2>4. Recovered(snapshot.state) /\ snapshot' = snapshot /\ state_counter' \in 0..issued
    BY <1>2, <1>s DEF RecoverState
  <2> QED
    BY <1>e, <1>r, <1>s, <1>t, <2>2, <2>3, <2>4
<1>3. CASE RecoverAndReplay
  <2>0. PICK f \in May("get_event") : \E to \in ReplayEnds(f) :
           /\ Recovered(snapshot.state \o Replayed(to)) /\ Happened(f)
           /\ snapshot' = [state |-> snapshot.state \o Replayed(to), counter |-> LastNumber]
    BY <1>3 DEF RecoverAndReplay
  <2>1. PICK to \in ReplayEnds(f) :
           /\ Recovered(snapshot.state \o Replayed(to)) /\ Happened(f)
           /\ snapshot' = [state |-> snapshot.state \o Replayed(to), counter |-> LastNumber]
    BY <2>0
  <2>2. PICK st : st = snapshot.state \o Replayed(to)
    OBVIOUS
  <2>3. st \in Seq(Events)
    BY <1>s, <2>2, ReplayFacts
  <2>4. snapshot' = [state |-> st, counter |-> LastNumber] /\ Recovered(st)
    BY <2>1, <2>2
  <2>5. snapshot' \in [state : Seq(Events), counter : Numbers] /\ snapshot'.counter <= issued
    BY <1>k, <1>t, <2>3, <2>4
  <2>6. faults' \subseteq Kinds
    BY <1>t, <2>1, FaultAdded DEF Happened, Kinds
  <2>7. event_counter' = LastNumber /\ state_counter' = LastNumber
    BY <1>3 DEF RecoverAndReplay, EventsToReplay
  <2> QED
    BY <1>e, <1>r, <1>k, <2>3, <2>4, <2>5, <2>6, <2>7
<1>4. CASE ReplayFails
  <2>1. /\ event_counter' = LastNumber /\ snapshot' = snapshot /\ NotRecovered
        /\ snapshot # NoSnapshot /\ state_counter' \in {snapshot.counter, LastNumber}
    BY <1>4 DEF ReplayFails, EventsToReplay
  <2>2. faults' \subseteq Kinds
    BY <1>4, <1>t DEF ReplayFails, Happened, Kinds
  <2> QED
    BY <1>e, <1>n, <1>k, <1>s, <1>t, <2>1, <2>2
<1> QED
  BY <1>1, <1>2, <1>3, <1>4 DEF Recover

\* What Ask puts in the mailbox, when nothing is being waited for.
LEMMA AskFacts ==
    ASSUME TypeInv, call = "none", type' = type, faults' = faults,
           NEW what \in {"persist", "snapshot"}, NEW op \in {"Persist", "PersistLight", "Snapshot"},
           NEW st \in Seq(Events), NEW e \in Numbers, Ask(what, op, st, e),
           what = "snapshot" => op = "Snapshot",
           what = "persist" => op = (IF Light THEN "PersistLight" ELSE "Persist") /\ e = issued',
           Elements(state) \subseteq Elements(st), Elements(st) = Elements(state')
    PROVE  /\ QueueOK' /\ call' = what /\ reply' = "none"
           /\ \A c \in Elements(queue) : ~c.asked
           /\ Elements(queue') = Elements(queue) \cup
                 {[op |-> op, state |-> st, event |-> e, asked |-> TRUE]}
<1>0. PICK c : c = [op |-> op, state |-> st, event |-> e, asked |-> TRUE]
  OBVIOUS
<1>1. c \in Commands /\ c.op = op /\ c.state = st /\ c.event = e /\ c.asked = TRUE
  BY <1>0 DEF Commands, Ops
<1>2. queue' = Append(queue, c) /\ call' = what /\ reply' = "none"
  BY <1>0 DEF Ask
<1>3. \A d \in Elements(queue) : ~d.asked /\ Fit(d)
  BY DEF TypeInv, QueueOK, Fit, Awaited
<1>4. \A d \in Elements(queue) : d.op \in Saves => Elements(d.state) \subseteq Elements(c.state)
  BY <1>1, <1>3 DEF Fit
<1>5. /\ queue' \in Seq(Commands) /\ Elements(queue') = Elements(queue) \cup {c} /\ Ordered(queue')
  BY <1>1, <1>2, <1>3, <1>4, Adding DEF TypeInv, QueueOK
<1>6. Fit(c)'
  BY <1>1, <1>2 DEF Fit, Awaited, Light
<1>7. ASSUME NEW d \in Elements(queue) PROVE Fit(d)'
  BY <1>3 DEF Fit
<1> QED
  BY <1>0, <1>2, <1>3, <1>5, <1>6, <1>7 DEF QueueOK

LEMMA ActorTypes ==
    ASSUME TypeInv, ActorStep \/ AskPurge \/ Crash, type' = type
    PROVE  TypeInv'
<1> USE DEF database, store, actor
<1>e. events' = events /\ snapshot' = snapshot
  BY DEF ActorStep, OpenStore, Persist, PersistReturns, Snapshot, SnapshotReturns, BeginStop,
     EndStop, AskPurge, Crash
<1>t. /\ mode \in {"down", "recovering", "up", "stopping"} /\ reply \in {"none", "ok", "err"}
      /\ state \in Seq(Events) /\ call \in {"none", "recover", "persist", "snapshot"}
      /\ issued \in 0..MaxEvents /\ acked \subseteq Events
      /\ faults \subseteq Kinds /\ type \in Types
      /\ event_counter \in 0..issued /\ state_counter \in 0..issued
      /\ DOMAIN events \subseteq Numbers /\ (\A n \in DOMAIN events : events[n] \in Events)
      /\ snapshot \in {NoSnapshot} \cup [state : Seq(Events), counter : Numbers]
      /\ \A n \in DOMAIN events : Given(n) /\ n \in Int
      /\ event_counter = 0 \/ Given(event_counter)
      /\ snapshot.counter <= issued /\ snapshot.counter \in Int /\ HasLast /\ MaxEvents \in Nat
  BY SnapshotType, MaxEventsAssumption DEF TypeInv, TypeOK, NumbersGiven, Numbers
<1>h. HasLast'
  BY <1>e, <1>t DEF HasLast
<1>1. CASE OpenStore
  <2>0. PICK c : c = [op |-> "Recover", state |-> <<>>, event |-> 0, asked |-> TRUE]
    OBVIOUS
  <2>1. c \in Commands /\ c.op = "Recover" /\ c.asked = TRUE
    BY <1>t, <2>0 DEF Commands, Ops, Numbers
  <2>2. /\ queue' = <<c>> /\ mode' = "recovering" /\ state' = <<>> /\ call' = "recover"
        /\ reply' = "none" /\ issued' = issued /\ acked' = acked /\ state_counter' = 0
    BY <1>1, <2>0 DEF OpenStore
  <2>3. PICK f \in May("scan") : event_counter' = LastOf(Seen(f)) /\ Happened(f)
    BY <1>1 DEF OpenStore
  <2>4. event_counter' \in {0, LastNumber} /\ faults' \subseteq Kinds
    <3>1. event_counter' \in {0, LastNumber}
      BY <2>3 DEF Seen, LastNumber, LastOf
    <3>2. faults' \subseteq Kinds
      BY <1>t, <2>3, FaultAdded DEF Happened, Kinds
    <3> QED
      BY <3>1, <3>2
  <2>5. LastNumber \in 0..issued /\ (LastNumber = 0 \/ LastNumber < issued)
    BY LastIsGiven
  <2>6. queue' \in Seq(Commands) /\ Elements(queue') = {c} /\ Ordered(queue')
    BY <2>1, <2>2 DEF Elements, Ordered
  <2>7. Fit(c)'
    BY <2>1, <2>2 DEF Fit, Awaited, Saves
  <2>8. QueueOK' /\ CallOK'
    BY <2>2, <2>6, <2>7 DEF QueueOK, CallOK
  <2>9. \A n : Given(n)' <=> n < issued
    BY <2>2 DEF Given, Pending
  <2>10. TypeOK'
    BY <1>e, <1>t, <2>2, <2>4, <2>5 DEF TypeOK
  <2>11. NumbersGiven'
    BY <1>e, <1>t, <1>h, <2>2, <2>4, <2>5, <2>9 DEF NumbersGiven, Given
  <2> QED
    BY <2>8, <2>10, <2>11 DEF TypeInv
<1>2. CASE Persist
  <2>1. /\ issued + 1 \in Events /\ issued + 1 \in Numbers /\ issued' = issued + 1
        /\ mode = "up" /\ call = "none" /\ state' = Append(state, issued + 1)
        /\ UNCHANGED <<event_counter, state_counter, mode, acked, faults>>
    BY <1>2, <1>t DEF Persist, Idle, Events, Numbers
  <2>2. state' \in Seq(Events) /\ Elements(state) \subseteq Elements(state')
    BY <1>t, <2>1, ElementsAdded
  <2>3. PICK op : op = IF Light THEN "PersistLight" ELSE "Persist"
    OBVIOUS
  <2>4. Ask("persist", op, state', issued + 1)
    BY <1>2, <2>3 DEF Persist
  <2>5. QueueOK' /\ call' = "persist" /\ reply' = "none"
    <3>1. PICK st : st = state'
      OBVIOUS
    <3>2. PICK e : e = issued + 1
      OBVIOUS
    <3>3. op \in {"Persist", "PersistLight", "Snapshot"} /\ st \in Seq(Events) /\ e \in Numbers
      BY <2>1, <2>2, <2>3, <3>1, <3>2
    <3>4. Ask("persist", op, st, e)
      BY <2>4, <3>1, <3>2 DEF Ask
    <3> QED
      BY <2>1, <2>2, <2>3, <3>1, <3>2, <3>3, <3>4, AskFacts
  <2>6. CallOK'
    BY <1>t, <2>1, <2>5 DEF CallOK
  <2>7. \A n \in Int : Given(n) => Given(n)'
    BY <1>t, <2>1, <2>5 DEF Given, Pending
  <2>8. TypeOK'
    BY <1>e, <1>t, <2>1, <2>2, <2>5 DEF TypeOK, Events
  <2>9. NumbersGiven'
    BY <1>e, <1>t, <1>h, <2>1, <2>7 DEF NumbersGiven
  <2> QED
    BY <2>5, <2>6, <2>8, <2>9 DEF TypeInv
<1>3. CASE (Snapshot \/ BeginStop) /\ call' # call
  <2>1. /\ Ask("snapshot", "Snapshot", state, 0) /\ mode = "up" /\ call = "none"
        /\ mode' \in {"up", "stopping"}
        /\ UNCHANGED <<event_counter, state_counter, state, issued, acked, faults>>
    BY <1>3 DEF Snapshot, BeginStop, Idle
  <2>2. QueueOK' /\ call' = "snapshot" /\ reply' = "none"
    <3>1. PICK st : st = state
      OBVIOUS
    <3>2. 0 \in Numbers
      BY <1>t DEF Numbers
    <3>3. Ask("snapshot", "Snapshot", st, 0) /\ st \in Seq(Events)
      BY <1>t, <2>1, <3>1 DEF Ask
    <3> QED
      BY <2>1, <3>1, <3>2, <3>3, AskFacts
  <2>3. CallOK'
    BY <2>1, <2>2 DEF CallOK
  <2>4. \A n : Given(n) => Given(n)'
    BY <2>1, <2>2 DEF Given, Pending
  <2>5. TypeOK'
    BY <1>e, <1>t, <2>1, <2>2 DEF TypeOK
  <2>6. NumbersGiven'
    BY <1>e, <1>t, <1>h, <2>1, <2>4 DEF NumbersGiven
  <2> QED
    BY <2>2, <2>3, <2>5, <2>6 DEF TypeInv
<1>4. CASE BeginStop /\ call' = call
  <2>1. /\ mode = "up" /\ mode' = "stopping" /\ call = "none"
        /\ UNCHANGED <<event_counter, state_counter, state, issued, acked, faults>>
    BY <1>4 DEF BeginStop, Idle
  <2>2. UNCHANGED <<queue, call, reply>>
    BY <1>4, <2>1 DEF BeginStop, Ask
  <2>3. \A c \in Elements(queue) : Fit(c)'
    BY <2>1, <2>2, FitKept DEF TypeInv, QueueOK
  <2>4. QueueOK' /\ CallOK'
    BY <2>1, <2>2, <2>3 DEF TypeInv, QueueOK, CallOK
  <2>5. \A n : Given(n) => Given(n)'
    BY <2>1, <2>2 DEF Given, Pending
  <2>6. TypeOK'
    BY <1>e, <1>t, <2>1, <2>2 DEF TypeOK
  <2>7. NumbersGiven'
    BY <1>e, <1>t, <1>h, <2>1, <2>5 DEF NumbersGiven
  <2> QED
    BY <2>4, <2>6, <2>7 DEF TypeInv
<1>5. CASE PersistReturns \/ SnapshotReturns
  <2>1. /\ reply # "none" /\ mode = "up" /\ call' = "none" /\ reply' = "none"
        /\ call \in {"persist", "snapshot"}
        /\ UNCHANGED <<event_counter, state_counter, queue, mode, state, issued, faults>>
    <3>1. CASE PersistReturns
      BY <3>1 DEF PersistReturns
    <3>2. CASE SnapshotReturns
      BY <3>2 DEF SnapshotReturns
    <3> QED
      BY <1>5, <3>1, <3>2
  <2>a. acked' = acked \/ (call = "persist" /\ acked' = acked \cup {issued})
    BY <1>5 DEF PersistReturns, SnapshotReturns
  <2>2. ASSUME NEW c \in Elements(queue) PROVE Fit(c)'
    BY <2>1 DEF TypeInv, QueueOK, Fit
  <2>3. QueueOK' /\ CallOK'
    BY <2>1, <2>2 DEF TypeInv, QueueOK, CallOK
  <2>4. \A n : Given(n) => Given(n)'
    BY <2>1 DEF Given, Pending
  <2>5. acked' \subseteq Events
    <3>1. call = "persist" => issued \in Events
      BY <1>t DEF TypeInv, CallOK, Events
    <3> QED
      BY <1>t, <2>a, <3>1
  <2>6. TypeOK'
    BY <1>e, <1>t, <2>1, <2>5 DEF TypeOK
  <2>7. NumbersGiven'
    BY <1>e, <1>t, <1>h, <2>1, <2>4 DEF NumbersGiven
  <2> QED
    BY <2>3, <2>6, <2>7 DEF TypeInv
<1>6. CASE EndStop \/ Crash
  <2>1. /\ state' = <<>> /\ queue' = <<>> /\ event_counter' = 0 /\ state_counter' = 0
        /\ mode' = "down" /\ call' = "none" /\ reply' = "none"
        /\ UNCHANGED <<issued, acked, faults>>
    BY <1>6 DEF EndStop, Crash
  <2>2. QueueOK' /\ CallOK'
    BY <2>1, ElementsEmpty DEF QueueOK, CallOK, Ordered
  <2>3. \A n : Given(n) => Given(n)'
    BY <2>1 DEF Given, Pending
  <2>4. TypeOK'
    BY <1>e, <1>t, <2>1 DEF TypeOK
  <2>5. NumbersGiven'
    BY <1>e, <1>t, <1>h, <2>1, <2>3 DEF NumbersGiven
  <2> QED
    BY <2>2, <2>4, <2>5 DEF TypeInv
<1>7. CASE AskPurge
  <2>0. PICK c : c = [op |-> "Purge", state |-> <<>>, event |-> 0, asked |-> FALSE]
    OBVIOUS
  <2>1. c \in Commands /\ c.op = "Purge" /\ c.asked = FALSE
    BY <1>t, <2>0 DEF Commands, Ops, Numbers
  <2>2. /\ queue' = Append(queue, c) /\ mode # "down"
        /\ UNCHANGED <<event_counter, state_counter, mode, state, call, reply, issued, acked, faults>>
    BY <1>7, <2>0 DEF AskPurge
  <2>3. /\ queue' \in Seq(Commands) /\ Elements(queue') = Elements(queue) \cup {c}
        /\ Ordered(queue')
    BY <2>1, <2>2, Adding DEF TypeInv, QueueOK, Saves
  <2>4. Fit(c)'
    BY <2>1 DEF Fit, Saves
  <2>5. \A d \in Elements(queue) : Fit(d)'
    BY <2>2, FitKept DEF TypeInv, QueueOK
  <2>6. QueueOK' /\ CallOK'
    BY <2>2, <2>3, <2>4, <2>5 DEF TypeInv, QueueOK, CallOK
  <2>7. \A n : Given(n) => Given(n)'
    BY <2>2 DEF Given, Pending
  <2>8. TypeOK'
    BY <1>e, <1>t, <2>2 DEF TypeOK
  <2>9. NumbersGiven'
    BY <1>e, <1>t, <1>h, <2>2, <2>7 DEF NumbersGiven
  <2> QED
    BY <2>6, <2>8, <2>9 DEF TypeInv
<1> QED
  BY <1>1, <1>2, <1>3, <1>4, <1>5, <1>6, <1>7 DEF ActorStep, Snapshot, Ask, Idle

LEMMA TypeStep == TypeInv /\ [Next]_vars => TypeInv'
<1> SUFFICES ASSUME TypeInv, [Next]_vars PROVE TypeInv'
  OBVIOUS
<1>1. CASE StoreStep /\ type' = type
  BY <1>1, StoreTypes
<1>2. CASE Recover /\ type' = type
  BY <1>2, RecoverTypes
<1>3. CASE (ActorStep \/ AskPurge \/ Crash) /\ type' = type
  BY <1>3, ActorTypes
<1>4. CASE UNCHANGED vars
  <2>1. UNCHANGED <<events, snapshot, event_counter, state_counter, queue, mode, state, call,
                    reply, issued, acked, faults, type>>
    BY <1>4 DEF vars, database, store, actor
  <2>2. TypeOK' /\ CallOK'
    BY <2>1 DEF TypeInv, TypeOK, CallOK
  <2>3. \A c \in Elements(queue) : Fit(c)'
    BY <2>1, FitKept DEF TypeInv, QueueOK
  <2>4. QueueOK'
    BY <2>1, <2>3 DEF TypeInv, QueueOK
  <2>5. NumbersGiven'
    BY <2>1 DEF TypeInv, NumbersGiven, Given, Pending, HasLast
  <2> QED
    BY <2>2, <2>4, <2>5 DEF TypeInv
<1> QED
  BY <1>1, <1>2, <1>3, <1>4 DEF Next

LEMMA TypeInvariant == Spec => []TypeInv
<1>1. Init => TypeInv
  <2> SUFFICES ASSUME Init PROVE TypeInv
    OBVIOUS
  <2>1. DOMAIN events = {} /\ snapshot.counter = -1
    BY DEF Init, NoSnapshot
  <2>2. TypeOK
    BY <2>1, TypesAssumption, MaxEventsAssumption DEF Init, TypeOK
  <2>3. QueueOK /\ CallOK
    BY ElementsEmpty DEF Init, QueueOK, CallOK, Ordered
  <2>4. NumbersGiven
    BY <2>1 DEF Init, NumbersGiven, HasLast
  <2> QED
    BY <2>2, <2>3, <2>4 DEF TypeInv
<1>2. TypeInv /\ [Next]_vars => TypeInv'
  BY TypeStep
<1> QED
  BY <1>1, <1>2, PTL DEF Spec

\* Every reachable state is well typed, and no store numbers an event beyond those it
\* was given, whatever fails, is purged or crashes.
THEOREM TypeCorrect == Spec => []TypeOK
<1>1. TypeInv => TypeOK
  BY DEF TypeInv
<1> QED
  BY <1>1, TypeInvariant, PTL

-----------------------------------------------------------------------------
(* Full persistence, while no search for the last event has failed: the    *)
(* numbers of the events.                                                  *)

Guarded == Numbered(type, faults)

\* The numbers in the collection have no gap, and the counter of an open store is the
\* last of them: the next number is a new one.
NumberInv ==
    /\ mode # "down" /\ DOMAIN events # {} => event_counter \in DOMAIN events
    /\ mode # "down" => \A n \in DOMAIN events : n <= event_counter
    /\ \A m, n \in DOMAIN events : m..n \subseteq DOMAIN events

\* Faults are never forgotten and the type of persistence never changes.
LEMMA GuardStep ==
    ASSUME [Next]_vars
    PROVE  type' = type /\ faults \subseteq faults'
<1>1. type' = type
  BY DEF Next, vars
<1>2. CASE StoreStep
  BY <1>1, <1>2 DEF StoreStep, HandlePersist, HandleSnapshot, HandlePersistLight,
     HandlePutEvent, HandlePurge, HandlePurgeStates, Happened
<1>3. CASE Recover
  BY <1>1, <1>3 DEF Recover, RecoverNothing, RecoverState, RecoverAndReplay, ReplayFails,
     RecoverFails, Happened
<1>4. CASE ActorStep \/ AskPurge \/ Crash
  BY <1>1, <1>4 DEF ActorStep, OpenStore, Persist, PersistReturns, Snapshot, SnapshotReturns,
     BeginStop, EndStop, AskPurge, Crash, Happened
<1>5. CASE UNCHANGED vars
  BY <1>5 DEF vars
<1> QED
  BY <1>2, <1>3, <1>4, <1>5 DEF Next

\* The only ways in which numbers change.
Kept == UNCHANGED <<events, event_counter>> /\ mode # "down" /\ mode' # "down"
Closed == events' = events /\ mode' = "down"
Reset == events' = events /\ event_counter' = LastNumber /\ mode' # "down"
NumberedNext ==
    /\ Pending /\ reply' = "ok" /\ mode # "down" /\ mode' = mode
    /\ events' = Stored(NextNumber(DOMAIN events), issued)
    /\ event_counter' = NextNumber(DOMAIN events)
    /\ \A c \in Elements(queue) \cup Elements(queue') : c.op \notin Saves
Emptied == /\ DOMAIN events' = {} /\ event_counter' = event_counter
           /\ mode # "down" /\ mode' = mode /\ "purge" \in faults'

\* A store has a mailbox with something in it only while the actor is not down.
LEMMA ServingIsUp ==
    ASSUME TypeInv, queue # <<>>
    PROVE  mode # "down"
BY DEF TypeInv, CallOK

LEMMA NumberCases ==
    ASSUME TypeInv, [Next]_vars, Guarded'
    PROVE  Kept \/ Closed \/ Reset \/ NumberedNext \/ Emptied
<1> USE DEF database, store, actor
<1>g. "scan" \notin faults' /\ ~Light
  BY GuardStep DEF Guarded, Numbered, Light
<1>1. CASE HandlePersist
  <2>1. /\ Pending /\ queue # <<>>
        /\ \A c \in Elements(queue) \cup Elements(queue') : c.op \notin Saves
        /\ \E f \in May("scan"), g \in May("put_event") :
              /\ faults' = faults \cup f \cup g
              /\ g = {} => /\ events' = Stored(NextNumber(Seen(f)), issued)
                           /\ event_counter' = NextNumber(Seen(f)) /\ reply' = "ok"
              /\ g # {} => UNCHANGED <<events, event_counter>>
    BY <1>1, PersistFacts
  <2>2. PICK f \in May("scan"), g \in May("put_event") :
              /\ faults' = faults \cup f \cup g
              /\ g = {} => /\ events' = Stored(NextNumber(Seen(f)), issued)
                           /\ event_counter' = NextNumber(Seen(f)) /\ reply' = "ok"
              /\ g # {} => UNCHANGED <<events, event_counter>>
    BY <2>1
  <2>3. f = {} /\ Seen(f) = DOMAIN events
    BY <1>g, <2>2, FaultAdded DEF Kinds, Seen
  <2>4. mode # "down" /\ mode' = mode
    BY <1>1, <2>1, ServingIsUp DEF HandlePersist
  <2> QED
    BY <2>1, <2>2, <2>3, <2>4 DEF Kept, NumberedNext
<1>2. CASE HandleSnapshot \/ HandlePurgeStates
  <2>1. queue # <<>> /\ UNCHANGED <<events, event_counter, mode>>
    BY <1>2 DEF HandleSnapshot, HandlePurgeStates, Serve
  <2> QED
    BY <2>1, ServingIsUp DEF Kept
<1>3. ~HandlePersistLight /\ ~HandlePutEvent
  <2>1. ASSUME queue # <<>>, Command.op \in {"PersistLight", "PutEvent"} PROVE FALSE
    <3>1. Command \in Elements(queue)
      BY <2>1, HeadAndTail DEF TypeInv, QueueOK, Command
    <3>2. Fit(Command)
      BY <3>1 DEF TypeInv, QueueOK
    <3> QED
      BY <1>g, <2>1, <3>2 DEF Fit, Awaited
  <2> QED
    BY <2>1 DEF HandlePersistLight, HandlePutEvent, Serve
<1>4. CASE HandlePurge
  <2>1. queue # <<>> /\ UNCHANGED <<event_counter, mode>>
    BY <1>4 DEF HandlePurge
  <2>2. events' = events \/ (DOMAIN events' = {} /\ "purge" \in faults')
    BY <1>4 DEF HandlePurge, Happened
  <2> QED
    BY <2>1, <2>2, ServingIsUp DEF Kept, Emptied
<1>5. CASE Recover
  <2>1. mode = "recovering" /\ mode' = "up" /\ events' = events
    BY <1>5 DEF Recover, RecoverNothing, RecoverState, RecoverAndReplay, ReplayFails,
       RecoverFails, EventsToReplay, Recovering, Started
  <2>2. CASE RecoverState
    <3>1. PICK f \in May("scan") :
             /\ event_counter' = IF Seen(f) = {} THEN event_counter ELSE LastOf(Seen(f))
             /\ Happened(f)
      BY <2>2 DEF RecoverState
    <3>2. event_counter' \in {event_counter, LastNumber}
      BY <3>1 DEF Seen, LastNumber
    <3> QED
      BY <2>1, <3>2 DEF Kept, Reset
  <2>3. CASE RecoverAndReplay \/ ReplayFails
    BY <2>1, <2>3 DEF RecoverAndReplay, ReplayFails, EventsToReplay, Reset
  <2>4. CASE RecoverNothing \/ RecoverFails
    BY <2>1, <2>4 DEF RecoverNothing, RecoverFails, Kept
  <2> QED
    BY <1>5, <2>2, <2>3, <2>4 DEF Recover
<1>6. CASE OpenStore
  <2>1. PICK f \in May("scan") : event_counter' = LastOf(Seen(f)) /\ Happened(f)
    BY <1>6 DEF OpenStore
  <2>2. f = {}
    BY <1>g, <2>1, FaultAdded DEF Happened, Kinds
  <2> QED
    BY <1>6, <2>1, <2>2 DEF OpenStore, Seen, LastNumber, Reset
<1>7. CASE Persist \/ PersistReturns \/ Snapshot \/ SnapshotReturns \/ BeginStop \/ AskPurge
  BY <1>7 DEF Persist, PersistReturns, Snapshot, SnapshotReturns, BeginStop, AskPurge, Idle, Kept
<1>8. CASE EndStop \/ Crash
  BY <1>8 DEF EndStop, Crash, Closed
<1>9. CASE UNCHANGED vars
  BY <1>9 DEF vars, Kept, Closed
<1> QED
  BY <1>1, <1>2, <1>3, <1>4, <1>5, <1>6, <1>7, <1>8, <1>9 DEF Next, StoreStep, ActorStep

\* The next number follows all the numbers given.
LEMMA NextIsNew ==
    ASSUME TypeInv, NumberInv, mode # "down"
    PROVE  LET next == NextNumber(DOMAIN events)
           IN  /\ next \in Nat /\ \A k \in DOMAIN events : k < next
               /\ DOMAIN events # {} => next = event_counter + 1
<1>1. event_counter \in Nat /\ \A k \in DOMAIN events : k \in Nat /\ k <= event_counter
  BY MaxEventsAssumption DEF TypeInv, TypeOK, NumberInv, Numbers
<1> QED
  BY <1>1 DEF NextNumber

LEMMA NumberStep ==
    ASSUME TypeInv, NumberInv, [Next]_vars, Guarded'
    PROVE  /\ NumberInv'
           /\ \A n \in DOMAIN events \cap DOMAIN events' : events'[n] = events[n]
<1>1. CASE Kept
  BY <1>1 DEF Kept, NumberInv
<1>2. CASE Closed
  BY <1>2 DEF Closed, NumberInv
<1>3. CASE Reset
  <2>1. /\ \A k \in DOMAIN events : k <= LastNumber
        /\ DOMAIN events # {} => LastNumber \in DOMAIN events
    BY LastIsLast DEF TypeInv, NumbersGiven
  <2> QED
    BY <1>3, <2>1 DEF Reset, NumberInv
<1>4. CASE NumberedNext
  <2>0. PICK next : next = NextNumber(DOMAIN events)
    OBVIOUS
  <2>1. /\ next \in Nat /\ (\A k \in DOMAIN events : k < next)
        /\ DOMAIN events # {} => next = event_counter + 1
    BY <1>4, <2>0, NextIsNew DEF NumberedNext
  <2>2. /\ DOMAIN events' = DOMAIN events \cup {next}
        /\ \A k \in DOMAIN events : events'[k] = events[k]
        /\ event_counter' = next /\ mode' # "down"
    <3>1. events' = Stored(next, issued) /\ event_counter' = next /\ mode' # "down"
      BY <1>4, <2>0 DEF NumberedNext
    <3>2. \A k \in DOMAIN events : k # next
      BY <2>1 DEF TypeInv, TypeOK, Numbers
    <3> QED
      BY <3>1, <3>2 DEF Stored
  <2>3. DOMAIN events \subseteq Nat
    BY MaxEventsAssumption DEF TypeInv, TypeOK, Numbers
  <2>4. \A n \in DOMAIN events' : n <= event_counter'
    BY <2>1, <2>2, <2>3
  <2>5. ASSUME NEW m \in DOMAIN events', NEW n \in DOMAIN events', NEW k \in m..n
        PROVE  k \in DOMAIN events'
    <3>1. CASE n \in DOMAIN events
      <4>1. m \in DOMAIN events
        BY <2>1, <2>2, <2>3, <2>5, <3>1
      <4> QED
        BY <2>2, <2>5, <3>1, <4>1 DEF NumberInv
    <3>2. CASE n = next /\ m = next
      BY <2>1, <2>2, <2>5, <3>2
    <3>3. CASE n = next /\ m \in DOMAIN events
      <4>1. event_counter \in DOMAIN events /\ next = event_counter + 1
        BY <1>4, <2>1, <3>3 DEF NumberedNext, NumberInv
      <4>2. CASE k = next
        BY <2>2, <4>2
      <4>3. CASE k # next
        <5>1. k \in m..event_counter
          BY <2>1, <2>3, <2>5, <3>3, <4>1, <4>3
        <5> QED
          BY <2>2, <3>3, <4>1, <5>1 DEF NumberInv
      <4> QED
        BY <4>2, <4>3
    <3> QED
      BY <2>2, <3>1, <3>2, <3>3
  <2> QED
    BY <2>2, <2>4, <2>5 DEF NumberInv
<1>5. CASE Emptied
  BY <1>5 DEF Emptied, NumberInv
<1> QED
  BY <1>1, <1>2, <1>3, <1>4, <1>5, NumberCases

LEMMA NumberInvariant == Spec => [](Guarded => NumberInv)
<1>1. Init => NumberInv
  BY DEF Init, NumberInv
<1>2. TypeInv /\ (Guarded => NumberInv) /\ [Next]_vars => (Guarded => NumberInv)'
  <2> SUFFICES ASSUME TypeInv, Guarded => NumberInv, [Next]_vars, Guarded' PROVE NumberInv'
    OBVIOUS
  <2>1. Guarded
    BY GuardStep DEF Guarded, Numbered
  <2> QED
    BY <2>1, NumberStep
<1> QED
  BY <1>1, <1>2, TypeInvariant, PTL DEF Spec

\* With Full persistence an event in the collection is never replaced by another:
\* Store::persist never gives a number twice while the first event is there,
\* however reads and writes fail and wherever the process dies. (Once a search for
\* the last event has failed this does not hold: it looks like an empty collection.)
THEOREM EventsNeverReplaced == Spec => NoOverwrite
<1>1. TypeInv /\ (Guarded => NumberInv) /\ [Next]_vars
         => [Numbered(type', faults') =>
                \A n \in DOMAIN events \cap DOMAIN events' : events'[n] = events[n]]_vars
  <2> SUFFICES ASSUME TypeInv, Guarded => NumberInv, [Next]_vars, Guarded'
               PROVE  \A n \in DOMAIN events \cap DOMAIN events' : events'[n] = events[n]
    BY DEF Guarded
  <2>1. Guarded
    BY GuardStep DEF Guarded, Numbered
  <2> QED
    BY <2>1, NumberStep
<1> QED
  BY <1>1, TypeInvariant, NumberInvariant, PTL DEF Spec, NoOverwrite

\* The event numbers have no gap, and the counter of a running store is the last of
\* them, for any number of events, crashes, purges and faults but a failed search.
THEOREM NumbersContiguous == Spec => []KeysContiguous
<1>1. TypeInv /\ (Guarded => NumberInv) => KeysContiguous
  <2> SUFFICES ASSUME TypeInv, NumberInv, Guarded
               PROVE  /\ \A n \in DOMAIN events : n..LastNumber \subseteq DOMAIN events
                      /\ mode \in {"up", "stopping"} /\ DOMAIN events # {} => event_counter = LastNumber
    BY DEF KeysContiguous, Guarded
  <2>1. /\ LastNumber \in Nat /\ \A k \in DOMAIN events : k <= LastNumber
        /\ DOMAIN events # {} => LastNumber \in DOMAIN events
    BY LastIsLast, MaxEventsAssumption DEF TypeInv, NumbersGiven, Numbers
  <2>2. event_counter \in Nat
    BY MaxEventsAssumption DEF TypeInv, TypeOK
  <2> QED
    BY <2>1, <2>2 DEF NumberInv
<1> QED
  BY <1>1, TypeInvariant, NumberInvariant, PTL

-----------------------------------------------------------------------------
(* The ways in which the actor's state, the stored state and the states on *)
(* their way to the store change.                                          *)

Steady == issued' = issued /\ (Pending' => Pending)

NoSaves == \A c \in Elements(queue') : c.op \notin Saves

Same == /\ Steady /\ UNCHANGED <<state, snapshot>>
        /\ mode' \in {"up", "stopping"} => mode \in {"up", "stopping"}
        /\ \A c \in Elements(queue') : c.op \in Saves => c \in Elements(queue)

Saved ==
    /\ Steady /\ queue # <<>> /\ Command.op \in Saves /\ UNCHANGED <<state, mode>>
    /\ snapshot' = [state |-> Command.state, counter |-> event_counter]
    /\ \A c \in Elements(queue') : c.op \in Saves => c \in Elements(Tail(queue))

NotFound ==
    /\ Steady /\ mode = "recovering" /\ UNCHANGED <<state, snapshot>>
    /\ snapshot = NoSnapshot \/ "get_state" \in faults' \/ ("replay" \in faults' /\ EventsToReplay)
    /\ \A c \in Elements(queue') : c.op \in Saves => c.state = state
    /\ \E c \in Elements(queue') : c.op = "Snapshot"

Found ==
    /\ Steady /\ mode = "recovering" /\ snapshot # NoSnapshot
    /\ state' = snapshot.state /\ snapshot' = snapshot /\ NoSaves
    /\ "scan" \notin faults' => DOMAIN events = {} \/ LastNumber = snapshot.counter

FoundWith(f, to) ==
    /\ Steady /\ EventsToReplay /\ (f = {} \/ "get_event" \in faults')
    /\ state' = snapshot.state \o Replayed(to)
    /\ snapshot' = [state |-> state', counter |-> LastNumber] /\ NoSaves

Issued ==
    /\ ~Pending /\ Pending' /\ issued' = issued + 1 /\ state' = Append(state, issued + 1)
    /\ mode = "up" /\ snapshot' = snapshot
    /\ \A c \in Elements(queue') : c.op \in Saves =>
          c \in Elements(queue) \/ (Light /\ c.op = "PersistLight" /\ c.state = state')

Asked ==
    /\ Steady /\ ~Pending /\ mode = "up" /\ UNCHANGED <<state, snapshot>>
    /\ \A c \in Elements(queue') : c.op \in Saves => c \in Elements(queue) \/ c.state = state

Gone ==
    /\ Steady /\ mode' \in {"down", "recovering"} /\ state' = <<>> /\ snapshot' = snapshot
    /\ NoSaves

Purged ==
    /\ Steady /\ UNCHANGED <<state, mode>> /\ snapshot' = NoSnapshot /\ "purge" \in faults
    /\ \A c \in Elements(queue') : c.op \in Saves => c \in Elements(queue)

LEMMA StateCases ==
    ASSUME TypeInv, [Next]_vars
    PROVE  \/ Same \/ Saved \/ NotFound \/ Found \/ Issued \/ Asked \/ Gone \/ Purged
           \/ \E f : \E to \in ReplayEnds(f) : FoundWith(f, to)
<1> USE DEF database, store, actor
<1>h. ASSUME queue # <<>>
      PROVE  /\ Command \in Commands /\ Fit(Command) /\ mode # "down"
             /\ Elements(queue) = Elements(Tail(queue)) \cup {Command}
             /\ \A c \in Elements(Tail(queue)) : Command.asked => c.op = "Purge"
  BY <1>h, HeadAndTail, ServingIsUp DEF TypeInv, QueueOK, Command
<1>a. ASSUME UNCHANGED <<call, issued>>, reply' = reply \/ reply' \in {"ok", "err"} PROVE Steady
  BY <1>a DEF Steady, Pending
<1>b. \A ok \in BOOLEAN : Answer(ok) => reply' = reply \/ reply' \in {"ok", "err"}
  BY DEF Answer
<1>r. ASSUME NEW op \in {"PutEvent", "PurgeStates"}, queue # <<>>,
             queue' = [queue EXCEPT ![1].op = op]
      PROVE  \A c \in Elements(queue') : c.op \in Saves => c \in Elements(Tail(queue))
  <2>0. PICK h : h = [Command EXCEPT !.op = op]
    OBVIOUS
  <2>1. Elements(queue') = Elements(Tail(queue)) \cup {h}
    BY <1>r, <2>0, Retagging DEF TypeInv, QueueOK, Command
  <2>2. h.op = op
    BY <1>h, <1>r, <2>0 DEF Commands
  <2> QED
    BY <2>1, <2>2 DEF Saves
<1>1. CASE HandlePersist \/ HandlePutEvent
  <2>1. /\ queue # <<>> /\ queue' = Tail(queue) /\ \E ok \in BOOLEAN : Answer(ok)
        /\ UNCHANGED <<snapshot, mode, state, call, issued>>
    BY <1>1 DEF HandlePersist, HandlePutEvent, Serve
  <2> QED
    BY <1>a, <1>b, <1>h, <2>1 DEF Same
<1>2. CASE HandleSnapshot
  <2>1. PICK f \in May(SnapshotFault) : PutSnapshot(Command.state, f = {}) /\ Answer(f = {})
    BY <1>2 DEF HandleSnapshot
  <2>2. /\ queue # <<>> /\ queue' = Tail(queue) /\ Command.op \in Saves
        /\ UNCHANGED <<mode, state, call, issued>>
    BY <1>2 DEF HandleSnapshot, Serve, Saves
  <2>3. Steady
    BY <1>a, <1>b, <2>1, <2>2
  <2>4. CASE f = {}
    BY <2>1, <2>2, <2>3, <2>4 DEF PutSnapshot, Saved
  <2>5. CASE f # {}
    BY <1>h, <2>1, <2>2, <2>3, <2>5 DEF PutSnapshot, Same
  <2> QED
    BY <2>4, <2>5
<1>3. CASE HandlePersistLight
  <2>1. PICK f \in May(SnapshotFault) :
           /\ PutSnapshot(LightState, f = {})
           /\ IF f = {} THEN /\ queue' = [queue EXCEPT ![1].op = "PutEvent"] /\ UNCHANGED reply
                        ELSE /\ queue' = Tail(queue) /\ Answer(FALSE)
    BY <1>3 DEF HandlePersistLight
  <2>2. /\ queue # <<>> /\ Command.op \in Saves /\ UNCHANGED <<mode, state, call, issued>>
    BY <1>3 DEF HandlePersistLight, Saves
  <2>3. Steady
    BY <1>a, <1>b, <2>1, <2>2
  <2>4. CASE f = {}
    <3>1. \A c \in Elements(queue') : c.op \in Saves => c \in Elements(Tail(queue))
      BY <1>r, <2>1, <2>2, <2>4
    <3> QED
      BY <2>1, <2>2, <2>3, <2>4, <3>1 DEF PutSnapshot, LightState, Saved
  <2>5. CASE f # {}
    BY <1>h, <2>1, <2>2, <2>3, <2>5 DEF PutSnapshot, Same
  <2> QED
    BY <2>4, <2>5
<1>4. CASE HandlePurge
  <2>1. queue # <<>> /\ UNCHANGED <<snapshot, mode, state, call, reply, issued>>
    BY <1>4 DEF HandlePurge
  <2>2. queue' = Tail(queue) \/ queue' = [queue EXCEPT ![1].op = "PurgeStates"]
    BY <1>4 DEF HandlePurge
  <2>3. \A c \in Elements(queue') : c.op \in Saves => c \in Elements(queue)
    BY <1>h, <1>r, <2>1, <2>2
  <2> QED
    BY <1>a, <2>1, <2>3 DEF Same
<1>5. CASE HandlePurgeStates
  <2>1. /\ queue # <<>> /\ queue' = Tail(queue) /\ Command.op = "PurgeStates"
        /\ UNCHANGED <<mode, state, call, reply, issued>> /\ snapshot' \in {NoSnapshot, snapshot}
    BY <1>5 DEF HandlePurgeStates, Serve
  <2>2. "purge" \in faults
    BY <1>h, <2>1 DEF Fit
  <2> QED
    BY <1>a, <1>h, <2>1, <2>2 DEF Same, Purged
<1>6. CASE Recover
  <2>1. /\ mode = "recovering" /\ mode' = "up" /\ call' = "none" /\ issued' = issued
        /\ queue # <<>> /\ Command.op = "Recover"
    BY <1>6 DEF Recover, RecoverNothing, RecoverState, RecoverAndReplay, ReplayFails,
       RecoverFails, EventsToReplay, Recovering, Started
  <2>2. Steady
    BY <2>1 DEF Steady, Pending
  <2>3. Command.asked
    BY <1>h, <2>1 DEF Fit
  <2>4. \A c \in Elements(Tail(queue)) : c.op = "Purge" /\ ~c.asked
    BY <1>h, <2>1, <2>3 DEF TypeInv, QueueOK, Fit, Awaited
  <2>5. ASSUME NotRecovered, snapshot' = snapshot,
               snapshot = NoSnapshot \/ "get_state" \in faults' \/ ("replay" \in faults' /\ EventsToReplay)
        PROVE  NotFound
    <3>0. PICK c : c = Tell(state)
      OBVIOUS
    <3>1. c \in Commands /\ c.op = "Snapshot" /\ c.state = state
      BY <3>0, MaxEventsAssumption DEF Tell, Commands, Ops, Numbers, TypeInv, TypeOK
    <3>2. queue' = Append(Tail(queue), c) /\ state' = state
      BY <2>5, <3>0 DEF NotRecovered
    <3>3. Tail(queue) \in Seq(Commands)
      BY <2>1, HeadAndTail DEF TypeInv, QueueOK
    <3>4. Elements(queue') = Elements(Tail(queue)) \cup {c}
      <4>1. PICK t \in Seq(Commands) : t = Tail(queue)
        BY <3>3
      <4>2. Elements(Append(t, c)) = Elements(t) \cup {c}
        BY <3>1, ElementsAdded
      <4> QED
        BY <3>2, <4>1, <4>2
    <3> QED
      BY <2>1, <2>2, <2>4, <2>5, <3>1, <3>2, <3>4 DEF NotFound, Saves
  <2>6. queue' = Tail(queue) => NoSaves
    BY <2>4 DEF NoSaves, Saves
  <2>7. CASE RecoverNothing \/ ReplayFails \/ RecoverFails
    BY <2>5, <2>7 DEF RecoverNothing, ReplayFails, RecoverFails, Happened
  <2>8. CASE RecoverState
    <3>1. PICK f \in May("scan") :
             (Seen(f) = {} \/ LastOf(Seen(f)) = snapshot.counter) /\ Happened(f)
      BY <2>8 DEF RecoverState
    <3>2. "scan" \notin faults' => DOMAIN events = {} \/ LastNumber = snapshot.counter
      <4>1. f = {} \/ f = {"scan"}
        BY FaultAdded DEF Kinds
      <4> QED
        BY <3>1, <4>1 DEF Happened, Seen, LastNumber
    <3> QED
      BY <2>1, <2>2, <2>6, <2>8, <3>2 DEF RecoverState, Recovered, Found
  <2>9. CASE RecoverAndReplay
    <3>1. PICK f \in May("get_event") : \E to \in ReplayEnds(f) :
             /\ Recovered(snapshot.state \o Replayed(to)) /\ Happened(f)
             /\ snapshot' = [state |-> snapshot.state \o Replayed(to), counter |-> LastNumber]
      BY <2>9 DEF RecoverAndReplay
    <3>2. PICK to \in ReplayEnds(f) :
             /\ Recovered(snapshot.state \o Replayed(to)) /\ Happened(f)
             /\ snapshot' = [state |-> snapshot.state \o Replayed(to), counter |-> LastNumber]
      BY <3>1
    <3>3. f = {} \/ f = {"get_event"}
      BY FaultAdded DEF Kinds
    <3>4. FoundWith(f, to)
      BY <2>2, <2>6, <2>9, <3>2, <3>3 DEF RecoverAndReplay, Recovered, Happened, FoundWith
    <3> QED
      BY <3>4
  <2> QED
    BY <1>6, <2>7, <2>8, <2>9 DEF Recover
<1>7. CASE OpenStore
  <2>0. PICK c : c = [op |-> "Recover", state |-> <<>>, event |-> 0, asked |-> TRUE]
    OBVIOUS
  <2>1. queue' = <<c>> /\ c.op = "Recover"
    BY <1>7, <2>0 DEF OpenStore
  <2>2. Elements(queue') = {c}
    BY <2>1 DEF Elements
  <2>3. NoSaves
    BY <2>1, <2>2 DEF NoSaves, Saves
  <2>4. Steady
    BY <1>7 DEF OpenStore, Steady, Pending
  <2> QED
    BY <1>7, <2>3, <2>4 DEF OpenStore, Gone
<1>8. CASE EndStop \/ Crash
  <2>1. NoSaves
    BY <1>8, ElementsEmpty DEF EndStop, Crash, NoSaves
  <2>2. Steady
    BY <1>8 DEF EndStop, Crash, Steady, Pending
  <2> QED
    BY <1>8, <2>1, <2>2 DEF EndStop, Crash, Gone
<1>p. ASSUME NEW what, NEW op \in Ops, NEW st \in Seq(Events), NEW e \in Numbers,
             Ask(what, op, st, e)
      PROVE  \A c \in Elements(queue') : c \in Elements(queue) \/ (c.op = op /\ c.state = st)
  <2>0. PICK c : c = [op |-> op, state |-> st, event |-> e, asked |-> TRUE]
    OBVIOUS
  <2>1. c \in Commands /\ c.op = op /\ c.state = st /\ queue' = Append(queue, c)
    BY <1>p, <2>0 DEF Commands, Ask
  <2>2. Elements(queue') = Elements(queue) \cup {c}
    BY <2>1, ElementsAdded DEF TypeInv, QueueOK
  <2> QED
    BY <2>1, <2>2
<1>9. CASE Persist
  <2>1. /\ mode = "up" /\ call = "none" /\ call' = "persist" /\ reply' = "none"
        /\ issued' = issued + 1 /\ state' = Append(state, issued + 1) /\ snapshot' = snapshot
    BY <1>9 DEF Persist, Idle, Ask
  <2>2. PICK op \in Ops : /\ op = IF Light THEN "PersistLight" ELSE "Persist"
                          /\ Ask("persist", op, state', issued + 1)
    BY <1>9 DEF Persist, Ops
  <2>3. PICK st : st = state'
    OBVIOUS
  <2>4. PICK e : e = issued + 1
    OBVIOUS
  <2>5. e \in Numbers /\ e \in Events
    BY <1>9, <2>4, MaxEventsAssumption DEF Persist, Numbers, Events, TypeInv, TypeOK
  <2>6. st \in Seq(Events)
    BY <2>1, <2>3, <2>4, <2>5 DEF TypeInv, TypeOK
  <2>7. Ask("persist", op, st, e)
    BY <2>2, <2>3, <2>4 DEF Ask
  <2>8. \A c \in Elements(queue') : c \in Elements(queue) \/ (c.op = op /\ c.state = st)
    BY <1>p, <2>5, <2>6, <2>7
  <2>9. op \in Saves => Light /\ op = "PersistLight"
    BY <2>2 DEF Saves
  <2> QED
    BY <2>1, <2>3, <2>8, <2>9 DEF Issued, Pending
<1>10. CASE Snapshot \/ (BeginStop /\ ~Light)
  <2>1. /\ mode = "up" /\ call = "none" /\ call' = "snapshot" /\ reply' = "none"
        /\ UNCHANGED <<issued, state, snapshot>> /\ Ask("snapshot", "Snapshot", state, 0)
    BY <1>10 DEF Snapshot, BeginStop, Idle, Ask
  <2>2. PICK st : st = state
    OBVIOUS
  <2>3. st \in Seq(Events) /\ 0 \in Numbers /\ "Snapshot" \in Ops
    BY <2>2, MaxEventsAssumption DEF TypeInv, TypeOK, Numbers, Ops
  <2>4. \A c \in Elements(queue') : c \in Elements(queue) \/ c.state = st
    BY <1>p, <2>1, <2>2, <2>3 DEF Ask
  <2> QED
    BY <2>1, <2>2, <2>4 DEF Asked, Steady, Pending
<1>11. CASE BeginStop /\ Light
  BY <1>11 DEF BeginStop, Idle, Same, Steady, Pending
<1>12. CASE PersistReturns \/ SnapshotReturns
  BY <1>12 DEF PersistReturns, SnapshotReturns, Same, Steady, Pending
<1>13. CASE AskPurge
  <2>0. PICK c : c = [op |-> "Purge", state |-> <<>>, event |-> 0, asked |-> FALSE]
    OBVIOUS
  <2>1. c \in Commands /\ c.op = "Purge"
    BY <2>0, MaxEventsAssumption DEF Commands, Ops, Numbers
  <2>2. queue' = Append(queue, c) /\ UNCHANGED <<snapshot, mode, state, call, reply, issued>>
    BY <1>13, <2>0 DEF AskPurge
  <2>3. Elements(queue') = Elements(queue) \cup {c}
    BY <2>1, <2>2, ElementsAdded DEF TypeInv, QueueOK
  <2> QED
    BY <1>a, <2>1, <2>2, <2>3 DEF Same, Saves
<1>14. CASE UNCHANGED vars
  BY <1>14 DEF vars, Same, Steady, Pending
<1> QED
  BY <1>1, <1>2, <1>3, <1>4, <1>5, <1>6, <1>7, <1>8, <1>9, <1>10, <1>11, <1>12, <1>13, <1>14
     DEF Next, StoreStep, ActorStep

-----------------------------------------------------------------------------
(* Events are applied in the order in which they were persisted.           *)

Increasing(s) == \A i, j \in 1..Len(s) : i < j => s[i] < s[j]

\* The event under way is later than e.
Before(e) == e <= issued /\ (Pending => e < issued)

\* Every state there is, is in order.
IncreasingInv ==
    /\ Increasing(state) /\ \A e \in Elements(state) : e <= issued
    /\ Increasing(snapshot.state) /\ \A e \in Elements(snapshot.state) : e <= issued
    /\ \A c \in Elements(queue) : c.op \in Saves => Increasing(c.state)

\* The events in the collection are in the order of their numbers, and those after the
\* snapshot's counter are later than what the snapshot has.
OrderInv ==
    /\ \A m, n \in DOMAIN events : m < n => events[m] < events[n]
    /\ \A n \in DOMAIN events : Before(events[n])
    /\ \A e \in Elements(snapshot.state) : Before(e)
    /\ \A c \in Elements(queue) : c.op \in Saves => \A e \in Elements(c.state) : Before(e)
    /\ \A n \in DOMAIN events : n > snapshot.counter =>
          \A e \in Elements(snapshot.state) : e < events[n]

\* With Light persistence there is one number, and the snapshot is never behind it.
LightInv == DOMAIN events \subseteq {0} /\ event_counter = 0 /\ snapshot.counter <= 0

LEMMA ConcatFacts ==
    ASSUME NEW s \in Seq(Events), NEW t \in Seq(Events)
    PROVE  /\ s \o t \in Seq(Events) /\ Elements(s \o t) = Elements(s) \cup Elements(t)
           /\ Elements(s) \subseteq Nat
           /\ Increasing(s) /\ Increasing(t) /\ (\A d \in Elements(s), e \in Elements(t) : d < e)
                 => Increasing(s \o t)
<1>0. PICK r : r = s \o t
  OBVIOUS
<1>1. /\ r \in Seq(Events) /\ Len(r) = Len(s) + Len(t) /\ Len(s) \in Nat /\ Len(t) \in Nat
      /\ \A i \in 1..Len(s) : r[i] = s[i]
      /\ \A i \in 1..Len(t) : r[Len(s) + i] = t[i]
  BY <1>0
<1>2. \A k \in 1..Len(r) : k \in 1..Len(s) \/ (k - Len(s) \in 1..Len(t) /\ k = Len(s) + (k - Len(s)))
  BY <1>1
<1>3. Elements(r) = Elements(s) \cup Elements(t)
  <2>1. ASSUME NEW x \in Elements(r) PROVE x \in Elements(s) \cup Elements(t)
    <3>1. PICK k \in 1..Len(r) : x = r[k]
      BY DEF Elements
    <3>2. CASE k \in 1..Len(s)
      BY <1>1, <3>1, <3>2 DEF Elements
    <3>3. CASE k - Len(s) \in 1..Len(t) /\ k = Len(s) + (k - Len(s))
      <4>1. x = t[k - Len(s)]
        BY <1>1, <3>1, <3>3
      <4> QED
        BY <3>3, <4>1 DEF Elements
    <3> QED
      BY <1>2, <3>2, <3>3
  <2>2. ASSUME NEW x \in Elements(s) PROVE x \in Elements(r)
    <3>1. PICK i \in 1..Len(s) : x = s[i]
      BY DEF Elements
    <3>2. i \in 1..Len(r) /\ r[i] = x
      BY <1>1, <3>1
    <3> QED
      BY <3>2 DEF Elements
  <2>3. ASSUME NEW x \in Elements(t) PROVE x \in Elements(r)
    <3>1. PICK i \in 1..Len(t) : x = t[i]
      BY DEF Elements
    <3>2. Len(s) + i \in 1..Len(r) /\ r[Len(s) + i] = x
      BY <1>1, <3>1
    <3> QED
      BY <3>2 DEF Elements
  <2> QED
    BY <2>1, <2>2, <2>3
<1>4. ASSUME Increasing(s), Increasing(t), \A d \in Elements(s), e \in Elements(t) : d < e
      PROVE  Increasing(r)
  <2> SUFFICES ASSUME NEW i \in 1..Len(r), NEW j \in 1..Len(r), i < j PROVE r[i] < r[j]
    BY DEF Increasing
  <2>1. CASE i \in 1..Len(s) /\ j \in 1..Len(s)
    BY <1>1, <1>4, <2>1 DEF Increasing
  <2>2. CASE i \in 1..Len(s) /\ j - Len(s) \in 1..Len(t) /\ j = Len(s) + (j - Len(s))
    <3>1. r[i] = s[i] /\ r[j] = t[j - Len(s)]
      BY <1>1, <2>2
    <3>2. r[i] \in Elements(s) /\ r[j] \in Elements(t)
      BY <2>2, <3>1 DEF Elements
    <3> QED
      BY <1>4, <3>2
  <2>3. CASE i - Len(s) \in 1..Len(t) /\ i = Len(s) + (i - Len(s))
             /\ j - Len(s) \in 1..Len(t) /\ j = Len(s) + (j - Len(s))
    <3>1. r[i] = t[i - Len(s)] /\ r[j] = t[j - Len(s)]
      BY <1>1, <2>3
    <3>2. i - Len(s) < j - Len(s)
      BY <1>1
    <3> QED
      BY <1>4, <2>3, <3>1, <3>2 DEF Increasing
  <2>4. ~(j \in 1..Len(s) /\ i \notin 1..Len(s))
    BY <1>1
  <2> QED
    BY <1>2, <2>1, <2>2, <2>3, <2>4
<1>5. Elements(s) \subseteq Nat
  BY MaxEventsAssumption DEF Elements, Events
<1> QED
  BY <1>0, <1>1, <1>3, <1>4, <1>5

LEMMA IncreasingAdded ==
    ASSUME NEW s \in Seq(Events), NEW e \in Events, Increasing(s), \A d \in Elements(s) : d < e
    PROVE  Increasing(Append(s, e))
<1>0. PICK r : r = Append(s, e)
  OBVIOUS
<1>1. /\ Len(r) = Len(s) + 1 /\ Len(s) \in Nat /\ r[Len(s) + 1] = e
      /\ \A i \in 1..Len(s) : r[i] = s[i]
  BY <1>0, AppendProperties
<1>2. ASSUME NEW i \in 1..Len(r), NEW j \in 1..Len(r), i < j PROVE r[i] < r[j]
  <2>1. i \in 1..Len(s) /\ r[i] = s[i] /\ s[i] \in Elements(s)
    BY <1>1, <1>2 DEF Elements
  <2>2. CASE j \in 1..Len(s)
    BY <1>1, <1>2, <2>1, <2>2 DEF Increasing
  <2>3. CASE j = Len(s) + 1
    BY <1>1, <2>1, <2>3
  <2> QED
    BY <1>1, <2>2, <2>3
<1> QED
  BY <1>0, <1>2 DEF Increasing

LEMMA IncreasingEmpty == Increasing(<<>>)
BY DEF Increasing

\* All states stay in order, if what a replay makes is.
LEMMA IncreasingStep ==
    ASSUME TypeInv, IncreasingInv, [Next]_vars,
           \A f : \A to \in ReplayEnds(f) : EventsToReplay =>
              /\ Increasing(snapshot.state \o Replayed(to))
              /\ \A e \in Elements(snapshot.state \o Replayed(to)) : e <= issued
    PROVE  IncreasingInv'
<1>t. /\ state \in Seq(Events) /\ issued \in Nat /\ (mode = "recovering" => state = <<>>)
      /\ \A c \in Elements(queue) : c.state \in Seq(Events) /\ Fit(c)
  <2>1. \A c \in Elements(queue) : c \in Commands
    BY DEF TypeInv, QueueOK, Elements
  <2> QED
    BY <2>1, MaxEventsAssumption DEF TypeInv, TypeOK, QueueOK, CallOK, Commands
<1>i. /\ Increasing(state) /\ (\A e \in Elements(state) : e <= issued)
      /\ Increasing(snapshot.state) /\ (\A e \in Elements(snapshot.state) : e <= issued)
      /\ \A c \in Elements(queue) : c.op \in Saves => Increasing(c.state)
  BY DEF IncreasingInv
<1>s. snapshot = NoSnapshot => snapshot.state = <<>>
  BY SnapshotType DEF TypeInv
<1>1. CASE Same
  BY <1>1, <1>i DEF Same, Steady, IncreasingInv
<1>2. CASE Saved
  <2>1. /\ Command \in Elements(queue) /\ Command.op \in Saves
        /\ \A c \in Elements(queue') : c.op \in Saves => c \in Elements(queue)
    BY <1>2, HeadAndTail DEF Saved, TypeInv, QueueOK, Command
  <2>2. snapshot'.state = Command.state /\ state' = state /\ issued' = issued
    BY <1>2 DEF Saved, Steady
  <2>3. \A e \in Elements(Command.state) : e <= issued
    BY <1>t, <1>i, <2>1 DEF Fit
  <2> QED
    BY <1>i, <2>1, <2>2, <2>3 DEF IncreasingInv
<1>3. CASE NotFound
  BY <1>3, <1>t, <1>i, IncreasingEmpty DEF NotFound, Steady, IncreasingInv
<1>4. CASE Found
  BY <1>4, <1>i DEF Found, Steady, NoSaves, IncreasingInv
<1>5. ASSUME NEW f, NEW to \in ReplayEnds(f), FoundWith(f, to) PROVE IncreasingInv'
  <2>1. /\ EventsToReplay /\ state' = snapshot.state \o Replayed(to) /\ issued' = issued
        /\ snapshot'.state = state' /\ NoSaves
    BY <1>5 DEF FoundWith, Steady
  <2>2. Increasing(state') /\ \A e \in Elements(state') : e <= issued'
    BY <2>1
  <2> QED
    BY <2>1, <2>2 DEF NoSaves, IncreasingInv
<1>6. CASE Issued
  <2>0. PICK e : e = issued + 1
    OBVIOUS
  <2>1. e \in Events /\ e = issued' /\ state' = Append(state, e) /\ snapshot' = snapshot
    <3>1. issued' = e /\ state' = Append(state, e) /\ snapshot' = snapshot
      BY <1>6, <2>0 DEF Issued
    <3>2. issued' \in 0..MaxEvents
      BY TypeStep DEF TypeInv, TypeOK
    <3> QED
      BY <1>t, <2>0, <3>1, <3>2, MaxEventsAssumption DEF Events
  <2>2. \A d \in Elements(state) : d \in Nat /\ d <= issued /\ d < e
    BY <1>t, <1>i, <2>0, ConcatFacts
  <2>3. Increasing(state') /\ Elements(state') = Elements(state) \cup {e}
    BY <1>t, <1>i, <2>1, <2>2, IncreasingAdded, ElementsAdded
  <2>4. \A d \in Elements(state') : d <= issued'
    BY <1>t, <2>0, <2>1, <2>2, <2>3
  <2>5. \A d \in Elements(snapshot.state) : d <= issued'
    <3>1. Elements(snapshot.state) \subseteq Nat
      BY ConcatFacts, SnapshotType DEF TypeInv
    <3> QED
      BY <1>t, <1>i, <2>0, <2>1, <3>1
  <2> QED
    BY <1>6, <1>i, <2>1, <2>3, <2>4, <2>5 DEF Issued, IncreasingInv
<1>7. CASE Asked
  BY <1>7, <1>i DEF Asked, Steady, IncreasingInv
<1>8. CASE Gone
  BY <1>8, <1>i, IncreasingEmpty, ElementsEmpty DEF Gone, Steady, NoSaves, IncreasingInv
<1>9. CASE Purged
  <2>1. snapshot'.state = <<>>
    BY <1>9 DEF Purged, NoSnapshot
  <2> QED
    BY <1>9, <1>i, <2>1, IncreasingEmpty, ElementsEmpty DEF Purged, Steady, IncreasingInv
<1> QED
  BY <1>1, <1>2, <1>3, <1>4, <1>5, <1>6, <1>7, <1>8, <1>9, StateCases

LEMMA LightHasNoReplay ==
    ASSUME TypeInv, LightInv
    PROVE  LastNumber = 0 /\ ~EventsToReplay
<1>1. /\ DOMAIN events # {} => LastNumber \in DOMAIN events
      /\ DOMAIN events = {} => LastNumber = 0
  BY LastIsLast DEF TypeInv, NumbersGiven
<1>2. LastNumber = 0
  BY <1>1 DEF LightInv
<1>3. snapshot # NoSnapshot => snapshot.counter = 0
  BY SnapshotType, MaxEventsAssumption DEF TypeInv, LightInv, Numbers
<1> QED
  BY <1>2, <1>3 DEF EventsToReplay

LEMMA LightStep ==
    ASSUME TypeInv, LightInv, Light, [Next]_vars
    PROVE  LightInv'
<1> USE DEF database, store, actor
<1>0. LastNumber = 0 /\ ~EventsToReplay
  BY LightHasNoReplay
<1>1. ASSUME UNCHANGED <<events, snapshot>>, event_counter' \in {0, event_counter, LastNumber}
      PROVE  LightInv'
  BY <1>0, <1>1 DEF LightInv
<1>2. CASE StoreStep
  <2>1. ~HandlePersist
    BY PersistFacts
  <2>s. ASSUME NEW st, NEW ok \in BOOLEAN, PutSnapshot(st, ok), UNCHANGED <<events, event_counter>>
        PROVE  LightInv'
    BY <2>s DEF PutSnapshot, LightInv
  <2>2. CASE HandleSnapshot
    BY <2>2, <2>s DEF HandleSnapshot
  <2>3. CASE HandlePersistLight
    BY <2>3, <2>s DEF HandlePersistLight
  <2>4. CASE HandlePutEvent
    <3>1. events' = Stored(0, Command.event) \/ events' = events
      BY <2>4 DEF HandlePutEvent, LightInv
    <3>2. DOMAIN events' \subseteq {0}
      BY <3>1 DEF Stored, LightInv
    <3> QED
      BY <2>4, <3>2 DEF HandlePutEvent, LightInv
  <2>5. CASE HandlePurge
    <3>1. DOMAIN events' \subseteq {0}
      BY <2>5 DEF HandlePurge, LightInv
    <3> QED
      BY <2>5, <3>1 DEF HandlePurge, LightInv
  <2>6. CASE HandlePurgeStates
    BY <2>6 DEF HandlePurgeStates, LightInv, NoSnapshot
  <2> QED
    BY <1>2, <2>1, <2>2, <2>3, <2>4, <2>5, <2>6 DEF StoreStep
<1>3. CASE Recover
  <2>1. CASE RecoverNothing \/ RecoverFails
    BY <1>1, <2>1 DEF RecoverNothing, RecoverFails, Started
  <2>2. CASE RecoverState
    <3>1. event_counter' \in {event_counter, LastNumber} /\ UNCHANGED <<events, snapshot>>
      BY <2>2 DEF RecoverState, Started, Seen, LastNumber
    <3> QED
      BY <1>1, <3>1
  <2> QED
    BY <1>0, <1>3, <2>1, <2>2 DEF Recover, RecoverAndReplay, ReplayFails
<1>4. CASE OpenStore
  <2>1. event_counter' \in {0, LastNumber}
    BY <1>4 DEF OpenStore, Seen, LastNumber, LastOf
  <2> QED
    BY <1>1, <1>4, <2>1 DEF OpenStore
<1>5. CASE Persist \/ PersistReturns \/ Snapshot \/ SnapshotReturns \/ BeginStop \/ AskPurge
  BY <1>1, <1>5 DEF Persist, PersistReturns, Snapshot, SnapshotReturns, BeginStop, AskPurge
<1>6. CASE EndStop \/ Crash
  BY <1>1, <1>6 DEF EndStop, Crash
<1>7. CASE UNCHANGED vars
  BY <1>1, <1>7 DEF vars
<1> QED
  BY <1>2, <1>3, <1>4, <1>5, <1>6, <1>7 DEF Next, ActorStep

\* What a replay makes of a snapshot is in order.
LEMMA ReplayInOrder ==
    ASSUME TypeInv, IncreasingInv, OrderInv, NEW f, NEW to \in ReplayEnds(f)
    PROVE  /\ Increasing(snapshot.state \o Replayed(to))
           /\ \A e \in Elements(snapshot.state \o Replayed(to)) : Before(e) /\ e <= issued
<1>1. PICK s \in Seq(Events) : s = snapshot.state
  BY SnapshotType DEF TypeInv
<1>2. PICK t \in Seq(Events) : t = Replayed(to)
  BY ReplayFacts
<1>3. /\ snapshot.counter \in Int /\ to \in Int /\ Len(t) = to - snapshot.counter
      /\ \A i \in 1..Len(t) : /\ snapshot.counter + i \in DOMAIN events
                              /\ t[i] = events[snapshot.counter + i]
  BY <1>2, ReplayFacts, SnapshotType DEF TypeInv
<1>4. Increasing(t)
  <2> SUFFICES ASSUME NEW i \in 1..Len(t), NEW j \in 1..Len(t), i < j PROVE t[i] < t[j]
    BY DEF Increasing
  <2>1. snapshot.counter + i < snapshot.counter + j
    BY <1>3
  <2> QED
    BY <1>3, <2>1 DEF OrderInv
<1>5. ASSUME NEW d \in Elements(s), NEW e \in Elements(t) PROVE d < e /\ Before(e)
  <2>1. PICK i \in 1..Len(t) : e = t[i]
    BY DEF Elements
  <2>2. snapshot.counter + i > snapshot.counter
    BY <1>3, <2>1
  <2> QED
    BY <1>1, <1>3, <2>1, <2>2 DEF OrderInv
<1>6. ASSUME NEW e \in Elements(t) PROVE Before(e)
  <2>1. PICK i \in 1..Len(t) : e = t[i]
    BY DEF Elements
  <2> QED
    BY <1>3, <2>1 DEF OrderInv
<1>7. Increasing(s) /\ \A e \in Elements(s) : Before(e)
  BY <1>1 DEF IncreasingInv, OrderInv
<1>8. Increasing(s \o t) /\ Elements(s \o t) = Elements(s) \cup Elements(t)
  BY <1>4, <1>5, <1>7, ConcatFacts
<1> QED
  BY <1>1, <1>2, <1>6, <1>7, <1>8 DEF Before

LEMMA OrderStep ==
    ASSUME TypeInv, NumberInv, IncreasingInv, OrderInv, [Next]_vars, Guarded'
    PROVE  OrderInv'
<1>g. ~Light
  BY GuardStep DEF Guarded, Numbered, Light
<1>t. /\ issued \in Nat
      /\ DOMAIN events \subseteq Nat /\ \A n \in DOMAIN events : events[n] \in Nat
      /\ \A e \in Elements(state) : e \in Nat /\ e <= issued
      /\ \A e \in Elements(snapshot.state) : e \in Nat
      /\ snapshot.counter \in Int /\ event_counter \in Nat
  <2>1. Elements(state) \subseteq Nat /\ Elements(snapshot.state) \subseteq Nat
    BY ConcatFacts, SnapshotType DEF TypeInv, TypeOK
  <2> QED
    BY <2>1, SnapshotType, MaxEventsAssumption
       DEF TypeInv, TypeOK, Numbers, Events, IncreasingInv
<1>c. \A c \in Elements(queue) : c.op \in Saves =>
         \A e \in Elements(c.state) : e \in Nat /\ e <= issued /\ Before(e)
  <2>1. \A c \in Elements(queue) : c.op \in Saves => Elements(c.state) \subseteq Elements(state)
    BY DEF TypeInv, QueueOK, Fit
  <2> QED
    BY <1>t, <2>1 DEF OrderInv
<1>o. /\ \A m, n \in DOMAIN events : m < n => events[m] < events[n]
      /\ \A n \in DOMAIN events : Before(events[n])
      /\ \A e \in Elements(snapshot.state) : Before(e)
      /\ \A n \in DOMAIN events : n > snapshot.counter =>
            \A e \in Elements(snapshot.state) : e < events[n]
  BY DEF OrderInv
<1>b. ASSUME NEW e \in Nat PROVE /\ Before(e) /\ (Steady \/ Issued) => Before(e)'
                                 /\ e <= issued /\ ~Pending /\ Steady => Before(e)'
                                 /\ e <= issued /\ Issued => Before(e)'
  BY <1>t DEF Before, Steady, Issued
<1>s. Steady \/ Issued
  BY StateCases DEF Same, Saved, NotFound, Found, FoundWith, Asked, Gone, Purged
<1>k. mode = "recovering" => ~Pending
  BY DEF TypeInv, CallOK, Pending
<1>r. ASSUME NEW f, NEW to \in ReplayEnds(f), FoundWith(f, to)
      PROVE  /\ \A e \in Elements(snapshot'.state) : e \in Nat /\ Before(e)'
             /\ snapshot'.counter = LastNumber /\ mode = "recovering" /\ Steady /\ NoSaves
  <2>0. PICK st : st = snapshot.state \o Replayed(to)
    OBVIOUS
  <2>1. /\ snapshot'.state = st /\ snapshot'.counter = LastNumber
        /\ EventsToReplay /\ Steady /\ NoSaves
    BY <1>r, <2>0 DEF FoundWith
  <2>2. Elements(st) \subseteq Nat
    BY <2>0, ConcatFacts, ReplayFacts, SnapshotType DEF TypeInv
  <2>3. \A e \in Elements(st) : Before(e)
    BY <2>0, ReplayInOrder
  <2> QED
    BY <1>b, <2>1, <2>2, <2>3 DEF EventsToReplay, Recovering
<1>h. ASSUME Saved
      PROVE  /\ Command \in Elements(queue) /\ Command.op \in Saves
             /\ snapshot'.state = Command.state /\ snapshot'.counter = event_counter
             /\ \A c \in Elements(queue') : c.op \in Saves => c \in Elements(queue)
  BY <1>h, HeadAndTail DEF Saved, TypeInv, QueueOK, Command
<1>p. Purged => Elements(snapshot'.state) = {}
  BY ElementsEmpty DEF Purged, NoSnapshot
<1>1. \A e \in Elements(snapshot'.state) : e \in Nat /\ Before(e)'
  <2>1. CASE snapshot' = snapshot
    BY <1>t, <1>o, <1>b, <1>s, <2>1
  <2>2. CASE Saved
    BY <1>c, <1>b, <1>h, <2>2 DEF Saved
  <2> QED
    BY <1>r, <1>p, <2>1, <2>2, StateCases DEF Same, NotFound, Found, Issued, Asked, Gone
<1>2. ASSUME NEW c \in Elements(queue'), c.op \in Saves
      PROVE  \A e \in Elements(c.state) : Before(e)'
  <2>1. CASE c \in Elements(queue)
    BY <1>2, <1>c, <1>b, <1>s, <2>1
  <2>2. CASE (NotFound \/ Asked) /\ c.state = state
    BY <1>t, <1>b, <1>k, <2>2 DEF NotFound, Asked
  <2> QED
    BY <1>2, <1>g, <1>h, <1>r, <2>1, <2>2, StateCases
       DEF Same, Saved, NotFound, Found, NoSaves, Issued, Asked, Gone, Purged
<1>n. ASSUME NEW n \in DOMAIN events, n > snapshot'.counter, NEW e \in Elements(snapshot'.state)
      PROVE  e < events[n]
  <2>1. CASE snapshot' = snapshot
    BY <1>n, <1>o, <2>1
  <2>2. CASE Saved
    <3>1. n <= event_counter
      BY <2>2, ServingIsUp DEF Saved, NumberInv
    <3> QED
      BY <1>n, <1>t, <1>h, <2>2, <3>1
  <2>3. ASSUME NEW f, NEW to \in ReplayEnds(f), FoundWith(f, to) PROVE FALSE
    <3>1. n <= LastNumber /\ LastNumber \in Nat
      BY LastIsLast, MaxEventsAssumption DEF TypeInv, NumbersGiven, Numbers
    <3>2. snapshot'.counter = LastNumber
      BY <1>r, <2>3
    <3> QED
      BY <1>n, <1>t, <3>1, <3>2
  <2> QED
    BY <1>n, <1>p, <2>1, <2>2, <2>3, StateCases DEF Same, NotFound, Found, Issued, Asked, Gone
<1>3. CASE events' = events
  <2>1. (\A n \in DOMAIN events : Before(events[n]))'
    BY <1>t, <1>o, <1>b, <1>s, <1>3 DEF Before
  <2> QED
    BY <1>o, <1>n, <1>1, <1>2, <1>3, <2>1 DEF OrderInv
<1>4. CASE NumberedNext
  <2>0. PICK next : next = NextNumber(DOMAIN events)
    OBVIOUS
  <2>1. next \in Nat /\ \A k \in DOMAIN events : k \in Nat /\ k < next
    BY <1>4, <1>t, <2>0, NextIsNew DEF NumberedNext
  <2>2. events' = Stored(next, issued) /\ Pending /\ ~Pending'
    BY <1>4, <2>0 DEF NumberedNext, Pending
  <2>3. /\ DOMAIN events' = DOMAIN events \cup {next} /\ events'[next] = issued
        /\ \A k \in DOMAIN events : events'[k] = events[k]
    BY <2>1, <2>2 DEF Stored
  <2>4. Steady /\ issued' = issued
    BY <1>s, <2>2 DEF Issued, Steady
  <2>5. /\ \A k \in DOMAIN events : events[k] < issued
        /\ \A e \in Elements(snapshot.state) : e < issued
        /\ \A c \in Elements(queue) : c.op \in Saves => \A e \in Elements(c.state) : e < issued
    BY <1>c, <1>o, <2>2 DEF Before
  <2>6. \A m, n \in DOMAIN events' : m < n => events'[m] < events'[n]
    BY <1>o, <2>1, <2>3, <2>5
  <2>7. (\A n \in DOMAIN events : Before(events[n]))'
    <3>1. \A n \in DOMAIN events' : events'[n] <= issued
      BY <1>t, <2>3, <2>5
    <3> QED
      BY <2>2, <2>4, <3>1 DEF Before
  <2>8. \A e \in Elements(snapshot'.state) : e < issued
    <3>1. CASE Saved
      BY <1>h, <2>5, <3>1
    <3>2. ~\E f : \E to \in ReplayEnds(f) : FoundWith(f, to)
      BY <1>k, <1>r, <2>2
    <3> QED
      BY <1>p, <2>5, <3>1, <3>2, StateCases DEF Same, NotFound, Found, Issued, Asked, Gone
  <2>9. \A n \in DOMAIN events' : n > snapshot'.counter =>
           \A e \in Elements(snapshot'.state) : e < events'[n]
    BY <1>n, <2>3, <2>8
  <2> QED
    BY <1>1, <1>2, <2>6, <2>7, <2>9 DEF OrderInv
<1>5. CASE Emptied
  BY <1>1, <1>2, <1>5 DEF Emptied, OrderInv
<1> QED
  BY <1>3, <1>4, <1>5, NumberCases DEF Kept, Closed, Reset

LEMMA OrderInvariant == Spec => [](Guarded => IncreasingInv /\ OrderInv)
<1>1. Init => IncreasingInv /\ OrderInv
  <2> SUFFICES ASSUME Init PROVE IncreasingInv /\ OrderInv
    OBVIOUS
  <2>1. /\ DOMAIN events = {} /\ snapshot.state = <<>> /\ state = <<>> /\ Elements(<<>>) = {}
        /\ Elements(queue) = {}
    BY ElementsEmpty DEF Init, NoSnapshot
  <2> QED
    BY <2>1, IncreasingEmpty DEF IncreasingInv, OrderInv
<1>2. TypeInv /\ (Guarded => NumberInv) /\ (Guarded => IncreasingInv /\ OrderInv) /\ [Next]_vars
         => (Guarded => IncreasingInv /\ OrderInv)'
  <2> SUFFICES ASSUME TypeInv, Guarded => NumberInv, Guarded => IncreasingInv /\ OrderInv,
                      [Next]_vars, Guarded'
               PROVE  IncreasingInv' /\ OrderInv'
    OBVIOUS
  <2>1. Guarded
    BY GuardStep DEF Guarded, Numbered
  <2>2. IncreasingInv'
    BY <2>1, IncreasingStep, ReplayInOrder
  <2> QED
    BY <2>1, <2>2, OrderStep
<1> QED
  BY <1>1, <1>2, TypeInvariant, NumberInvariant, PTL DEF Spec

LEMMA LightInvariant == Spec => [](Light => LightInv /\ IncreasingInv)
<1>1. Init => LightInv /\ IncreasingInv
  <2> SUFFICES ASSUME Init PROVE LightInv /\ IncreasingInv
    OBVIOUS
  <2>1. /\ DOMAIN events = {} /\ snapshot.state = <<>> /\ state = <<>> /\ Elements(<<>>) = {}
        /\ Elements(queue) = {} /\ event_counter = 0 /\ snapshot.counter = -1
    BY ElementsEmpty DEF Init, NoSnapshot
  <2> QED
    BY <2>1, IncreasingEmpty DEF IncreasingInv, LightInv
<1>2. TypeInv /\ (Light => LightInv /\ IncreasingInv) /\ [Next]_vars
         => (Light => LightInv /\ IncreasingInv)'
  <2> SUFFICES ASSUME TypeInv, Light => LightInv /\ IncreasingInv, [Next]_vars, Light'
               PROVE  LightInv' /\ IncreasingInv'
    OBVIOUS
  <2>1. Light
    BY GuardStep DEF Light
  <2>2. IncreasingInv'
    BY <2>1, IncreasingStep, LightHasNoReplay
  <2> QED
    BY <2>1, <2>2, LightStep
<1> QED
  BY <1>1, <1>2, TypeInvariant, PTL DEF Spec

\* recover never applies an event twice nor out of order, for any number of events,
\* crashes and faults: the events after a snapshot's counter are later than what the
\* snapshot has, because a state on its way to the store was taken before the event
\* under way was issued. (With Full persistence, as long as no search failed.)
THEOREM StateIncreasing == Spec => []IncreasingState
<1>1. TypeInv /\ (Guarded => IncreasingInv /\ OrderInv) /\ (Light => LightInv /\ IncreasingInv)
         => IncreasingState
  BY TypesAssumption DEF TypeInv, TypeOK, Guarded, Numbered, Light, IncreasingState,
     IncreasingInv, Increasing
<1> QED
  BY <1>1, TypeInvariant, OrderInvariant, LightInvariant, PTL

-----------------------------------------------------------------------------
(* What is acknowledged survives, as long as faults are harmless.          *)

Sound == faults \subseteq Harmless

\* No state there is lacks an event of the stored one.
GrowInv ==
    /\ mode \in {"up", "stopping"} => Elements(snapshot.state) \subseteq Elements(state)
    /\ \A c \in Elements(queue) : c.op \in Saves =>
          Elements(snapshot.state) \subseteq Elements(c.state)

LEMMA SoundStep ==
    ASSUME [Next]_vars, Sound'
    PROVE  Sound /\ "purge" \notin faults' /\ "get_state" \notin faults'
BY GuardStep DEF Sound, Harmless, Light

LEMMA GrowStep ==
    ASSUME TypeInv, GrowInv, Light => LightInv, [Next]_vars, Sound'
    PROVE  GrowInv' /\ Elements(snapshot.state) \subseteq Elements(snapshot'.state)
<1>f. /\ Sound /\ "purge" \notin faults' /\ "purge" \notin faults /\ "get_state" \notin faults'
      /\ ~Light => "replay" \notin faults'
  BY SoundStep, GuardStep DEF Sound, Harmless, Light
<1>g. /\ mode \in {"up", "stopping"} => Elements(snapshot.state) \subseteq Elements(state)
      /\ \A c \in Elements(queue) : c.op \in Saves =>
            Elements(snapshot.state) \subseteq Elements(c.state)
  BY DEF GrowInv
<1>1. CASE Same
  BY <1>1, <1>g DEF Same, GrowInv
<1>2. CASE Saved
  <2>1. /\ Command \in Elements(queue) /\ Command.op \in Saves /\ Fit(Command)
        /\ \A c \in Elements(Tail(queue)) : c.op \in Saves =>
              Elements(Command.state) \subseteq Elements(c.state)
    BY <1>2, HeadAndTail DEF Saved, TypeInv, QueueOK, Command
  <2>2. /\ snapshot'.state = Command.state /\ state' = state
        /\ \A c \in Elements(queue') : c.op \in Saves => c \in Elements(Tail(queue))
    BY <1>2 DEF Saved
  <2>3. Elements(Command.state) \subseteq Elements(state)
    BY <2>1 DEF Fit
  <2> QED
    BY <1>g, <2>1, <2>2, <2>3 DEF GrowInv
<1>3. CASE NotFound
  <2>1. snapshot = NoSnapshot
    BY <1>3, <1>f, LightHasNoReplay DEF NotFound
  <2>2. snapshot'.state = <<>> /\ snapshot.state = <<>>
    BY <1>3, <2>1 DEF NotFound, NoSnapshot
  <2> QED
    BY <2>2, ElementsEmpty DEF GrowInv
<1>4. CASE Found
  BY <1>4 DEF Found, NoSaves, GrowInv
<1>5. ASSUME NEW f, NEW to \in ReplayEnds(f), FoundWith(f, to)
      PROVE  GrowInv' /\ Elements(snapshot.state) \subseteq Elements(snapshot'.state)
  <2>1. Elements(snapshot.state) \subseteq Elements(snapshot.state \o Replayed(to))
    BY ConcatFacts, ReplayFacts, SnapshotType DEF TypeInv
  <2>2. state' = snapshot.state \o Replayed(to) /\ snapshot'.state = state' /\ NoSaves
    BY <1>5 DEF FoundWith
  <2> QED
    BY <2>1, <2>2 DEF NoSaves, GrowInv
<1>6. CASE Issued
  <2>0. PICK e : e = issued + 1
    OBVIOUS
  <2>1. e \in Events
    <3>1. issued' = e
      BY <1>6, <2>0 DEF Issued
    <3>2. issued' \in 0..MaxEvents /\ issued \in 0..MaxEvents
      BY TypeStep DEF TypeInv, TypeOK
    <3> QED
      BY <2>0, <3>1, <3>2, MaxEventsAssumption DEF Events
  <2>2. Elements(state) \subseteq Elements(state')
    <3>1. state' = Append(state, e) /\ state \in Seq(Events)
      BY <1>6, <2>0 DEF Issued, TypeInv, TypeOK
    <3> QED
      BY <2>1, <3>1, ElementsAdded
  <2> QED
    BY <1>6, <1>g, <2>2 DEF Issued, GrowInv
<1>7. CASE Asked
  BY <1>7, <1>g DEF Asked, GrowInv
<1>8. CASE Gone
  BY <1>8 DEF Gone, NoSaves, GrowInv
<1>9. ~Purged
  BY <1>f DEF Purged
<1> QED
  BY <1>1, <1>2, <1>3, <1>4, <1>5, <1>6, <1>7, <1>8, <1>9, StateCases

LEMMA GrowInvariant == Spec => [](Sound => GrowInv)
<1>1. Init => GrowInv
  BY ElementsEmpty DEF Init, GrowInv
<1>2. TypeInv /\ (Light => LightInv /\ IncreasingInv) /\ (Sound => GrowInv) /\ [Next]_vars
         => (Sound => GrowInv)'
  BY SoundStep, GrowStep
<1> QED
  BY <1>1, <1>2, TypeInvariant, LightInvariant, PTL DEF Spec

\* No start, snapshot or replay has the stored state replaced by one that lacks some
\* of its events, for any number of events and crashes: states reach the database in
\* the order in which the actor had them, and a start that finds a state to recover
\* never tells the store its initial one.
THEOREM StoredStateGrows == Spec => SnapshotNeverShrinks
<1>1. TypeInv /\ (Light => LightInv /\ IncreasingInv) /\ (Sound => GrowInv) /\ [Next]_vars
         => [faults' \subseteq Harmless =>
                Elements(snapshot.state) \subseteq Elements(snapshot'.state)]_vars
  <2> SUFFICES ASSUME TypeInv, Light => LightInv, Sound => GrowInv, [Next]_vars,
                      faults' \subseteq Harmless
               PROVE  Elements(snapshot.state) \subseteq Elements(snapshot'.state)
    OBVIOUS
  <2>1. Sound'
    BY GuardStep DEF Sound, Harmless, Light
  <2> QED
    BY <2>1, SoundStep, GrowStep
<1> QED
  BY <1>1, TypeInvariant, LightInvariant, GrowInvariant, PTL DEF Spec, SnapshotNeverShrinks

\* The events whose persist has been answered or will be with what is under way: who
\* adds to them, and when.
LEMMA AckCases ==
    ASSUME TypeInv, [Next]_vars
    PROVE  /\ acked' = acked \/ (call = "persist" /\ reply = "ok" /\ acked' = acked \cup {issued})
           /\ call' = "persist" /\ reply' = "ok" =>
                 /\ call = "persist" /\ issued' = issued
                 /\ reply = "ok" \/ HandlePersist \/ HandlePutEvent
<1> USE DEF database, store, actor
<1>1. CASE HandlePersist \/ HandlePutEvent
  BY <1>1 DEF HandlePersist, HandlePutEvent
<1>2. CASE HandleSnapshot
  <2>1. queue # <<>> /\ Command.op = "Snapshot" /\ UNCHANGED <<call, issued, acked>>
    BY <1>2 DEF HandleSnapshot, Serve
  <2>2. Fit(Command)
    BY <2>1, HeadAndTail DEF TypeInv, QueueOK, Command
  <2>3. call = "persist" => ~Command.asked
    BY <2>1, <2>2 DEF Fit, Awaited
  <2>4. ~Command.asked => reply' = reply
    BY <1>2 DEF HandleSnapshot, Answer
  <2> QED
    BY <2>1, <2>3, <2>4
<1>3. CASE HandlePersistLight
  <2>1. reply' \in {reply, "err"} /\ UNCHANGED <<call, issued, acked>>
    BY <1>3 DEF HandlePersistLight, Answer
  <2> QED
    BY <2>1
<1>4. CASE HandlePurge \/ HandlePurgeStates
  BY <1>4 DEF HandlePurge, HandlePurgeStates
<1>5. CASE Recover
  BY <1>5 DEF Recover, RecoverNothing, RecoverState, RecoverAndReplay, ReplayFails,
     RecoverFails, Started
<1>6. CASE OpenStore \/ Persist \/ Snapshot \/ BeginStop \/ EndStop \/ AskPurge \/ Crash
  BY <1>6 DEF OpenStore, Persist, Snapshot, BeginStop, EndStop, AskPurge, Crash, Ask, Idle
<1>7. CASE PersistReturns \/ SnapshotReturns
  BY <1>7 DEF PersistReturns, SnapshotReturns
<1>8. CASE UNCHANGED vars
  BY <1>8 DEF vars
<1> QED
  BY <1>1, <1>2, <1>3, <1>4, <1>5, <1>6, <1>7, <1>8 DEF Next, StoreStep, ActorStep

-----------------------------------------------------------------------------
(* Full persistence, while no search for the last event has failed and     *)
(* nobody has purged the store: what was acknowledged is in the collection.*)

\* An event is in the collection before its persist is answered.
StoredInv ==
    /\ acked \subseteq StoredEvents
    /\ call = "persist" /\ reply = "ok" => issued \in StoredEvents

\* Neither of the two has happened.
Retained == Guarded /\ "purge" \notin faults

LEMMA StoredStep ==
    ASSUME TypeInv, NumberInv, StoredInv, [Next]_vars, Retained'
    PROVE  StoredInv'
<1>1. events' = events \/ NumberedNext
  BY NumberCases DEF Retained, Kept, Closed, Reset, Emptied
<1>2. ASSUME NumberedNext
      PROVE  StoredEvents \subseteq StoredEvents' /\ issued \in StoredEvents'
  <2>0. PICK next : next = NextNumber(DOMAIN events)
    OBVIOUS
  <2>1. mode # "down" /\ events' = Stored(next, issued)
    BY <1>2, <2>0 DEF NumberedNext
  <2>2. next \in Nat /\ (\A k \in DOMAIN events : k < next) /\ DOMAIN events \subseteq Nat
    BY <2>0, <2>1, NextIsNew, MaxEventsAssumption DEF TypeInv, TypeOK, Numbers
  <2>3. /\ DOMAIN events' = DOMAIN events \cup {next} /\ events'[next] = issued
        /\ \A k \in DOMAIN events : events'[k] = events[k]
    BY <2>1, <2>2 DEF Stored
  <2> QED
    BY <2>3 DEF StoredEvents
<1>3. StoredEvents \subseteq StoredEvents'
  BY <1>1, <1>2 DEF StoredEvents
<1>4. acked' \subseteq StoredEvents'
  BY <1>3, AckCases DEF StoredInv
<1>5. ASSUME call' = "persist", reply' = "ok" PROVE issued' \in StoredEvents'
  <2>1. /\ call = "persist" /\ issued' = issued
        /\ reply = "ok" \/ HandlePersist \/ HandlePutEvent
    BY <1>5, AckCases
  <2>2. CASE reply = "ok"
    BY <1>3, <2>1, <2>2 DEF StoredInv
  <2>3. CASE HandlePersist
    <3>1. PICK f \in May("scan"), g \in May("put_event") :
             /\ g = {} => events' = Stored(NextNumber(Seen(f)), issued)
             /\ g # {} => reply' = "err"
      BY <2>3, PersistFacts
    <3>2. issued \in StoredEvents'
      BY <1>5, <3>1 DEF Stored, StoredEvents
    <3> QED
      BY <2>1, <3>2
  <2>4. ~HandlePutEvent
    <3>1. ASSUME HandlePutEvent PROVE FALSE
      <4>1. queue # <<>> /\ Command.op = "PutEvent"
        BY <3>1 DEF HandlePutEvent, Serve
      <4>2. Fit(Command)
        BY <4>1, HeadAndTail DEF TypeInv, QueueOK, Command
      <4>3. ~Light
        BY GuardStep DEF Retained, Guarded, Numbered, Light
      <4> QED
        BY <4>1, <4>2, <4>3 DEF Fit, Awaited
    <3> QED
      BY <3>1
  <2> QED
    BY <2>1, <2>2, <2>3, <2>4
<1> QED
  BY <1>4, <1>5 DEF StoredInv

\* With Full persistence, for any number of events, crashes and faults: while no search
\* for the last event fails and nobody purges the store, an event whose persist returned
\* Ok is in the collection, also after recoveries that failed or were cut short.
THEOREM AcknowledgedStored == Spec => []AckedStored
<1>1. Init => StoredInv
  BY DEF Init, StoredInv
<1>2. /\ TypeInv /\ (Guarded => NumberInv) /\ (Retained => StoredInv) /\ [Next]_vars
      => (Retained => StoredInv)'
  <2> SUFFICES ASSUME TypeInv, Guarded => NumberInv, Retained => StoredInv, [Next]_vars, Retained'
               PROVE  StoredInv'
    OBVIOUS
  <2>1. Retained
    BY GuardStep DEF Retained, Guarded, Numbered
  <2> QED
    BY <2>1, StoredStep DEF Retained
<1>3. (Retained => StoredInv) => AckedStored
  BY DEF Retained, Guarded, StoredInv, AckedStored
<1> QED
  BY <1>1, <1>2, <1>3, TypeInvariant, NumberInvariant, PTL DEF Spec

-----------------------------------------------------------------------------
\* With Light persistence the event under way is in the stored state before the event
\* itself is written, and with that before the answer.
LightSurvive ==
    /\ acked \subseteq Elements(snapshot.state)
    /\ call = "persist" /\ reply = "ok" => issued \in Elements(snapshot.state)
    /\ \A c \in Elements(queue) :
          /\ c.op = "PutEvent" => issued \in Elements(snapshot.state)
          /\ c.op = "PersistLight" => issued \in Elements(c.state)

\* Where the commands of a Light persist come from.
LEMMA LightCommands ==
    ASSUME TypeInv, [Next]_vars, NEW c \in Elements(queue'), c.op \in {"PutEvent", "PersistLight"}
    PROVE  \/ c \in Elements(queue) /\ issued' = issued
           \/ /\ c.op = "PutEvent" /\ issued' = issued /\ snapshot'.state = Command.state
              /\ Command \in Elements(queue) /\ Command.op = "PersistLight"
           \/ c.op = "PersistLight" /\ issued' \in Elements(c.state)
<1> USE DEF database, store, actor
<1>h. ASSUME queue # <<>>
      PROVE  /\ Command \in Commands /\ Fit(Command) /\ Command \in Elements(queue)
             /\ Elements(queue) = Elements(Tail(queue)) \cup {Command}
  BY <1>h, HeadAndTail DEF TypeInv, QueueOK, Command
<1>r. ASSUME NEW op \in {"PutEvent", "PurgeStates"}, queue # <<>>,
             queue' = [queue EXCEPT ![1].op = op]
      PROVE  c \in Elements(Tail(queue)) \/ c.op = op
  <2>0. PICK h : h = [Command EXCEPT !.op = op]
    OBVIOUS
  <2>1. Elements(queue') = Elements(Tail(queue)) \cup {h}
    BY <1>r, <2>0, Retagging DEF TypeInv, QueueOK, Command
  <2>2. h.op = op
    BY <1>h, <1>r, <2>0 DEF Commands
  <2> QED
    BY <2>1, <2>2
<1>1. CASE HandlePersist \/ HandlePutEvent \/ HandleSnapshot \/ HandlePurgeStates
  <2>1. queue # <<>> /\ queue' = Tail(queue) /\ issued' = issued
    BY <1>1 DEF HandlePersist, HandlePutEvent, HandleSnapshot, HandlePurgeStates, Serve
  <2> QED
    BY <1>h, <2>1
<1>2. CASE HandlePersistLight
  <2>1. PICK f \in May(SnapshotFault) :
           /\ PutSnapshot(LightState, f = {})
           /\ IF f = {} THEN queue' = [queue EXCEPT ![1].op = "PutEvent"]
                        ELSE queue' = Tail(queue)
    BY <1>2 DEF HandlePersistLight
  <2>2. queue # <<>> /\ Command.op = "PersistLight" /\ issued' = issued
    BY <1>2 DEF HandlePersistLight
  <2>3. CASE f = {}
    <3>1. snapshot'.state = Command.state
      BY <2>1, <2>3 DEF PutSnapshot, LightState
    <3>2. c \in Elements(Tail(queue)) \/ c.op = "PutEvent"
      BY <1>r, <2>1, <2>2, <2>3
    <3> QED
      BY <1>h, <2>2, <3>1, <3>2
  <2>4. CASE f # {}
    BY <1>h, <2>1, <2>2, <2>4
  <2> QED
    BY <2>3, <2>4
<1>3. CASE HandlePurge
  <2>1. queue # <<>> /\ issued' = issued
    BY <1>3 DEF HandlePurge
  <2>2. queue' = Tail(queue) \/ queue' = [queue EXCEPT ![1].op = "PurgeStates"]
    BY <1>3 DEF HandlePurge
  <2> QED
    BY <1>h, <1>r, <2>1, <2>2
<1>a. ASSUME NEW S, NEW q \in Seq(S), NEW d \in S, queue' = Append(q, d),
             d.op \notin {"PutEvent", "PersistLight"}
      PROVE  c \in Elements(q)
  <2>1. Elements(queue') = Elements(q) \cup {d}
    BY <1>a, ElementsAdded
  <2> QED
    BY <1>a, <2>1
<1>4. CASE Recover
  <2>1. /\ queue # <<>> /\ issued' = issued
        /\ queue' = Tail(queue) \/ queue' = Append(Tail(queue), Tell(state))
    BY <1>4 DEF Recover, RecoverNothing, RecoverState, RecoverAndReplay, ReplayFails,
       RecoverFails, EventsToReplay, Recovering, Started, Recovered, NotRecovered
  <2>2. CASE queue' = Append(Tail(queue), Tell(state))
    <3>0. PICK d : d = Tell(state)
      OBVIOUS
    <3>1. d \in Commands /\ d.op = "Snapshot"
      BY <3>0, MaxEventsAssumption DEF Tell, Commands, Ops, Numbers, TypeInv, TypeOK
    <3>2. PICK t \in Seq(Commands) : t = Tail(queue)
      BY <2>1, HeadAndTail DEF TypeInv, QueueOK
    <3>3. c \in Elements(t)
      BY <1>a, <2>2, <3>0, <3>1, <3>2
    <3> QED
      BY <1>h, <2>1, <3>2, <3>3
  <2> QED
    BY <1>h, <2>1, <2>2
<1>5. CASE OpenStore
  <2>0. PICK d : d = [op |-> "Recover", state |-> <<>>, event |-> 0, asked |-> TRUE]
    OBVIOUS
  <2>1. queue' = <<d>> /\ d.op = "Recover"
    BY <1>5, <2>0 DEF OpenStore
  <2>2. Elements(queue') = {d}
    BY <2>1 DEF Elements
  <2> QED
    BY <2>1, <2>2
<1>6. CASE EndStop \/ Crash
  BY <1>6, ElementsEmpty DEF EndStop, Crash
<1>7. CASE Snapshot \/ (BeginStop /\ ~Light)
  <2>0. PICK d : d = [op |-> "Snapshot", state |-> state, event |-> 0, asked |-> TRUE]
    OBVIOUS
  <2>1. queue' = Append(queue, d) /\ issued' = issued
    BY <1>7, <2>0 DEF Snapshot, BeginStop, Ask
  <2>2. d \in Commands /\ d.op = "Snapshot"
    BY <2>0, MaxEventsAssumption DEF Commands, Ops, Numbers, TypeInv, TypeOK
  <2> QED
    BY <1>a, <2>1, <2>2 DEF TypeInv, QueueOK
<1>8. CASE AskPurge
  <2>0. PICK d : d = [op |-> "Purge", state |-> <<>>, event |-> 0, asked |-> FALSE]
    OBVIOUS
  <2>1. queue' = Append(queue, d) /\ issued' = issued
    BY <1>8, <2>0 DEF AskPurge
  <2>2. d \in Commands /\ d.op = "Purge"
    BY <2>0, MaxEventsAssumption DEF Commands, Ops, Numbers
  <2> QED
    BY <1>a, <2>1, <2>2 DEF TypeInv, QueueOK
<1>9. CASE PersistReturns \/ SnapshotReturns \/ (BeginStop /\ Light)
  BY <1>9 DEF PersistReturns, SnapshotReturns, BeginStop
<1>10. CASE Persist
  <2>1. Issued
    BY <1>10, StateCases DEF Persist, Same, Saved, NotFound, Found, FoundWith, Asked, Gone, Purged, Steady, TypeInv, TypeOK
  <2>2. c \notin Elements(queue)
    <3>1. call = "none"
      BY <1>10 DEF Persist, Idle
    <3>2. ASSUME c \in Elements(queue) PROVE FALSE
      <4>1. Fit(c)
        BY <3>2 DEF TypeInv, QueueOK
      <4> QED
        BY <3>1, <4>1 DEF Fit, Awaited
    <3> QED
      BY <3>2
  <2>3. c.state = state' /\ c.op = "PersistLight"
    <3>0. PICK st : st = state'
      OBVIOUS
    <3>1. PICK op \in Ops : /\ op = IF Light THEN "PersistLight" ELSE "Persist"
                            /\ Ask("persist", op, state', issued + 1)
      BY <1>10 DEF Persist, Ops
    <3>2. PICK e : e = issued + 1
      OBVIOUS
    <3>3. PICK d : d = [op |-> op, state |-> st, event |-> e, asked |-> TRUE]
      OBVIOUS
    <3>4. queue' = Append(queue, d) /\ issued' = e
      BY <1>10, <3>0, <3>1, <3>2, <3>3 DEF Ask, Persist
    <3>5. d \in Commands
      <4>1. issued' \in Numbers /\ state' \in Seq(Events)
        BY TypeStep DEF TypeInv, TypeOK, Numbers
      <4> QED
        BY <3>0, <3>3, <3>4, <4>1 DEF Commands
    <3>6. c = d
      BY <2>2, <3>4, <3>5, ElementsAdded DEF TypeInv, QueueOK
    <3> QED
      BY <3>0, <3>1, <3>3, <3>6
  <2>4. issued' \in Elements(state')
    <3>0. PICK e : e = issued + 1
      OBVIOUS
    <3>1. issued' = e /\ state' = Append(state, e) /\ issued' \in 0..MaxEvents
      BY <2>1, <3>0, TypeStep DEF Issued, TypeInv, TypeOK
    <3>2. e \in Events
      BY <3>0, <3>1, MaxEventsAssumption DEF Events, TypeInv, TypeOK
    <3> QED
      BY <3>1, <3>2, ElementsAdded DEF TypeInv, TypeOK
  <2> QED
    BY <2>3, <2>4
<1>11. CASE UNCHANGED vars
  BY <1>11 DEF vars
<1> QED
  BY <1>1, <1>2, <1>3, <1>4, <1>5, <1>6, <1>7, <1>8, <1>9, <1>10, <1>11
     DEF Next, StoreStep, ActorStep

LEMMA LightSurviveStep ==
    ASSUME TypeInv, LightInv, GrowInv, LightSurvive, Light, [Next]_vars, Sound'
    PROVE  LightSurvive'
<1>g. Elements(snapshot.state) \subseteq Elements(snapshot'.state)
  BY GrowStep
<1>l. /\ acked \subseteq Elements(snapshot.state)
      /\ call = "persist" /\ reply = "ok" => issued \in Elements(snapshot.state)
      /\ \A c \in Elements(queue) :
            /\ c.op = "PutEvent" => issued \in Elements(snapshot.state)
            /\ c.op = "PersistLight" => issued \in Elements(c.state)
  BY DEF LightSurvive
<1>1. acked' \subseteq Elements(snapshot'.state)
  BY <1>g, <1>l, AckCases
<1>2. ASSUME call' = "persist", reply' = "ok" PROVE issued' \in Elements(snapshot'.state)
  <2>1. issued' = issued /\ call = "persist" /\ (reply = "ok" \/ HandlePutEvent)
    BY <1>2, AckCases, PersistFacts
  <2>2. CASE HandlePutEvent
    <3>1. queue # <<>> /\ Command.op = "PutEvent"
      BY <2>2 DEF HandlePutEvent, Serve
    <3>2. Command \in Elements(queue)
      BY <3>1, HeadAndTail DEF TypeInv, QueueOK, Command
    <3> QED
      BY <1>g, <1>l, <2>1, <3>1, <3>2
  <2> QED
    BY <1>g, <1>l, <2>1, <2>2
<1>3. ASSUME NEW c \in Elements(queue')
      PROVE  /\ c.op = "PutEvent" => issued' \in Elements(snapshot'.state)
             /\ c.op = "PersistLight" => issued' \in Elements(c.state)
  BY <1>g, <1>l, LightCommands
<1> QED
  BY <1>1, <1>2, <1>3 DEF LightSurvive

\* Every event in the collection but the first is in st.
Holds(st) == \A n \in DOMAIN events : n # 0 => events[n] \in Elements(st)

\* With Full persistence what is acknowledged is in the collection, and what the
\* collection has, but for the first event, is in every state that is or may become
\* the actor's: in the stored one up to its counter.
FullSurvive ==
    /\ acked \subseteq StoredEvents
    /\ call = "persist" /\ reply = "ok" => issued \in StoredEvents
    /\ \A n \in DOMAIN events : n # 0 /\ n <= snapshot.counter =>
          events[n] \in Elements(snapshot.state)
    /\ mode \in {"up", "stopping"} => Holds(state)
    /\ \A c \in Elements(queue) : c.op = "Snapshot" => Holds(c.state)
    /\ Pending => issued \in Elements(state)

\* No event is stored before a first state is, and the first event has number 0.
FirstStored ==
    /\ snapshot = NoSnapshot => DOMAIN events = {}
    /\ mode \in {"up", "stopping"} /\ snapshot = NoSnapshot =>
          \E c \in Elements(queue) : c.op = "Snapshot"
    /\ snapshot.counter <= 0 \/ snapshot.counter \in DOMAIN events
    /\ DOMAIN events # {} => 0 \in DOMAIN events
    /\ mode # "down" /\ DOMAIN events = {} => event_counter = 0

\* The first state told to the store stays in its mailbox until it is stored.
LEMMA FirstSnapshotWaits ==
    ASSUME TypeInv, [Next]_vars, snapshot = NoSnapshot, snapshot' = NoSnapshot,
           "first_snapshot" \notin faults',
           mode \in {"up", "stopping"}, mode' \in {"up", "stopping"},
           NEW c \in Elements(queue), c.op = "Snapshot"
    PROVE  c \in Elements(queue')
<1> USE DEF database, store, actor
<1>h. ASSUME queue # <<>>
      PROVE  Elements(queue) = Elements(Tail(queue)) \cup {Command} /\ Command \in Commands
  BY <1>h, HeadAndTail DEF TypeInv, QueueOK, Command
<1>n. event_counter # -1 /\ NoSnapshot.counter = -1
  BY MaxEventsAssumption DEF TypeInv, TypeOK, NoSnapshot
<1>f. ASSUME NEW f \in May(SnapshotFault), NEW st, PutSnapshot(st, f = {}), Happened(f)
      PROVE  FALSE
  <2>1. SnapshotFault = "first_snapshot"
    BY DEF SnapshotFault
  <2>2. f = {} \/ "first_snapshot" \in faults'
    BY <1>f, <2>1, FaultAdded DEF Kinds, Happened
  <2>3. f # {}
    BY <1>f, <1>n DEF PutSnapshot
  <2> QED
    BY <2>2, <2>3
<1>r. ASSUME NEW op \in {"PutEvent", "PurgeStates"}, queue # <<>>,
             queue' = [queue EXCEPT ![1].op = op]
      PROVE  Elements(Tail(queue)) \subseteq Elements(queue')
  BY <1>r, Retagging DEF TypeInv, QueueOK
<1>1. CASE HandlePersist \/ HandlePutEvent \/ HandlePurgeStates
  <2>1. queue # <<>> /\ queue' = Tail(queue) /\ Command.op # "Snapshot"
    BY <1>1 DEF HandlePersist, HandlePutEvent, HandlePurgeStates, Serve
  <2> QED
    BY <1>h, <2>1
<1>2. ~HandleSnapshot /\ ~HandlePersistLight
  BY <1>f DEF HandleSnapshot, HandlePersistLight
<1>3. CASE HandlePurge
  <2>1. queue # <<>> /\ Command.op = "Purge"
    BY <1>3 DEF HandlePurge
  <2>2. queue' = Tail(queue) \/ queue' = [queue EXCEPT ![1].op = "PurgeStates"]
    BY <1>3 DEF HandlePurge
  <2> QED
    BY <1>h, <1>r, <2>1, <2>2
<1>4. ~Recover
  BY DEF Recover, RecoverNothing, RecoverState, RecoverAndReplay, ReplayFails,
     RecoverFails, EventsToReplay, Recovering
<1>5. ~OpenStore /\ ~EndStop /\ ~Crash
  BY DEF OpenStore, EndStop, Crash
<1>a. ASSUME NEW d \in Commands, queue' = Append(queue, d) PROVE c \in Elements(queue')
  BY <1>a, ElementsAdded DEF TypeInv, QueueOK
<1>6. CASE Persist
  <2>1. PICK op \in Ops : Ask("persist", op, state', issued')
    BY <1>6 DEF Persist, Ops, Ask
  <2>2. PICK d : d = [op |-> op, state |-> state', event |-> issued', asked |-> TRUE]
    OBVIOUS
  <2>3. d \in Commands
    BY <2>2, TypeStep DEF TypeInv, TypeOK, Numbers, Commands
  <2> QED
    BY <1>a, <2>1, <2>2, <2>3 DEF Ask
<1>7. CASE Snapshot \/ (BeginStop /\ ~Light)
  <2>0. PICK d : d = [op |-> "Snapshot", state |-> state, event |-> 0, asked |-> TRUE]
    OBVIOUS
  <2>1. queue' = Append(queue, d)
    BY <1>7, <2>0 DEF Snapshot, BeginStop, Ask
  <2>2. d \in Commands
    BY <2>0, MaxEventsAssumption DEF Commands, Ops, Numbers, TypeInv, TypeOK
  <2> QED
    BY <1>a, <2>1, <2>2
<1>8. CASE AskPurge
  <2>0. PICK d : d = [op |-> "Purge", state |-> <<>>, event |-> 0, asked |-> FALSE]
    OBVIOUS
  <2>1. queue' = Append(queue, d)
    BY <1>8, <2>0 DEF AskPurge
  <2>2. d \in Commands
    BY <2>0, MaxEventsAssumption DEF Commands, Ops, Numbers
  <2> QED
    BY <1>a, <2>1, <2>2
<1>9. CASE PersistReturns \/ SnapshotReturns \/ (BeginStop /\ Light) \/ UNCHANGED vars
  BY <1>9 DEF PersistReturns, SnapshotReturns, BeginStop, vars
<1> QED
  BY <1>1, <1>2, <1>3, <1>4, <1>5, <1>6, <1>7, <1>8, <1>9 DEF Next, StoreStep, ActorStep

\* A replay that meets no fault ends at the last event: it leaves no event out.
LEMMA ReplayComplete ==
    ASSUME TypeInv, NumberInv, FullSurvive, FirstStored, snapshot # NoSnapshot,
           NEW to \in ReplayEnds({})
    PROVE  Holds(snapshot.state \o Replayed(to))
<1>1. PICK s \in Seq(Events) : s = snapshot.state
  BY SnapshotType DEF TypeInv
<1>2. PICK t \in Seq(Events) : t = Replayed(to)
  BY ReplayFacts
<1>3. PICK k \in Nat : k = snapshot.counter
  BY SnapshotType, MaxEventsAssumption DEF TypeInv, Numbers
<1>4. /\ to \in Int /\ to >= k /\ Len(t) = to - k
      /\ \A i \in 1..(to - k) : t[i] = events[k + i]
      /\ to >= LastNumber \/ to + 1 \notin DOMAIN events
  BY <1>2, <1>3, ReplayFacts
<1>5. Elements(s \o t) = Elements(s) \cup Elements(t)
  BY ConcatFacts
<1>6. ASSUME NEW n \in DOMAIN events, n # 0 PROVE events[n] \in Elements(s) \cup Elements(t)
  <2>1. n \in Nat /\ n <= LastNumber /\ LastNumber \in DOMAIN events /\ LastNumber \in Nat
    BY LastIsLast, MaxEventsAssumption DEF TypeInv, TypeOK, NumbersGiven, Numbers
  <2>2. CASE n <= k
    BY <1>1, <1>3, <1>6, <2>2 DEF FullSurvive
  <2>3. CASE n > k
    <3>1. n <= to
      <4>1. ASSUME to < n PROVE FALSE
        <5>1. 0 \in DOMAIN events /\ 0..LastNumber \subseteq DOMAIN events
          BY <2>1 DEF NumberInv, FirstStored
        <5>2. to + 1 \in 0..LastNumber
          BY <1>4, <2>1, <4>1
        <5> QED
          BY <1>4, <2>1, <4>1, <5>1, <5>2
      <4> QED
        BY <1>4, <2>1, <4>1
    <3>2. PICK i \in 1..(to - k) : i = n - k
      BY <1>4, <2>1, <2>3, <3>1
    <3>3. t[i] = events[n] /\ i \in 1..Len(t)
      BY <1>4, <2>1, <3>2
    <3> QED
      BY <3>3 DEF Elements
  <2> QED
    BY <2>1, <2>2, <2>3
<1> QED
  BY <1>1, <1>2, <1>5, <1>6 DEF Holds

\* The same after a step.
HoldsNext(st) == \A n \in DOMAIN events' : n # 0 => events'[n] \in Elements(st)

LEMMA FullSurviveStep ==
    ASSUME TypeInv, NumberInv, GrowInv, FullSurvive, FirstStored, ~Light, [Next]_vars, Sound'
    PROVE  FullSurvive' /\ FirstStored'
<1>f. /\ Guarded' /\ {"first_snapshot", "get_state", "get_event", "replay", "scan", "purge"} \cap faults' = {}
      /\ "purge" \notin faults
  <2>1. type = "Full" /\ type' = type /\ faults \subseteq faults'
    BY GuardStep, TypesAssumption DEF TypeInv, TypeOK, Light
  <2>2. faults' \subseteq {"put_event", "put_snapshot"}
    BY <2>1 DEF Sound, Harmless, Light
  <2> QED
    BY <2>1, <2>2 DEF Guarded, Numbered
<1>t. /\ issued \in Nat /\ event_counter \in Nat /\ DOMAIN events \subseteq Nat
      /\ snapshot.counter \in Int
      /\ \A n \in DOMAIN events : n <= LastNumber
      /\ DOMAIN events # {} => LastNumber \in DOMAIN events
      /\ DOMAIN events = {} => LastNumber = 0
      /\ LastNumber \in Nat
      /\ snapshot = NoSnapshot => snapshot.counter = -1
  BY LastIsLast, SnapshotType, MaxEventsAssumption DEF TypeInv, TypeOK, NumbersGiven, Numbers
<1>i. /\ acked \subseteq StoredEvents
      /\ call = "persist" /\ reply = "ok" => issued \in StoredEvents
      /\ \A n \in DOMAIN events : n # 0 /\ n <= snapshot.counter =>
            events[n] \in Elements(snapshot.state)
      /\ mode \in {"up", "stopping"} => Holds(state)
      /\ \A c \in Elements(queue) : c.op = "Snapshot" => Holds(c.state)
      /\ Pending => issued \in Elements(state)
  BY DEF FullSurvive
<1>j. /\ snapshot = NoSnapshot => DOMAIN events = {}
      /\ mode \in {"up", "stopping"} /\ snapshot = NoSnapshot =>
            \E c \in Elements(queue) : c.op = "Snapshot"
      /\ snapshot.counter <= 0 \/ snapshot.counter \in DOMAIN events
      /\ DOMAIN events # {} => 0 \in DOMAIN events
      /\ mode # "down" /\ DOMAIN events = {} => event_counter = 0
  BY DEF FirstStored
<1>p. Pending => mode = "up"
  BY DEF TypeInv, CallOK, Pending
<1>c. \A c \in Elements(queue) : c.op # "PersistLight"
  BY DEF TypeInv, QueueOK, Fit, Awaited
<1>e. events' = events \/ NumberedNext
  BY <1>f, NumberCases DEF Kept, Closed, Reset, Emptied
<1>n. ASSUME NumberedNext
      PROVE  /\ \E next \in Nat : /\ DOMAIN events' = DOMAIN events \cup {next}
                                  /\ events'[next] = issued
                                  /\ \A k \in DOMAIN events : k < next
                                  /\ DOMAIN events = {} => next = 0
                                  /\ event_counter < next \/ next = 0
             /\ \A k \in DOMAIN events : events'[k] = events[k]
  <2>0. PICK next : next = NextNumber(DOMAIN events)
    OBVIOUS
  <2>1. mode # "down" /\ events' = Stored(next, issued)
    BY <1>n, <2>0 DEF NumberedNext
  <2>2. /\ next \in Nat /\ (\A k \in DOMAIN events : k < next)
        /\ DOMAIN events # {} => next = event_counter + 1
    BY <2>0, <2>1, NextIsNew
  <2>3. DOMAIN events = {} => next = 0
    BY <1>j, <2>0, <2>1 DEF NextNumber
  <2>4. /\ DOMAIN events' = DOMAIN events \cup {next} /\ events'[next] = issued
        /\ \A k \in DOMAIN events : events'[k] = events[k]
    BY <1>t, <2>1, <2>2 DEF Stored
  <2> QED
    BY <1>t, <2>2, <2>3, <2>4
<1>g. /\ DOMAIN events \subseteq DOMAIN events'
      /\ \A k \in DOMAIN events : events'[k] = events[k]
  BY <1>e, <1>n
<1>v. StoredEvents \subseteq StoredEvents'
  BY <1>g DEF StoredEvents
<1>x. NumberedNext => issued \in StoredEvents'
  BY <1>n DEF StoredEvents
<1>h. ASSUME NEW st, Holds(st), ~NumberedNext \/ issued \in Elements(st)
      PROVE  HoldsNext(st)
  <2>1. CASE events' = events
    BY <1>h, <2>1 DEF Holds, HoldsNext
  <2>2. CASE NumberedNext
    BY <1>h, <1>n, <2>2 DEF Holds, HoldsNext
  <2> QED
    BY <1>e, <2>1, <2>2
<1>q. NumberedNext => /\ Pending /\ ~Pending' /\ mode' = mode
                      /\ \A c \in Elements(queue) \cup Elements(queue') : c.op # "Snapshot"
  BY DEF NumberedNext, Pending, Saves
<1>r. mode = "recovering" => ~NumberedNext
  BY <1>p, <1>q
\* The cases of a recovery, and of a save.
<1>w. ASSUME NEW f, NEW to \in ReplayEnds(f), FoundWith(f, to)
      PROVE  /\ Holds(state') /\ HoldsNext(state') /\ snapshot'.state = state'
             /\ snapshot'.counter = LastNumber /\ DOMAIN events # {} /\ NoSaves /\ Steady
             /\ ~NumberedNext /\ mode = "recovering"
  <2>0. PICK st : st = snapshot.state \o Replayed(to)
    OBVIOUS
  <2>1. /\ f = {} /\ snapshot # NoSnapshot /\ mode = "recovering" /\ state' = st
        /\ snapshot'.state = state' /\ snapshot'.counter = LastNumber
        /\ DOMAIN events # {} /\ NoSaves /\ Steady
    BY <1>w, <1>f, <2>0 DEF FoundWith, EventsToReplay, Recovering
  <2>2. Holds(st)
    BY <2>0, <2>1, ReplayComplete
  <2> QED
    BY <1>h, <1>r, <2>1, <2>2
<1>y. ASSUME Found PROVE Holds(state') /\ snapshot' # NoSnapshot
  <2>1. /\ state' = snapshot.state /\ (DOMAIN events = {} \/ LastNumber = snapshot.counter)
        /\ snapshot' # NoSnapshot
    BY <1>y, <1>f DEF Found
  <2> QED
    BY <1>i, <1>t, <2>1 DEF Holds
<1>z. ASSUME NotFound PROVE DOMAIN events = {} /\ mode = "recovering" /\ ~NumberedNext
  <2>1. snapshot = NoSnapshot
    BY <1>z, <1>f DEF NotFound
  <2> QED
    BY <1>z, <1>j, <1>r, <2>1 DEF NotFound
<1>k. ASSUME Saved
      PROVE  /\ Holds(Command.state) /\ snapshot'.state = Command.state
             /\ snapshot'.counter = event_counter /\ mode # "down" /\ ~NumberedNext
             /\ \A c \in Elements(queue') : c.op \in Saves => c \in Elements(queue)
  <2>1. /\ Command \in Elements(queue) /\ Command.op \in Saves
        /\ \A c \in Elements(queue') : c.op \in Saves => c \in Elements(queue)
    BY <1>k, HeadAndTail DEF Saved, TypeInv, QueueOK, Command
  <2>2. Command.op = "Snapshot"
    BY <1>c, <2>1 DEF Saves
  <2> QED
    BY <1>i, <1>k, <1>q, <2>1, <2>2, ServingIsUp DEF Saved
<1>u. ~Purged
  BY <1>f DEF Purged
\* The conjuncts of FullSurvive.
<1>1. acked' \subseteq StoredEvents'
  BY <1>i, <1>v, AckCases
<1>2. ASSUME call' = "persist", reply' = "ok" PROVE issued' \in StoredEvents'
  <2>1. issued' = issued /\ call = "persist" /\ (reply = "ok" \/ HandlePersist \/ HandlePutEvent)
    BY <1>2, AckCases
  <2>2. CASE HandlePersist
    <3>1. PICK g \in May("put_event") : \E f \in May("scan") :
             /\ g = {} => events' = Stored(NextNumber(Seen(f)), issued)
             /\ g # {} => reply' = "err"
      BY <2>2, PersistFacts
    <3>2. PICK f \in May("scan") :
             /\ g = {} => events' = Stored(NextNumber(Seen(f)), issued)
             /\ g # {} => reply' = "err"
      BY <3>1
    <3>3. events' = Stored(NextNumber(Seen(f)), issued)
      BY <1>2, <3>2
    <3> QED
      BY <2>1, <3>3 DEF Stored, StoredEvents
  <2>3. ~HandlePutEvent
    <3>1. ASSUME HandlePutEvent PROVE FALSE
      <4>1. queue # <<>> /\ Command.op = "PutEvent"
        BY <3>1 DEF HandlePutEvent, Serve
      <4>2. Fit(Command)
        BY <4>1, HeadAndTail DEF TypeInv, QueueOK, Command
      <4> QED
        BY <4>1, <4>2 DEF Fit, Awaited
    <3> QED
      BY <3>1
  <2> QED
    BY <1>i, <1>v, <2>1, <2>2, <2>3
<1>3. ASSUME NEW n \in DOMAIN events', n # 0, n <= snapshot'.counter
      PROVE  events'[n] \in Elements(snapshot'.state)
  <2>1. CASE snapshot' = snapshot
    <3>1. n \in DOMAIN events
      <4>1. CASE NumberedNext
        <5>1. PICK next \in Nat : /\ DOMAIN events' = DOMAIN events \cup {next}
                                  /\ \A k \in DOMAIN events : k < next
          BY <1>n, <4>1
        <5>2. n # next
          BY <1>3, <1>j, <1>t, <2>1, <5>1
        <5> QED
          BY <1>3, <5>1, <5>2
      <4> QED
        BY <1>e, <1>3, <4>1
    <3> QED
      BY <1>3, <1>g, <1>i, <2>1, <3>1
  <2>2. CASE Saved
    BY <1>3, <1>e, <1>k, <2>2 DEF Holds
  <2> QED
    BY <1>3, <1>u, <1>w, <2>1, <2>2, StateCases
       DEF HoldsNext, Same, NotFound, Found, Issued, Asked, Gone
<1>4. ASSUME mode' \in {"up", "stopping"} PROVE HoldsNext(state')
  <2>1. CASE Same \/ Saved \/ Asked
    <3>1. mode \in {"up", "stopping"} /\ state' = state
      BY <1>4, <2>1 DEF Same, Saved, Asked
    <3> QED
      BY <1>h, <1>i, <1>q, <3>1
  <2>2. CASE NotFound
    BY <1>e, <1>z, <2>2 DEF HoldsNext
  <2>3. CASE Found
    BY <1>h, <1>r, <1>y, <2>3 DEF Found
  <2>4. CASE Issued
    <3>0. PICK e : e = issued + 1
      OBVIOUS
    <3>1. /\ state' = Append(state, e) /\ issued' = e /\ mode = "up" /\ ~Pending
          /\ issued' \in 0..MaxEvents
      BY <2>4, <3>0, TypeStep DEF Issued, TypeInv, TypeOK
    <3>2. e \in Events
      BY <1>t, <3>0, <3>1, MaxEventsAssumption DEF Events
    <3>3. Elements(state') = Elements(state) \cup {e}
      BY <3>1, <3>2, ElementsAdded DEF TypeInv, TypeOK
    <3>4. Holds(state) /\ events' = events
      BY <1>e, <1>i, <1>q, <3>1
    <3> QED
      BY <3>3, <3>4 DEF Holds, HoldsNext
  <2> QED
    BY <1>4, <1>u, <1>w, <2>1, <2>2, <2>3, <2>4, StateCases DEF Gone
<1>5. ASSUME NEW c \in Elements(queue'), c.op = "Snapshot" PROVE HoldsNext(c.state)
  <2>0. c.op \in Saves /\ ~NumberedNext /\ events' = events
    BY <1>5, <1>e, <1>q DEF Saves
  <2>1. CASE c \in Elements(queue)
    BY <1>5, <1>h, <1>i, <2>0, <2>1
  <2>2. CASE NotFound
    BY <1>z, <2>0, <2>2 DEF HoldsNext
  <2>3. CASE Asked /\ c.state = state
    BY <1>h, <1>i, <2>0, <2>3 DEF Asked
  <2> QED
    BY <1>5, <1>k, <1>u, <1>w, <2>0, <2>1, <2>2, <2>3, StateCases
       DEF Same, Found, NoSaves, Issued, Asked, Gone
<1>6. ASSUME Pending' PROVE issued' \in Elements(state')
  <2>1. mode' = "up"
    BY <1>6, TypeStep DEF TypeInv, CallOK, Pending
  <2>2. CASE Issued
    <3>0. PICK e : e = issued + 1
      OBVIOUS
    <3>1. state' = Append(state, e) /\ issued' = e /\ issued' \in 0..MaxEvents
      BY <2>2, <3>0, TypeStep DEF Issued, TypeInv, TypeOK
    <3>2. e \in Events
      BY <1>t, <3>0, <3>1, MaxEventsAssumption DEF Events
    <3> QED
      BY <3>1, <3>2, ElementsAdded DEF TypeInv, TypeOK
  <2>3. CASE Steady
    <3>1. Pending /\ issued' = issued /\ mode = "up"
      BY <1>6, <1>p, <2>3 DEF Steady
    <3>2. state' = state
      BY <1>u, <1>w, <2>1, <3>1, StateCases DEF Same, Saved, NotFound, Found, Issued, Asked, Gone
    <3> QED
      BY <1>i, <3>1, <3>2
  <2> QED
    BY <1>u, <2>2, <2>3, StateCases DEF Same, Saved, NotFound, Found, FoundWith, Asked, Gone
<1>7. FullSurvive'
  <2>1. /\ (mode' \in {"up", "stopping"} => Holds(state)')
        /\ \A c \in Elements(queue') : c.op = "Snapshot" => Holds(c.state)'
    BY <1>4, <1>5 DEF Holds, HoldsNext
  <2> QED
    BY <1>1, <1>2, <1>3, <1>6, <2>1 DEF FullSurvive
\* The conjuncts of FirstStored.
<1>8. snapshot' = NoSnapshot => snapshot = NoSnapshot
  <2>1. NoSnapshot.counter = -1
    BY DEF NoSnapshot
  <2> QED
    BY <1>k, <1>t, <1>u, <1>w, <2>1, StateCases DEF Same, NotFound, Found, Issued, Asked, Gone
<1>9. snapshot' = NoSnapshot => DOMAIN events' = {}
  BY <1>8, <1>e, <1>j, <1>p, <1>q
<1>10. ASSUME mode' \in {"up", "stopping"}, snapshot' = NoSnapshot
       PROVE  \E c \in Elements(queue') : c.op = "Snapshot"
  <2>1. CASE mode \in {"up", "stopping"}
    BY <1>8, <1>10, <1>f, <1>j, <2>1, FirstSnapshotWaits
  <2>2. CASE mode \notin {"up", "stopping"}
    <3>1. NoSnapshot.counter = -1
      BY DEF NoSnapshot
    <3> QED
      BY <1>10, <1>t, <1>u, <1>w, <1>y, <2>2, <3>1, StateCases DEF Same, Saved, NotFound, Issued, Asked, Gone
  <2> QED
    BY <2>1, <2>2
<1>11. snapshot'.counter <= 0 \/ snapshot'.counter \in DOMAIN events'
  <2>1. CASE snapshot' = snapshot
    BY <1>g, <1>j, <2>1
  <2>2. CASE Saved
    <3>1. snapshot'.counter = event_counter /\ mode # "down"
      BY <1>k, <2>2
    <3>2. DOMAIN events # {} => event_counter \in DOMAIN events'
      BY <1>g, <3>1 DEF NumberInv
    <3>3. DOMAIN events = {} => event_counter <= 0
      BY <1>j, <3>1
    <3> QED
      BY <3>1, <3>2, <3>3
  <2> QED
    BY <1>g, <1>t, <1>u, <1>w, <2>1, <2>2, StateCases DEF Same, NotFound, Found, Issued, Asked, Gone
<1>12. DOMAIN events' # {} => 0 \in DOMAIN events'
  BY <1>e, <1>j, <1>n
<1>13. mode' # "down" /\ DOMAIN events' = {} => event_counter' = 0
  BY <1>f, <1>j, <1>n, <1>t, NumberCases DEF Kept, Closed, Reset, Emptied
<1> QED
  BY <1>7, <1>9, <1>10, <1>11, <1>12, <1>13 DEF FirstStored

Survive == IF Light THEN LightSurvive ELSE FullSurvive /\ FirstStored

LEMMA SurviveInvariant == Spec => [](Sound => Survive)
<1>1. Init => Survive
  <2> SUFFICES ASSUME Init PROVE LightSurvive /\ FullSurvive /\ FirstStored
    BY DEF Survive
  <2>1. /\ DOMAIN events = {} /\ acked = {} /\ Elements(queue) = {} /\ snapshot.counter = -1
        /\ mode = "down" /\ call = "none"
    BY ElementsEmpty DEF Init, NoSnapshot
  <2> QED
    BY <2>1 DEF LightSurvive, FullSurvive, FirstStored, Pending
<1>2. TypeInv /\ (Guarded => NumberInv) /\ (Light => LightInv /\ IncreasingInv)
      /\ (Sound => GrowInv) /\ (Sound => Survive) /\ [Next]_vars
      => (Sound => Survive)'
  <2> SUFFICES ASSUME TypeInv, Guarded => NumberInv, Light => LightInv, Sound => GrowInv,
                      Sound => IF Light THEN LightSurvive ELSE FullSurvive /\ FirstStored,
                      [Next]_vars, Sound'
               PROVE  IF Light' THEN LightSurvive' ELSE FullSurvive' /\ FirstStored'
    BY DEF Survive
  <2>1. Sound /\ Light' = Light
    BY SoundStep, GuardStep DEF Light
  <2>2. CASE Light
    BY <2>1, <2>2, LightSurviveStep
  <2>3. CASE ~Light
    <3>1. Guarded
      BY <2>1, <2>3, TypesAssumption DEF TypeInv, TypeOK, Light, Sound, Harmless, Guarded, Numbered
    <3> QED
      BY <2>1, <2>3, <3>1, FullSurviveStep
  <2> QED
    BY <2>1, <2>2, <2>3
<1> QED
  BY <1>1, <1>2, TypeInvariant, NumberInvariant, LightInvariant, GrowInvariant, PTL DEF Spec

\* Whatever crashes, restarts and harmless faults came before, a running actor has every
\* event whose persist returned Ok (with Full persistence but for the one numbered 0,
\* see LaterEventsSurvive), for any number of events. The answer to a persist follows
\* the write; recovery misses nothing that was written, for the numbers have no gap and
\* no snapshot claims an event it lacks.
THEOREM AcknowledgedSurvive == Spec => []LaterEventsSurvive
<1>1. (Sound => GrowInv) /\ (Sound => Survive) => LaterEventsSurvive
  <2> SUFFICES ASSUME Sound => GrowInv, Idle, Sound, NEW e \in acked,
                      IF Light THEN LightSurvive ELSE FullSurvive /\ FirstStored
               PROVE  e \in Elements(state) \/ (~Light /\ 0 \in DOMAIN events /\ events[0] = e)
    BY DEF LaterEventsSurvive, Sound, Survive
  <2>1. CASE Light
    BY <2>1 DEF Idle, GrowInv, LightSurvive
  <2>2. CASE ~Light
    <3>1. Holds(state) /\ e \in StoredEvents
      BY <2>2 DEF Idle, FullSurvive
    <3> QED
      BY <2>2, <3>1 DEF Holds, StoredEvents
  <2> QED
    BY <2>1, <2>2
<1> QED
  BY <1>1, GrowInvariant, SurviveInvariant, PTL

=============================================================================
