--------------------------- MODULE PersistentActor ---------------------------
(***************************************************************************)
(* A PersistentActor and its Store child (store/src/store.rs) over a       *)
(* database that survives crashes.                                         *)
(*                                                                         *)
(* Events are numbered by the order in which persist is called; the state  *)
(* of the actor is the sequence of the events applied to it. What the      *)
(* database holds (events, snapshot) is durable, all the rest is lost in a *)
(* crash. The actor waits for each answer of its store, so the only        *)
(* concurrency is between the two of them, what is queued in the store's   *)
(* mailbox, a holder of the store's reference who purges it, and crashes.  *)
(* Serialisation and encryption are left out: a value read is the value    *)
(* written.                                                                *)
(***************************************************************************)
EXTENDS Integers, Sequences, FiniteSets

CONSTANTS
    Types,          \* the values Persistence::get_persistence() may have
    Faults,         \* what may go wrong, a subset of Kinds
    MaxKinds,       \* bound on the kinds of faults that happen in one behaviour
    MaxEvents,      \* bound on the events issued
    MaxState        \* bound on the events of a replayed state (failed scans make it grow)

(***************************************************************************)
(* What may go wrong:                                                      *)
(*   first_snapshot  the write of a state fails while none is stored       *)
(*   put_snapshot    ... while one is stored, but not in a recovery        *)
(*   put_event       the write of an event fails                           *)
(*   get_state       the read of the state in recover fails                *)
(*   get_event       a read of an event in recover fails                   *)
(*   replay          an event of a replay cannot be decoded or applied, or *)
(*                   the state it leads to cannot be stored                *)
(*   scan            a search for the last event fails, and shows none     *)
(*   purge           somebody has the store purged (no failure, but a loss)*)
(***************************************************************************)
Kinds == {"first_snapshot", "put_snapshot", "put_event", "get_state", "get_event",
          "replay", "scan", "purge"}

ASSUME TypesAssumption == Types \subseteq {"Light", "Full"}
ASSUME FaultsAssumption == Faults \subseteq Kinds
ASSUME MaxEventsAssumption == MaxEvents \in Nat /\ MaxKinds \in Nat /\ MaxState \in Nat

VARIABLES
    events,         \* the collection of events: number -> event
    snapshot,       \* the stored (state, counter), or NoSnapshot
    event_counter,  \* Store.event_counter
    state_counter,  \* Store.state_counter
    queue,          \* the mailbox of the store
    mode,           \* the actor: down, recovering (start_store), up, stopping (stop_store)
    state,          \* the events applied to the actor
    call,           \* what it awaits of the store: none, recover, persist, snapshot
    reply,          \* the store's answer to that ask: none, ok, err
    issued,         \* how many events were ever issued
    acked,          \* history: events whose persist returned Ok
    faults,         \* history: the kinds of faults that have happened
    type            \* the actor's type of persistence

database == <<events, snapshot>>
store == <<event_counter, state_counter, queue>>
actor == <<mode, state, call, reply>>
vars == <<database, store, actor, issued, acked, faults, type>>

Events == 1..MaxEvents
Numbers == 0..MaxEvents
NoSnapshot == [state |-> <<>>, counter |-> -1]
Light == type = "Light"
Elements(s) == {s[i] : i \in 1..Len(s)}

Init ==
    /\ events = <<>> /\ snapshot = NoSnapshot
    /\ event_counter = 0 /\ state_counter = 0 /\ queue = <<>>
    /\ mode = "down" /\ state = <<>> /\ call = "none" /\ reply = "none"
    /\ issued = 0 /\ acked = {} /\ faults = {}
    /\ type \in Types

\* An access of kind k to the database fails or not: what it adds to faults.
May(k) == {{}} \cup {{k} : x \in Faults \cap {k}}

Happened(f) == faults' = faults \cup f /\ Cardinality(faults \cup f) <= MaxKinds

\* The numbers Collection::last finds: a failed query looks like an empty
\* collection.
Seen(f) == IF f = {} THEN DOMAIN events ELSE {}

\* The last of some numbers; 0 when there is none.
LastOf(numbers) == IF numbers = {} THEN 0
                   ELSE CHOOSE n \in numbers : \A k \in numbers : k <= n

LastNumber == LastOf(DOMAIN events)

-----------------------------------------------------------------------------
(* The store's handle_message, one action per command. `Serve(op)` takes   *)
(* the command at the head of the mailbox; `Answer` resumes the caller.    *)

Command == Head(queue)

Serve(op) == queue # <<>> /\ Command.op = op /\ queue' = Tail(queue)

\* A tell has no caller to resume.
Answer(ok) == reply' = IF Command.asked THEN (IF ok THEN "ok" ELSE "err") ELSE reply

\* Mutant: a counter of 0 is taken for an empty collection.
NextNumberByCounter(seen) == IF event_counter # 0 THEN event_counter + 1 ELSE 0

\* persist's next_event_number: a counter of 0 means either no event or one.
NextNumber(seen) == IF event_counter # 0 \/ seen # {} THEN event_counter + 1 ELSE 0

\* Mutant: the counter is advanced past the event just stored.
CountedTwice(n) == n + 1

\* Mutant: the counter is not advanced.
CountedForgotten(n) == event_counter

Counted(n) == n

Stored(n, e) == [k \in DOMAIN events \cup {n} |-> IF k = n THEN e ELSE events[k]]

HandlePersist ==
    /\ Serve("Persist")
    /\ \E f \in May("scan"), g \in May("put_event") :
          LET number == NextNumber(Seen(f))
              ok == g = {}
          IN  /\ events' = IF ok THEN Stored(number, Command.event) ELSE events
              /\ event_counter' = IF ok THEN Counted(number) ELSE event_counter
              /\ Answer(ok) /\ Happened(f \cup g)
    /\ UNCHANGED <<snapshot, state_counter, mode, state, call, issued, acked>>

\* Store::snapshot: the counter moves even if the write fails.
PutSnapshot(st, ok) ==
    /\ state_counter' = event_counter
    /\ snapshot' = IF ok THEN [state |-> st, counter |-> event_counter] ELSE snapshot

\* Which of its faults a write of the state may meet.
SnapshotFault == IF snapshot = NoSnapshot THEN "first_snapshot" ELSE "put_snapshot"

HandleSnapshot ==
    /\ Serve("Snapshot")
    /\ \E f \in May(SnapshotFault) :
          PutSnapshot(Command.state, f = {}) /\ Answer(f = {}) /\ Happened(f)
    /\ UNCHANGED <<events, event_counter, mode, state, call, issued, acked>>

LightState == Command.state

\* persist_state: the snapshot first. A crash may separate the two writes.
HandlePersistLight ==
    /\ queue # <<>> /\ Command.op = "PersistLight"
    /\ \E f \in May(SnapshotFault) :
          /\ PutSnapshot(LightState, f = {}) /\ Happened(f)
          /\ IF f = {} THEN /\ queue' = [queue EXCEPT ![1].op = "PutEvent"] /\ UNCHANGED reply
                       ELSE /\ queue' = Tail(queue) /\ Answer(FALSE)
    /\ UNCHANGED <<events, event_counter, mode, state, call, issued, acked>>

\* ... then the event, under the current counter, which does not move.
HandlePutEvent ==
    /\ Serve("PutEvent")
    /\ \E f \in May("put_event") :
          /\ events' = IF f = {} THEN Stored(event_counter, Command.event) ELSE events
          /\ Answer(f = {}) /\ Happened(f)
    /\ UNCHANGED <<snapshot, event_counter, state_counter, mode, state, call, issued, acked>>

\* purge empties the events first, then the states; the counters stay. Each of the
\* two may fail and change nothing.
HandlePurge ==
    /\ queue # <<>> /\ Command.op = "Purge"
    /\ \/ /\ events' = <<>> /\ queue' = [queue EXCEPT ![1].op = "PurgeStates"]
          /\ Happened({"purge"})
       \/ /\ queue' = Tail(queue) /\ UNCHANGED <<events, faults>>
    /\ UNCHANGED <<snapshot, event_counter, state_counter, actor, issued, acked>>

HandlePurgeStates ==
    /\ Serve("PurgeStates")
    /\ snapshot' \in {NoSnapshot, snapshot}
    /\ UNCHANGED <<events, event_counter, state_counter, actor, issued, acked, faults>>

-----------------------------------------------------------------------------
(* start_store: Store::new, then the Recover command and what the actor    *)
(* does with its answer.                                                   *)

Tell(st) == [op |-> "Snapshot", state |-> st, event |-> 0, asked |-> FALSE]

OpenStore ==
    /\ mode = "down"
    /\ \E f \in May("scan") : event_counter' = LastOf(Seen(f)) /\ Happened(f)
    /\ state_counter' = 0
    /\ queue' = <<[op |-> "Recover", state |-> <<>>, event |-> 0, asked |-> TRUE]>>
    /\ mode' = "recovering" /\ state' = <<>> /\ call' = "recover" /\ reply' = "none"
    /\ UNCHANGED <<database, issued, acked>>

\* Mutant: the event the snapshot already holds is replayed.
FirstToReplayTooSoon == snapshot.counter

\* Mutant: the first event after the snapshot is skipped.
FirstToReplayTooLate == snapshot.counter + 2

FirstToReplay == snapshot.counter + 1

\* events(from, to): it ends, without an error, at the first event it cannot get,
\* which is one that is not there or one whose read fails.
ReplayEnds(f) ==
    {to \in snapshot.counter..LastNumber \cup {snapshot.counter} :
        /\ \A n \in FirstToReplay..to : n \in DOMAIN events
        /\ to >= LastNumber \/ to + 1 \notin DOMAIN events \/ f # {}}

Replayed(to) == [i \in 1..(to - FirstToReplay + 1) |-> events[FirstToReplay + i - 1]]

\* Mutant: the actor is not updated.
RecoveredIgnored(st) == UNCHANGED state /\ queue' = Tail(queue)

Recovered(st) == /\ state' = st /\ queue' = Tail(queue)

\* The answer was not State(Some(..)): the actor keeps its initial state, and has
\* it stored as the first snapshot.
NotRecovered == /\ UNCHANGED state
                /\ queue' = Append(Tail(queue), Tell(state))

Started == mode' = "up" /\ call' = "none" /\ UNCHANGED <<reply, events, issued, acked>>

Recovering == mode = "recovering" /\ queue # <<>> /\ Command.op = "Recover"

\* recover without a stored state, events or not.
RecoverNothing ==
    /\ Recovering /\ snapshot = NoSnapshot
    /\ NotRecovered /\ Started
    /\ UNCHANGED <<snapshot, event_counter, state_counter, faults>>

\* recover when the state is up to date, or no event is found.
RecoverState ==
    /\ Recovering /\ snapshot # NoSnapshot
    /\ \E f \in May("scan") :
          /\ Seen(f) = {} \/ LastOf(Seen(f)) = snapshot.counter
          /\ event_counter' = IF Seen(f) = {} THEN event_counter ELSE LastOf(Seen(f))
          /\ Happened(f)
    /\ Recovered(snapshot.state) /\ Started
    /\ state_counter' = snapshot.counter
    /\ UNCHANGED snapshot

EventsToReplay == /\ Recovering /\ snapshot # NoSnapshot
                  /\ DOMAIN events # {} /\ LastNumber # snapshot.counter
                  /\ event_counter' = LastNumber

\* recover with events to replay, up to the last or to the first one that cannot
\* be read, and a new snapshot of the result.
RecoverAndReplay ==
    /\ EventsToReplay /\ state_counter' = LastNumber
    /\ \E f \in May("get_event") : \E to \in ReplayEnds(f) :
          /\ Len(snapshot.state \o Replayed(to)) <= MaxState
          /\ Recovered(snapshot.state \o Replayed(to)) /\ Happened(f)
          /\ snapshot' = [state |-> snapshot.state \o Replayed(to), counter |-> LastNumber]
    /\ Started

\* recover fails in the replay, or storing its result: start_store takes the error
\* for no state, with the counters already moved.
ReplayFails ==
    /\ EventsToReplay /\ "replay" \in Faults /\ Happened({"replay"})
    /\ state_counter' \in {snapshot.counter, LastNumber}
    /\ NotRecovered /\ Started
    /\ UNCHANGED snapshot

\* recover fails to read the state: again the error is taken for no state.
RecoverFails ==
    /\ Recovering /\ "get_state" \in Faults /\ Happened({"get_state"})
    /\ NotRecovered /\ Started
    /\ UNCHANGED <<snapshot, event_counter, state_counter>>

-----------------------------------------------------------------------------
(* The actor, up.                                                          *)

Idle == mode = "up" /\ call = "none"

Ask(what, op, st, e) ==
    /\ call' = what /\ reply' = "none"
    /\ queue' = Append(queue, [op |-> op, state |-> st, event |-> e, asked |-> TRUE])

\* persist: the event is applied first, then the store is asked.
Persist ==
    /\ Idle /\ issued < MaxEvents
    /\ issued' = issued + 1
    /\ state' = Append(state, issued + 1)
    /\ Ask("persist", IF Light THEN "PersistLight" ELSE "Persist", state', issued + 1)
    /\ UNCHANGED <<database, event_counter, state_counter, mode, acked, faults>>

\* ... and its result is the store's answer. The applied event stays applied.
PersistReturns ==
    /\ mode = "up" /\ call = "persist" /\ reply # "none"
    /\ acked' = IF reply = "ok" THEN acked \cup {issued} ELSE acked
    /\ call' = "none" /\ reply' = "none"
    /\ UNCHANGED <<database, store, mode, state, issued, faults>>

\* snapshot, called by the actor when it likes.
Snapshot ==
    /\ Idle
    /\ Ask("snapshot", "Snapshot", state, 0)
    /\ UNCHANGED <<database, event_counter, state_counter, mode, state, issued, acked, faults>>

\* ... returns Ok(()) whatever the store answered.
SnapshotReturns ==
    /\ mode = "up" /\ call = "snapshot" /\ reply # "none"
    /\ call' = "none" /\ reply' = "none"
    /\ UNCHANGED <<database, store, mode, state, issued, acked, faults>>

\* stop_store: with Full persistence a last snapshot, whose failure is ignored.
BeginStop ==
    /\ Idle
    /\ mode' = "stopping"
    /\ IF Light THEN UNCHANGED <<queue, call, reply>> ELSE Ask("snapshot", "Snapshot", state, 0)
    /\ UNCHANGED <<database, event_counter, state_counter, state, issued, acked, faults>>

\* ... then the store is stopped between two messages; what is left in its
\* mailbox is dropped.
EndStop ==
    /\ mode = "stopping" /\ (call = "snapshot" => reply # "none")
    /\ queue # <<>> => Command.op # "PurgeStates"
    /\ mode' = "down" /\ state' = <<>> /\ call' = "none" /\ reply' = "none" /\ queue' = <<>>
    /\ event_counter' = 0 /\ state_counter' = 0
    /\ UNCHANGED <<database, issued, acked, faults>>

\* Somebody else holds the store's reference.
AskPurge ==
    /\ "purge" \in Faults /\ mode # "down"
    /\ \A i \in 1..Len(queue) : queue[i].op \notin {"Purge", "PurgeStates"}
    /\ queue' = Append(queue, [op |-> "Purge", state |-> <<>>, event |-> 0, asked |-> FALSE])
    /\ UNCHANGED <<database, event_counter, state_counter, actor, issued, acked, faults>>

\* The process dies: only the database is left.
Crash ==
    /\ mode # "down"
    /\ mode' = "down" /\ state' = <<>> /\ call' = "none" /\ reply' = "none"
    /\ queue' = <<>> /\ event_counter' = 0 /\ state_counter' = 0
    /\ UNCHANGED <<database, issued, acked, faults>>

-----------------------------------------------------------------------------
StoreStep == \/ HandlePersist \/ HandleSnapshot \/ HandlePersistLight \/ HandlePutEvent
             \/ HandlePurge \/ HandlePurgeStates

Recover == \/ RecoverNothing \/ RecoverState \/ RecoverAndReplay
           \/ ReplayFails \/ RecoverFails

ActorStep == \/ OpenStore \/ Persist \/ PersistReturns \/ Snapshot \/ SnapshotReturns
             \/ BeginStop \/ EndStop

Next == /\ StoreStep \/ Recover \/ ActorStep \/ AskPurge \/ Crash
        /\ UNCHANGED type

Spec == Init /\ [][Next]_vars

-----------------------------------------------------------------------------
(* Properties.                                                             *)

\* The variables have their types, every counter within the number of events
\* issued: Store never numbers an event beyond those it was given.
TypeOK ==
    /\ DOMAIN events \subseteq Numbers /\ \A n \in DOMAIN events : events[n] \in Events
    /\ snapshot \in {NoSnapshot} \cup [state : Seq(Events), counter : Numbers]
    /\ event_counter \in 0..issued /\ state_counter \in 0..issued
    /\ mode \in {"down", "recovering", "up", "stopping"}
    /\ state \in Seq(Events)
    /\ call \in {"none", "recover", "persist", "snapshot"} /\ reply \in {"none", "ok", "err"}
    /\ issued \in 0..MaxEvents /\ acked \subseteq Events
    /\ faults \subseteq Kinds /\ type \in Types

\* The faults after which no acknowledged event is lost. A snapshot that fails, and
\* that PersistentActor::snapshot reports as Ok, is one of them, unless it is the
\* first; with Light persistence failing scans and replays are, too.
Harmless == IF Light THEN Kinds \ {"get_state", "purge"} ELSE {"put_event", "put_snapshot"}

\* What the persistence types promise: a running actor between two calls has
\* every event whose persist returned Ok, whatever crashes and restarts came
\* before.
AckedSurvive == Idle => acked \subseteq Elements(state)

\* With Full persistence recover takes a snapshot counter of 0 to include the event
\* stored under number 0. But for that one, a running actor has every event whose
\* persist returned Ok, whatever crashes, restarts and harmless faults came before.
LaterEventsSurvive ==
    Idle /\ faults \subseteq Harmless =>
        \A e \in acked : \/ e \in Elements(state)
                         \/ ~Light /\ 0 \in DOMAIN events /\ events[0] = e

\* recover never applies an event twice, nor two events in another order than
\* they were persisted in, whatever failed before. (With Full persistence a failed
\* search for the last event makes a store number from 0 again; a snapshot then
\* claims fewer events than it holds.)
IncreasingState ==
    Light \/ "scan" \notin faults => \A i, j \in 1..Len(state) : i < j => state[i] < state[j]

\* Numbering goes by the last event: what follows needs Full persistence, and that
\* no search for the last event has failed.
Numbered(type_, faults_) == type_ = "Full" /\ "scan" \notin faults_

\* The event numbers have no gap (replay would end at it) and the counter of a
\* running store is the last of them, after failed writes, failed recoveries and
\* purges too.
KeysContiguous ==
    Numbered(type, faults) =>
        /\ \A n \in DOMAIN events : n..LastNumber \subseteq DOMAIN events
        /\ mode \in {"up", "stopping"} /\ DOMAIN events # {} => event_counter = LastNumber

\* An event in the collection is never replaced: its number is not given again
\* after a crash, a failed write, a shortened or failed recovery or a purge
\* ("Events represent state changes and are persisted immutably").
NoOverwrite ==
    [][Numbered(type', faults') =>
          \A n \in DOMAIN events \cap DOMAIN events' : events'[n] = events[n]]_vars

StoredEvents == {events[n] : n \in DOMAIN events}

\* With Full persistence an event whose persist returned Ok stays in the collection: a
\* recovery that fails, or that a read error cuts short, starts the actor without it,
\* and may have that shorter state stored, but what the actor does then is not written
\* over the event. Only a purge, or a failed search for the last event, removes it.
AckedStored == Numbered(type, faults) /\ "purge" \notin faults => acked \subseteq StoredEvents

\* A stored snapshot is never replaced by one that lacks some of its events: as
\* long as faults are harmless, no start of the actor has its initial state stored
\* over the recovered one.
SnapshotNeverShrinks ==
    [][faults' \subseteq Harmless =>
          Elements(snapshot.state) \subseteq Elements(snapshot'.state)]_vars

=============================================================================
