------------------------------ MODULE Database ------------------------------
(***************************************************************************)
(* The databases of store/src/memory.rs, databases/rocksdb_db and          *)
(* databases/sqlite_db behind the traits DbManager, Collection and State   *)
(* of store/src/database.rs, as several stores of one table name use them. *)
(*                                                                         *)
(* A text is a sequence of character codes. A row of a table is a pair: in *)
(* memory, the map of one prefix and a key in it; in RocksDB, nothing (a   *)
(* column family is one map for all prefixes) and a key; in SQLite, the    *)
(* columns prefix and sn.                                                  *)
(***************************************************************************)
EXTENDS Integers, Sequences, FiniteSets, SequencesExt

CONSTANTS
    Owners,     \* the stores that share a table name
    Setups,     \* backends, each with the prefixes of the owners
    Numbers,    \* the event numbers in use
    Values, StateValues, NoValue,
    MaxRows,    \* bound: rows of the table of events
    Base, Width \* digits of a formatted number (10 and 20 in the code)

ASSUME SetupsAssumption ==
    \A setup \in Setups : /\ setup.backend \in {"memory", "rocksdb", "sqlite"}
                          /\ setup.prefix \in [Owners -> Seq(Nat)]

VARIABLES
    backend, prefix,    \* frozen: which database, and the prefix of each owner
    events,             \* the table "<name>_events": a function from rows to values
    states,             \* the table "<name>_states"
    last                \* history: the last operation, if it was a purge, and its result

vars == <<backend, prefix, events, states, last>>

Dot == 46
Digit(d) == 48 + d

\* n without its last k digits.
Quotients(n) ==
    LET q[k \in 0..Width] == IF k = 0 THEN n ELSE q[k - 1] \div Base
    IN  q

\* Mutant: the number is formatted without leading zeros.
KeyOfUnpadded(n) ==
    LET length == Width - Cardinality({k \in 1..(Width - 1) : Quotients(n)[k] = 0})
    IN  [i \in 1..length |-> Digit(Quotients(n)[length - i] % Base)]

\* format!("{:020}", n)
KeyOf(n) == [i \in 1..Width |-> Digit(Quotients(n)[Width - i] % Base)]

\* Width digits are enough for every number, as 20 are for a u64.
ASSUME DigitsAssumption ==
    /\ Base \in Nat \ {0, 1} /\ Width \in Nat \ {0}
    /\ \A n \in Numbers : n \in Nat /\ Quotients(n)[Width] = 0

Table == [row \in {} |-> NoValue]
NotPurged == [table |-> "none", owner |-> NoValue, ok |-> TRUE, torn |-> FALSE]

\* create_collection and create_state of every owner, on an empty database.
Init ==
    /\ \E setup \in Setups : backend = setup.backend /\ prefix = setup.prefix
    /\ events = Table /\ states = Table
    /\ last = NotPurged

-----------------------------------------------------------------------------
(* Rows.                                                                   *)

EventRow(o, n) ==
    CASE backend = "memory" -> <<prefix[o], prefix[o] \o <<Dot>> \o KeyOf(n)>>
      [] backend = "rocksdb" -> <<<<>>, prefix[o] \o <<Dot>> \o KeyOf(n)>>
      [] backend = "sqlite" -> <<prefix[o], KeyOf(n)>>

StateRow(o) ==
    CASE backend = "memory" -> <<prefix[o], prefix[o]>>
      [] backend = "rocksdb" -> <<<<>>, prefix[o]>>
      [] backend = "sqlite" -> <<prefix[o], <<>>>>

\* Mutant: rows are chosen by the beginning of the prefix only.
SelectsLoosely(o, row) == IsPrefix(<<prefix[o][1]>>, row[1] \o row[2])

\* The rows that purge deletes and iter shows: starts_with(&self.prefix) in the map
\* of the store, without the separator; or WHERE prefix = ?1.
Selects(o, row) ==
    CASE backend = "memory" -> row[1] = prefix[o] /\ IsPrefix(prefix[o], row[2])
      [] backend = "rocksdb" -> IsPrefix(prefix[o], row[2])
      [] backend = "sqlite" -> row[1] = prefix[o]

\* What the stores that share a database must see to: no two take the same prefix and,
\* in RocksDB, none takes a prefix that begins another's.
PrefixesApart ==
    \A setup \in Setups : \A o, p \in Owners : o # p =>
        /\ setup.prefix[o] # setup.prefix[p]
        /\ setup.backend = "rocksdb" => ~IsPrefix(setup.prefix[o], setup.prefix[p])

Selected(o, table) == {row \in DOMAIN table : Selects(o, row)}

\* The order of keys: BTreeMap, RocksDB's iterator, ORDER BY sn.
TextBefore(s, t) ==
    \/ IsStrictPrefix(s, t)
    \/ \E i \in 1..Len(s) : /\ i <= Len(t) /\ s[i] < t[i]
                            /\ \A j \in 1..(i - 1) : s[j] = t[j]

Rank(row, rows) == Cardinality({other \in rows : TextBefore(other[2], row[2])})

RowsInOrder(rows) ==
    [i \in 1..Cardinality(rows) |-> CHOOSE row \in rows : Rank(row, rows) = i - 1]

\* The key without its prefix and the separator.
KeyText(o, row) ==
    IF backend = "sqlite" THEN row[2] ELSE SubSeq(row[2], Len(prefix[o]) + 2, Len(row[2]))

-----------------------------------------------------------------------------
(* Reading.                                                                *)

\* Collection::iter, while every read succeeds. (One that fails ends the iteration in
\* RocksDB and leaves it empty in SQLite and in memory; PersistentActor has what that
\* does to a store.)
Iter(o, reverse) ==
    LET rows == RowsInOrder(Selected(o, events))
        items == [i \in 1..Len(rows) |-> [key |-> KeyText(o, rows[i]), value |-> events[rows[i]]]]
    IN  IF reverse THEN Reverse(items) ELSE items

\* Collection::last: at most one item.
LastItem(o) == SubSeq(Iter(o, TRUE), 1, 1)

\* Mutant: the range begins with the key it is given.
PassedOverTooFew(from, items) == (CHOOSE i \in 1..Len(items) : items[i].key = from) - 1

\* The items to pass over: up to and including the key from.
PassedOver(from, items) == CHOOSE i \in 1..Len(items) : items[i].key = from

NoKey == <<>>

Magnitude(quantity) == IF quantity < 0 THEN -quantity ELSE quantity

\* Collection::get_by_range, from a key (exclusive) or, without one, from the end of
\* the collection; backwards for a negative quantity.
GetByRange(o, from, quantity) ==
    LET items == Iter(o, quantity < 0)
        found == from = NoKey \/ \E i \in 1..Len(items) : items[i].key = from
        passed == IF from = NoKey THEN 0 ELSE PassedOver(from, items)
        end == passed + Magnitude(quantity)
    IN  IF ~found THEN [ok |-> FALSE, items |-> <<>>]      \* Error::EntryNotFound
        ELSE [ok |-> TRUE,
              items |-> SubSeq(items, passed + 1, IF end < Len(items) THEN end ELSE Len(items))]

-----------------------------------------------------------------------------
(* Writing. A write of RocksDB or SQLite may fail without effect: a        *)
(* stuttering step.                                                        *)

Written(table, row, v) == [r \in DOMAIN table \cup {row} |-> IF r = row THEN v ELSE table[r]]
Without(table, rows) == [r \in DOMAIN table \ rows |-> table[r]]

PutEvent(o, n, v) ==
    /\ Cardinality(DOMAIN events \cup {EventRow(o, n)}) <= MaxRows
    /\ events' = Written(events, EventRow(o, n), v)
    /\ last' = NotPurged
    /\ UNCHANGED <<backend, prefix, states>>

\* Of a row that is not there, del changes nothing: memory returns EntryNotFound, the
\* others Ok.
DelEvent(o, n) ==
    /\ events' = Without(events, {EventRow(o, n)})
    /\ last' = NotPurged
    /\ UNCHANGED <<backend, prefix, states>>

PutState(o, v) ==
    /\ states' = Written(states, StateRow(o), v)
    /\ last' = NotPurged
    /\ UNCHANGED <<backend, prefix, events>>

DelState(o) ==
    /\ states' = Without(states, {StateRow(o)})
    /\ last' = NotPurged
    /\ UNCHANGED <<backend, prefix, events>>

\* The first n of some rows, in key order.
First(n, rows) == {row \in rows : Rank(row, rows) < n}

\* Mutant: a delete that fails ends the purge without an error.
PurgeOutcomesSilent(rows) == {[gone |-> First(n, rows), ok |-> TRUE, torn |-> FALSE] :
                                 n \in 0..Cardinality(rows)}

\* How a purge of the rows may end. In memory it is complete; one DELETE of SQLite is
\* complete or without effect; RocksDB deletes row by row in key order: a delete that
\* fails ends it with an error, and a read that fails (iter.flatten) ends it with Ok.
PurgeOutcomes(rows) ==
    {[gone |-> rows, ok |-> TRUE, torn |-> FALSE]}
    \cup (IF backend = "sqlite" THEN {[gone |-> {}, ok |-> FALSE, torn |-> FALSE]} ELSE {})
    \cup (IF backend = "rocksdb"
          THEN {[gone |-> First(n, rows), ok |-> ok, torn |-> ok] :
                   n \in 0..(Cardinality(rows) - 1), ok \in BOOLEAN}
          ELSE {})

PurgeEvents(o) ==
    \E out \in PurgeOutcomes(Selected(o, events)) :
        /\ events' = Without(events, out.gone)
        /\ last' = [table |-> "events", owner |-> o, ok |-> out.ok, torn |-> out.torn]
        /\ UNCHANGED <<backend, prefix, states>>

PurgeState(o) ==
    \E out \in PurgeOutcomes(Selected(o, states)) :
        /\ states' = Without(states, out.gone)
        /\ last' = [table |-> "states", owner |-> o, ok |-> out.ok, torn |-> out.torn]
        /\ UNCHANGED <<backend, prefix, events>>

Next == \E o \in Owners :
    \/ \E n \in Numbers : DelEvent(o, n) \/ \E v \in Values : PutEvent(o, n, v)
    \/ \E v \in StateValues : PutState(o, v)
    \/ DelState(o) \/ PurgeEvents(o) \/ PurgeState(o)

Spec == Init /\ [][Next]_vars

-----------------------------------------------------------------------------
\* What get returns to each owner.
Stored(o) == {n \in Numbers : EventRow(o, n) \in DOMAIN events}
LogOf(o) == [n \in Stored(o) |-> events[EventRow(o, n)]]
StateOf(o) == IF StateRow(o) \in DOMAIN states THEN states[StateRow(o)] ELSE NoValue

KV == INSTANCE KeyValue WITH
    log <- [o \in Owners |-> LogOf(o)],
    state <- [o \in Owners |-> StateOf(o)]

\* Each backend implements the promised database: what an owner reads is what it
\* wrote and did not delete, whatever the others do, purges included.
ImplementsKeyValue == KV!Spec

\* "Keys: Prefixed with actor identifier for isolation": no operation, which is always
\* an operation of one owner, changes what two owners have stored.
Isolation ==
    [][\A o, p \in Owners : o # p => \/ LogOf(o)' = LogOf(o) /\ StateOf(o)' = StateOf(o)
                                     \/ LogOf(p)' = LogOf(p) /\ StateOf(p)' = StateOf(p)]_vars

\* Iteration shows an owner exactly its own events, in the order of their numbers, under
\* their keys, and the reverse; last is the one of the highest number: what Store::new and
\* recover take their counters from.
IterInOrder ==
    \A o \in Owners :
        LET items == Iter(o, FALSE)
        IN  /\ Len(items) = Cardinality(Stored(o))
            /\ \A n \in Stored(o) :
                  LET i == Cardinality({m \in Stored(o) : m <= n})
                  IN  items[i] = [key |-> KeyOf(n), value |-> LogOf(o)[n]]
            /\ Iter(o, TRUE) = Reverse(items)
            /\ \A n \in Stored(o) :
                  (\A m \in Stored(o) : m <= n) => LastItem(o)[1].key = KeyOf(n)

\* The order in which iteration, forwards or in reverse, shows two numbers.
Ahead(m, n, reverse) == IF reverse THEN m > n ELSE m < n

\* The stored numbers that iteration shows after a number, or all for -1.
Following(o, from, reverse) == {n \in Stored(o) : from = -1 \/ Ahead(from, n, reverse)}

\* As many of some numbers as are wanted, those that iteration shows first.
Nearest(numbers, wanted, reverse) ==
    {n \in numbers : Cardinality({m \in numbers : Ahead(m, n, reverse)}) < wanted}

\* get_by_range returns the nearest stored events after (before, for a negative
\* quantity) the number it is given, or the first (last) ones if it is given none, as
\* many as asked for or as there are; a number that is not stored is an error.
RangeCorrect(o, from, quantity) ==
    LET reverse == quantity < 0
        chosen == Nearest(Following(o, from, reverse), Magnitude(quantity), reverse)
        result == GetByRange(o, IF from = -1 THEN NoKey ELSE KeyOf(from), quantity)
    IN  /\ result.ok <=> from \in Stored(o) \cup {-1}
        /\ result.ok =>
              /\ Len(result.items) = Cardinality(chosen)
              /\ \A n \in chosen :
                    result.items[Cardinality({m \in chosen : Ahead(m, n, reverse)}) + 1].value
                        = LogOf(o)[n]

\* Every range of up to two events, for every owner.
RangeAgrees ==
    \A o \in Owners, quantity \in -2..2, from \in Numbers \cup {-1} : RangeCorrect(o, from, quantity)

\* A purge that returned Ok has left the owner nothing, unless RocksDB's iterator met a
\* read error, which the loop takes for the end.
PurgeOkLeavesNothing ==
    last.ok /\ ~last.torn =>
        /\ last.table = "events" => Stored(last.owner) = {}
        /\ last.table = "states" => StateOf(last.owner) = NoValue

=============================================================================
