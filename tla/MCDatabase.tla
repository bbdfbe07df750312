----------------------------- MODULE MCDatabase -----------------------------
(* An instance of Database for TLC: two owners.                            *)
EXTENDS Database, TLC

CONSTANTS o1, o2

\* "ab" and "ac"; "a" and "ab".
Alike == o1 :> <<97, 98>> @@ o2 :> <<97, 99>>
Nested == o1 :> <<97>> @@ o2 :> <<97, 98>>

\* Prefixes that may begin one another, except in RocksDB.
Apart == [backend : {"memory", "sqlite"}, prefix : {Alike, Nested}]
         \cup [backend : {"rocksdb"}, prefix : {Alike}]

\* RocksDB with prefixes that begin one another.
Overlapping == [backend : {"rocksdb"}, prefix : {Nested}]

\* The first satisfy what the theorems assume of the prefixes, the second do not.
ASSUME SetupsApart == (Setups = Apart => PrefixesApart) /\ (Setups = Overlapping => ~PrefixesApart)

ValuesAlike == Permutations(Values)

=============================================================================
