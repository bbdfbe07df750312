--------------------------- MODULE DatabaseProofs ---------------------------
(***************************************************************************)
(* Proofs about Database, for any owners, numbers, values and prefixes:    *)
(* a purge that succeeds leaves its owner nothing and, if the prefixes are *)
(* apart, each backend implements KeyValue, iterates over an owner's       *)
(* events in the order of their numbers, and returns the ranges asked for. *)
(***************************************************************************)
EXTENDS Database, SequenceTheorems, FiniteSetTheorems, WellFoundedInduction, TLAPS

-----------------------------------------------------------------------------
(* Induction over the natural numbers, as a fact about sets.               *)

\* The order of the numbers as a relation, which the library's theorems are about.
LEMMA LessThan ==
    \E R : IsWellFoundedOn(R, Nat) /\ \A m, n \in Nat : <<m, n>> \in R <=> m < n
<1>1. IsWellFoundedOn(OpToRel(<, Nat), Nat)
  BY NatLessThanWellFounded
<1>2. \A m, n \in Nat : <<m, n>> \in OpToRel(<, Nat) <=> m < n
  BY DEF OpToRel
<1>. QED  BY <1>1, <1>2, Zenon

\* A set of numbers that is not empty has a least one.
LEMMA LeastNumber ==
    ASSUME NEW T, T \subseteq Nat, T # {}
    PROVE  \E m \in T : \A n \in T : m <= n
<1>1. PICK R : IsWellFoundedOn(R, Nat) /\ \A m, n \in Nat : <<m, n>> \in R <=> m < n
  BY LessThan
<1>2. PICK m \in T : \A n \in T : ~(<<n, m>> \in R)
  <2>1. PICK S : S = Nat \ T /\ T = Nat \ S
    OBVIOUS
  <2>. QED  BY <1>1, <2>1, WFMin
<1>3. \A n \in T : ~(n < m) /\ m \in Nat /\ n \in Nat
  BY <1>1, <1>2
<1>. QED  BY <1>3

\* A set that has 0 and with each number the next has every number.
LEMMA SetInduction ==
    ASSUME NEW S, 0 \in S, \A n \in Nat : n \in S => n + 1 \in S
    PROVE  Nat \subseteq S
<1>. SUFFICES ASSUME NEW T, T = Nat \ S, T # {} PROVE FALSE
  OBVIOUS
<1>2. PICK m \in T : \A n \in T : m <= n
  BY LeastNumber
<1>4. PICK l \in Nat : l + 1 = m
  OBVIOUS
<1>5. l \notin T
  BY <1>2, <1>4
<1>. QED  BY <1>4, <1>5

-----------------------------------------------------------------------------
(* Keys: the digits of a number.                                           *)

\* What division by the base is.
LEMMA Division ==
    ASSUME NEW a \in Nat
    PROVE  /\ a \div Base \in Nat /\ a % Base \in Nat /\ a % Base < Base
           /\ a = Base * (a \div Base) + (a % Base)
BY DigitsAssumption

\* Division keeps the order.
LEMMA DivisionMonotonic ==
    ASSUME NEW a \in Nat, NEW b \in Nat, a <= b
    PROVE  a \div Base <= b \div Base
<1>1. PICK c \in Nat, d \in Nat : c = a \div Base /\ d = b \div Base
  BY Division
<1>2. a >= Base * c /\ b < Base * d + Base /\ Base \in Nat /\ Base > 0
  BY <1>1, Division, DigitsAssumption
<1>3. SUFFICES ASSUME c >= d + 1 PROVE FALSE
  BY <1>1
<1>4. PICK e \in Nat : c = d + 1 + e
  BY <1>3
<1>5. Base * c = Base * d + Base + Base * e /\ Base * e \in Nat /\ Base * d \in Nat
  BY <1>2, <1>4
<1>. QED  BY <1>2, <1>5

\* Of two numbers with the same quotient, the smaller has the smaller last digit.
LEMMA SameQuotient ==
    ASSUME NEW a \in Nat, NEW b \in Nat, a < b, a \div Base = b \div Base
    PROVE  a % Base < b % Base
<1>1. PICK c \in Nat : c = Base * (a \div Base)
  BY Division, DigitsAssumption
<1>2. a = c + (a % Base) /\ b = c + (b % Base)
  BY <1>1, Division
<1>. QED  BY <1>1, <1>2, Division

\* The quotients of n, up to the one without j digits.
Divides(f, n, j) == f = [k \in 0..j |-> IF k = 0 THEN n ELSE f[k - 1] \div Base]

\* Quotients chooses its function: there is one.
LEMMA DividesExist ==
    ASSUME NEW n, NEW l \in Nat
    PROVE  \E f : Divides(f, n, l)
<1> DEFINE Good == {j \in Nat : \E f : Divides(f, n, j)}
<1>1. 0 \in Good
  <2>1. PICK f : f = [k \in 0..0 |-> n]
    OBVIOUS
  <2>2. Divides(f, n, 0)
    BY <2>1 DEF Divides
  <2>. QED  BY <2>2
<1>2. ASSUME NEW j \in Nat, j \in Good PROVE j + 1 \in Good
  <2>1. PICK f : Divides(f, n, j)
    BY <1>2
  <2>2. PICK g : g = [k \in 0..(j + 1) |-> IF k = 0 THEN n ELSE f[k - 1] \div Base]
    OBVIOUS
  <2>3. \A k \in 0..j : g[k] = f[k]
    BY <2>1, <2>2 DEF Divides
  <2>4. \A k \in 0..(j + 1) : k # 0 => f[k - 1] = g[k - 1]
    BY <2>3
  <2>5. g = [k \in 0..(j + 1) |-> IF k = 0 THEN n ELSE g[k - 1] \div Base]
    BY <2>2, <2>4
  <2>6. Divides(g, n, j + 1)
    BY <2>5 DEF Divides
  <2>. QED  BY <2>6
<1>3. Nat \subseteq Good
  <2>. HIDE DEF Good
  <2>. QED  BY <1>1, <1>2, SetInduction
<1>. QED  BY <1>3

\* Quotients divides again and again.
LEMMA QuotientSteps ==
    ASSUME NEW n
    PROVE  /\ Quotients(n)[0] = n
           /\ \A k \in 0..(Width - 1) : Quotients(n)[k + 1] = Quotients(n)[k] \div Base
<1>1. Width \in Nat
  BY DigitsAssumption
<1>2. PICK f : f = CHOOSE g : Divides(g, n, Width)
  OBVIOUS
<1>3. Quotients(n) = f
  BY <1>2 DEF Quotients, Divides
<1>4. Divides(f, n, Width)
  BY <1>1, <1>2, DividesExist
<1>5. f[0] = n
  BY <1>1, <1>4 DEF Divides
<1>6. ASSUME NEW k \in 0..(Width - 1) PROVE f[k + 1] = f[k] \div Base
  <2>1. k + 1 \in 0..Width /\ k + 1 # 0 /\ (k + 1) - 1 = k
    BY <1>1
  <2>. QED  BY <1>4, <2>1 DEF Divides
<1>. QED  BY <1>3, <1>5, <1>6

\* Quotients of numbers are numbers in the same order.
LEMMA QuotientOrder ==
    ASSUME NEW m \in Nat, NEW n \in Nat, m <= n, NEW l \in 0..Width
    PROVE  /\ Quotients(m)[l] \in Nat /\ Quotients(n)[l] \in Nat
           /\ Quotients(m)[l] <= Quotients(n)[l]
<1>. DEFINE Good == {k \in Nat : k <= Width => /\ Quotients(m)[k] \in Nat /\ Quotients(n)[k] \in Nat
                                               /\ Quotients(m)[k] <= Quotients(n)[k]}
<1>0. Width \in Nat
  BY DigitsAssumption
<1>1. 0 \in Good
  BY QuotientSteps
<1>2. ASSUME NEW k \in Nat, k \in Good PROVE k + 1 \in Good
  <2>1. SUFFICES ASSUME k + 1 <= Width
                 PROVE  /\ Quotients(m)[k + 1] \in Nat /\ Quotients(n)[k + 1] \in Nat
                        /\ Quotients(m)[k + 1] <= Quotients(n)[k + 1]
    OBVIOUS
  <2>2. PICK a \in Nat, b \in Nat : a = Quotients(m)[k] /\ b = Quotients(n)[k] /\ a <= b
    BY <1>0, <1>2, <2>1
  <2>3. k \in 0..(Width - 1)
    BY <1>0, <2>1
  <2>4. Quotients(m)[k + 1] = a \div Base /\ Quotients(n)[k + 1] = b \div Base
    BY <2>2, <2>3, QuotientSteps
  <2>. QED  BY <2>2, <2>4, Division, DivisionMonotonic
<1>3. Nat \subseteq Good
  <2>. HIDE DEF Good
  <2>. QED  BY <1>1, <1>2, SetInduction
<1>. QED  BY <1>0, <1>3

\* The first difference between two keys is a smaller digit in s.
Precedes(s, t) ==
    \E i \in 1..Width : s[i] < t[i] /\ \A j \in 1..(i - 1) : s[j] = t[j]

\* A key is a text of Width digits.
LEMMA KeyTypes ==
    ASSUME NEW n \in Numbers
    PROVE  /\ KeyOf(n) \in Seq(Nat) /\ Len(KeyOf(n)) = Width
           /\ \A i \in 1..Width : KeyOf(n)[i] = 48 + (Quotients(n)[Width - i] % Base)
<1>1. Width \in Nat /\ n \in Nat
  BY DigitsAssumption
<1>2. ASSUME NEW i \in 1..Width PROVE Digit(Quotients(n)[Width - i] % Base) \in Nat
  <2>1. Width - i \in 0..Width
    BY <1>1
  <2>2. Quotients(n)[Width - i] \in Nat
    BY <1>1, <2>1, QuotientOrder
  <2>. QED  BY <2>2, Division DEF Digit
<1>3. KeyOf(n) \in [1..Width -> Nat]
  BY <1>2 DEF KeyOf
<1>4. KeyOf(n) \in Seq(Nat) /\ Len(KeyOf(n)) = Width
  BY <1>1, <1>3
<1>. QED  BY <1>4 DEF KeyOf, Digit

\* Keys are in the order of their numbers: they agree up to the first digit at which the
\* quotients differ, and there the smaller number has the smaller digit.
LEMMA KeyOrder ==
    ASSUME NEW m \in Numbers, NEW n \in Numbers, m < n
    PROVE  Precedes(KeyOf(m), KeyOf(n))
<1>0. Width \in Nat /\ m \in Nat /\ n \in Nat
  BY DigitsAssumption
<1>1. PICK T : T = {k \in 0..Width : Quotients(m)[k] = Quotients(n)[k]}
  OBVIOUS
<1>2. Width \in T
  BY <1>0, <1>1, DigitsAssumption
<1>3. PICK l \in T : \A k \in T : l <= k
  BY <1>0, <1>1, <1>2, LeastNumber
<1>l. l \in Nat /\ l \in 0..Width
  BY <1>0, <1>1, <1>3
<1>4. l # 0
  BY <1>1, <1>0, QuotientSteps
<1>5. PICK k \in 0..(Width - 1) : k + 1 = l /\ k \notin T
  <2>1. l - 1 \in 0..(Width - 1) /\ l - 1 \notin T
    BY <1>0, <1>1, <1>3, <1>4
  <2>. QED  BY <2>1, <1>1, <1>3
<1>6. PICK a \in Nat, b \in Nat : a = Quotients(m)[k] /\ b = Quotients(n)[k] /\ a < b
  <2>1. k \in 0..Width /\ m <= n
    BY <1>0
  <2>2. /\ Quotients(m)[k] \in Nat /\ Quotients(n)[k] \in Nat
        /\ Quotients(m)[k] <= Quotients(n)[k]
    BY <1>0, <2>1, QuotientOrder
  <2>3. Quotients(m)[k] # Quotients(n)[k]
    BY <1>1, <1>5, <2>1
  <2>. QED  BY <2>2, <2>3
<1>7. a \div Base = b \div Base
  BY <1>1, <1>3, <1>5, <1>6, QuotientSteps
<1>8. a % Base < b % Base /\ a % Base \in Nat /\ b % Base \in Nat
  BY <1>6, <1>7, SameQuotient, Division
<1>9. \A j \in Nat : l + j <= Width => Quotients(m)[l + j] = Quotients(n)[l + j]
  <2>. DEFINE Good == {j \in Nat : l + j <= Width => Quotients(m)[l + j] = Quotients(n)[l + j]}
  <2>1. 0 \in Good
    BY <1>1, <1>3
  <2>2. ASSUME NEW j \in Nat, j \in Good PROVE j + 1 \in Good
    <3>0. l + (j + 1) = (l + j) + 1 /\ j + 1 \in Nat
      BY <1>l
    <3>1. SUFFICES ASSUME (l + j) + 1 <= Width
                   PROVE  Quotients(m)[(l + j) + 1] = Quotients(n)[(l + j) + 1]
      BY <3>0
    <3>2. l + j \in 0..(Width - 1) /\ Quotients(m)[l + j] = Quotients(n)[l + j]
      BY <1>0, <1>l, <2>2, <3>1
    <3>. QED  BY <3>2, QuotientSteps
  <2>3. Nat \subseteq Good
    <3>. HIDE DEF Good
    <3>. QED  BY <2>1, <2>2, SetInduction
  <2>. QED  BY <2>3
<1>10. PICK i \in 1..Width : i = Width - k /\ Width - i = k
  BY <1>0, <1>5
<1>11. KeyOf(m)[i] = 48 + (a % Base) /\ KeyOf(n)[i] = 48 + (b % Base)
  BY <1>6, <1>10, KeyTypes
<1>12. ASSUME NEW j \in 1..(i - 1) PROVE KeyOf(m)[j] = KeyOf(n)[j]
  <2>0. Width - j - l \in Nat
    BY <1>0, <1>5, <1>10, <1>l
  <2>1. PICK h \in Nat : Width - j = l + h /\ l + h <= Width
    BY <1>0, <1>l, <2>0
  <2>2. j \in 1..Width
    BY <1>0
  <2>3. Quotients(m)[Width - j] = Quotients(n)[Width - j]
    BY <2>1, <1>9
  <2>4. /\ KeyOf(m)[j] = 48 + (Quotients(m)[Width - j] % Base)
        /\ KeyOf(n)[j] = 48 + (Quotients(n)[Width - j] % Base)
    BY <2>2, KeyTypes
  <2>. QED  BY <2>3, <2>4
<1>. QED  BY <1>8, <1>11, <1>12 DEF Precedes

-----------------------------------------------------------------------------
(* Texts.                                                                  *)

\* A prefix, read character by character.
Begins(s, t) == Len(s) <= Len(t) /\ \A i \in 1..Len(s) : s[i] = t[i]

\* The two readings of IsPrefix, which starts_with is, agree.
LEMMA PrefixBegins ==
    ASSUME NEW S, NEW s \in Seq(S), NEW t \in Seq(S)
    PROVE  IsPrefix(s, t) <=> Begins(s, t)
<1>1. CASE Len(s) <= Len(t)
  <2>1. SubSeq(s, 1, Len(s)) = [i \in 1..Len(s) |-> s[i]]
    OBVIOUS
  <2>2. SubSeq(t, 1, Len(s)) = [i \in 1..Len(s) |-> t[i]]
    BY <1>1
  <2>. QED  BY <1>1, <2>1, <2>2 DEF IsPrefix, Begins
<1>2. CASE ~(Len(s) <= Len(t))
  BY <1>2 DEF IsPrefix, Begins
<1>. QED  BY <1>1, <1>2

\* Different numbers have different keys.
LEMMA DifferentKeys == \A m, n \in Numbers : KeyOf(m) = KeyOf(n) => m = n
<1>1. ASSUME NEW m \in Numbers, NEW n \in Numbers, m < n PROVE KeyOf(m) # KeyOf(n)
  <2>1. PICK i \in 1..Width : KeyOf(m)[i] < KeyOf(n)[i]
    BY <1>1, KeyOrder DEF Precedes
  <2>2. KeyOf(m)[i] \in Nat /\ KeyOf(n)[i] \in Nat
    BY KeyTypes
  <2>. QED  BY <2>1, <2>2
<1>2. \A m, n \in Numbers : m < n \/ n < m \/ m = n
  BY DigitsAssumption
<1>. QED  BY <1>1, <1>2

\* The text of an event's key, in the map of one prefix or of all.
FullKey(s, n) == s \o <<Dot>> \o KeyOf(n)

\* A prefix begins the keys made with it; another's prefix begins none of them, unless
\* one of the two begins the other.
LEMMA KeyBegins ==
    ASSUME NEW s \in Seq(Nat), NEW t \in Seq(Nat), NEW n \in Numbers
    PROVE  /\ IsPrefix(s, s)
           /\ IsPrefix(t, FullKey(t, n))
           /\ IsPrefix(s, FullKey(t, n)) => IsPrefix(s, t) \/ IsPrefix(t, s)
<1>1. <<Dot>> \in Seq(Nat) /\ KeyOf(n) \in Seq(Nat)
  BY KeyTypes DEF Dot
<1>2. PICK rest \in Seq(Nat) : rest = <<Dot>> \o KeyOf(n)
  BY <1>1, ConcatProperties, Zenon
<1>3. FullKey(t, n) = t \o rest
  <2>1. (t \o <<Dot>>) \o KeyOf(n) = t \o (<<Dot>> \o KeyOf(n))
    BY <1>1, ConcatAssociative
  <2>. QED  BY <1>2, <2>1, Zenon DEF FullKey
<1>4. PICK full \in Seq(Nat) : full = t \o rest
  BY <1>1, <1>2, ConcatProperties, Zenon
<1>5. Len(full) = Len(t) + Len(rest) /\ \A i \in 1..Len(t) : full[i] = t[i]
  BY <1>1, <1>2, <1>4
<1>6. Begins(s, s) /\ Begins(t, full)
  BY <1>1, <1>5, <1>2 DEF Begins
<1>7. Begins(s, full) => Begins(s, t) \/ Begins(t, s)
  <2>1. CASE Len(s) <= Len(t)
    BY <1>5, <2>1 DEF Begins
  <2>2. CASE Len(t) <= Len(s)
    BY <1>5, <2>2 DEF Begins
  <2>. QED  BY <2>1, <2>2
<1>. QED  BY <1>1, <1>3, <1>4, <1>6, <1>7, PrefixBegins

\* Of one prefix, different numbers have different keys.
LEMMA KeysDiffer ==
    ASSUME NEW t \in Seq(Nat), NEW m \in Numbers, NEW n \in Numbers,
           FullKey(t, m) = FullKey(t, n)
    PROVE  m = n
<1>1. /\ <<Dot>> \in Seq(Nat)
      /\ KeyOf(m) \in Seq(Nat)
      /\ KeyOf(n) \in Seq(Nat)
  BY KeyTypes DEF Dot
<1>t. t \o <<Dot>> \in Seq(Nat)
  BY <1>1, ConcatProperties, Zenon
<1>2. KeyOf(m) = KeyOf(n)
  BY <1>1, <1>t, ConcatSimplifications, Zenon DEF FullKey
<1>. QED  BY <1>2, DifferentKeys

-----------------------------------------------------------------------------
(* Rows.                                                                   *)

\* The frozen variables are those of one of the setups.
SetUp == \E setup \in Setups : backend = setup.backend /\ prefix = setup.prefix

\* What SetUp says of the types.
LEMMA SetUpTypes ==
    ASSUME SetUp
    PROVE  /\ backend \in {"memory", "rocksdb", "sqlite"}
           /\ prefix \in [Owners -> Seq(Nat)]
BY SetupsAssumption DEF SetUp

\* Whatever the prefixes, an owner's purge reaches the owner's own rows.
LEMMA OwnRowsSelected ==
    ASSUME SetUp, NEW o \in Owners
    PROVE  /\ \A n \in Numbers : Selects(o, EventRow(o, n))
           /\ Selects(o, StateRow(o))
<1>1. /\ backend \in {"memory", "rocksdb", "sqlite"}
      /\ prefix[o] \in Seq(Nat)
  BY SetUpTypes
<1>2. IsPrefix(prefix[o], prefix[o])
  <2>1. Begins(prefix[o], prefix[o])
    BY <1>1 DEF Begins
  <2>. QED  BY <2>1, <1>1, PrefixBegins
<1>3. \A n \in Numbers : IsPrefix(prefix[o], FullKey(prefix[o], n))
  BY <1>1, KeyBegins
<1>4. ASSUME NEW n \in Numbers PROVE Selects(o, EventRow(o, n))
  BY <1>1, <1>3 DEF Selects, EventRow, FullKey
<1>5. Selects(o, StateRow(o))
  BY <1>1, <1>2 DEF Selects, StateRow
<1>. QED  BY <1>4, <1>5

\* If the prefixes are apart, the rows of two owners differ and neither owner's purge
\* reaches the other's rows.
LEMMA OtherRows ==
    ASSUME PrefixesApart, SetUp, NEW o \in Owners, NEW p \in Owners, o # p
    PROVE  /\ \A n \in Numbers : ~Selects(o, EventRow(p, n))
           /\ ~Selects(o, StateRow(p))
           /\ \A m, n \in Numbers : EventRow(o, m) # EventRow(p, n)
           /\ StateRow(o) # StateRow(p)
<1>1. /\ backend \in {"memory", "rocksdb", "sqlite"}
      /\ prefix[o] \in Seq(Nat)
      /\ prefix[p] \in Seq(Nat)
  BY SetUpTypes
<1>2. /\ prefix[o] # prefix[p]
      /\ backend = "rocksdb" => /\ ~IsPrefix(prefix[o], prefix[p])
                                /\ ~IsPrefix(prefix[p], prefix[o])
  BY DEF PrefixesApart, SetUp
<1>3. \A n \in Numbers : IsPrefix(prefix[o], FullKey(prefix[p], n))
                            => IsPrefix(prefix[o], prefix[p]) \/ IsPrefix(prefix[p], prefix[o])
  BY <1>1, KeyBegins
<1>4. ASSUME NEW n \in Numbers PROVE ~Selects(o, EventRow(p, n))
  BY <1>1, <1>2, <1>3 DEF Selects, EventRow, FullKey
<1>5. ~Selects(o, StateRow(p))
  BY <1>1, <1>2 DEF Selects, StateRow
<1>. QED  BY <1>4, <1>5, OwnRowsSelected

\* An owner's events have a row each.
LEMMA RowsDiffer ==
    ASSUME SetUp, NEW o \in Owners, NEW m \in Numbers, NEW n \in Numbers,
           EventRow(o, m) = EventRow(o, n)
    PROVE  m = n
<1>1. /\ backend \in {"memory", "rocksdb", "sqlite"}
      /\ prefix[o] \in Seq(Nat)
  BY SetUpTypes
<1>2. CASE backend = "sqlite"
  BY <1>2, DifferentKeys DEF EventRow
<1>3. CASE backend # "sqlite"
  <2>1. FullKey(prefix[o], m) = FullKey(prefix[o], n)
    BY <1>1, <1>3 DEF EventRow, FullKey
  <2>. QED  BY <2>1, <1>1, KeysDiffer
<1>. QED  BY <1>2, <1>3

\* A purge deletes no row it does not select and, if it returned Ok and met no read
\* error, all it selects.
LEMMA Outcomes ==
    ASSUME NEW rows, NEW out \in PurgeOutcomes(rows)
    PROVE  /\ out.gone \subseteq rows
           /\ out.ok /\ ~out.torn => out.gone = rows
<1>1. CASE out = [gone |-> rows, ok |-> TRUE, torn |-> FALSE]
  BY <1>1
<1>2. CASE out = [gone |-> {}, ok |-> FALSE, torn |-> FALSE]
  BY <1>2
<1>3. ASSUME NEW n \in 0..(Cardinality(rows) - 1), NEW ok \in BOOLEAN,
             out = [gone |-> First(n, rows), ok |-> ok, torn |-> ok]
      PROVE  out.gone \subseteq rows /\ ~(out.ok /\ ~out.torn)
  BY <1>3 DEF First
<1>. QED  BY <1>1, <1>2, <1>3 DEF PurgeOutcomes

-----------------------------------------------------------------------------
(* Steps.                                                                  *)

\* No operation changes the database in use or a prefix, so the rows stay the same.
LEMMA Frozen ==
    ASSUME SetUp, [Next]_vars
    PROVE  /\ UNCHANGED <<backend, prefix>> /\ SetUp'
           /\ \A o \in Owners, n \in Numbers : EventRow(o, n)' = EventRow(o, n)
           /\ \A o \in Owners : StateRow(o)' = StateRow(o)
<1>1. UNCHANGED <<backend, prefix>>
  BY DEF Next, vars, PutEvent, DelEvent, PutState, DelState, PurgeEvents, PurgeState
<1>2. SetUp'
  BY <1>1 DEF SetUp
<1>3. \A o \in Owners, n \in Numbers : EventRow(o, n)' = EventRow(o, n)
  BY <1>1 DEF EventRow
<1>4. \A o \in Owners : StateRow(o)' = StateRow(o)
  BY <1>1 DEF StateRow
<1>. QED  BY <1>1, <1>2, <1>3, <1>4

\* A purge, if it returned Ok and met no read error, leaves its owner nothing.
LEMMA PurgeStep ==
    ASSUME SetUp, PurgeOkLeavesNothing, [Next]_vars
    PROVE  PurgeOkLeavesNothing'
<1>0. /\ \A o \in Owners, n \in Numbers : EventRow(o, n)' = EventRow(o, n)
      /\ \A o \in Owners : StateRow(o)' = StateRow(o)
      /\ UNCHANGED <<backend, prefix>>
  BY Frozen
<1>1. CASE last' = NotPurged
  BY <1>1 DEF PurgeOkLeavesNothing, NotPurged
<1>2. ASSUME NEW o \in Owners, PurgeEvents(o) PROVE PurgeOkLeavesNothing'
  <2>1. PICK out \in PurgeOutcomes(Selected(o, events)) :
            /\ events' = Without(events, out.gone)
            /\ last' = [table |-> "events", owner |-> o, ok |-> out.ok, torn |-> out.torn]
    BY <1>2 DEF PurgeEvents
  <2>2. SUFFICES ASSUME out.ok, ~out.torn PROVE Stored(o)' = {}
    BY <2>1 DEF PurgeOkLeavesNothing
  <2>3. out.gone = Selected(o, events)
    BY <2>2, Outcomes
  <2>4. ASSUME NEW n \in Numbers PROVE EventRow(o, n) \notin DOMAIN events'
    BY <2>1, <2>3, OwnRowsSelected DEF Without, Selected
  <2>. QED  BY <1>0, <2>4 DEF Stored
<1>3. ASSUME NEW o \in Owners, PurgeState(o) PROVE PurgeOkLeavesNothing'
  <2>1. PICK out \in PurgeOutcomes(Selected(o, states)) :
            /\ states' = Without(states, out.gone)
            /\ last' = [table |-> "states", owner |-> o, ok |-> out.ok, torn |-> out.torn]
    BY <1>3 DEF PurgeState
  <2>2. SUFFICES ASSUME out.ok, ~out.torn PROVE StateOf(o)' = NoValue
    BY <2>1 DEF PurgeOkLeavesNothing
  <2>3. out.gone = Selected(o, states)
    BY <2>2, Outcomes
  <2>4. StateRow(o) \notin DOMAIN states'
    BY <2>1, <2>3, OwnRowsSelected DEF Without, Selected
  <2>. QED  BY <1>0, <2>4 DEF StateOf
<1>4. CASE UNCHANGED vars
  BY <1>4 DEF vars, PurgeOkLeavesNothing, Stored, StateOf, EventRow, StateRow
<1>. QED  BY <1>1, <1>2, <1>3, <1>4 DEF Next, PutEvent, DelEvent, PutState, DelState

\* A purge that returned Ok has left its owner nothing, in every backend and whatever the
\* prefixes, unless RocksDB's iterator met a read error: purge selects at least the rows
\* of the store that calls it.
THEOREM PurgeComplete == Spec => []PurgeOkLeavesNothing
<1>1. Init => SetUp /\ PurgeOkLeavesNothing
  BY DEF Init, SetUp, PurgeOkLeavesNothing, NotPurged
<1>2. SetUp /\ PurgeOkLeavesNothing /\ [Next]_vars => SetUp' /\ PurgeOkLeavesNothing'
  BY Frozen, PurgeStep
<1>. QED  BY <1>1, <1>2, PTL DEF Spec

-----------------------------------------------------------------------------
(* Separate prefixes.                                                      *)

\* What a step leaves of what an owner reads.
Untouched(o) == LogOf(o)' = LogOf(o) /\ StateOf(o)' = StateOf(o)

\* What stays of an owner's events if its rows stay.
LEMMA LogKept ==
    ASSUME SetUp, [Next]_vars, NEW o \in Owners,
           \A n \in Numbers : /\ EventRow(o, n) \in DOMAIN events' <=> EventRow(o, n) \in DOMAIN events
                              /\ EventRow(o, n) \in DOMAIN events
                                    => events'[EventRow(o, n)] = events[EventRow(o, n)]
    PROVE  LogOf(o)' = LogOf(o)
<1>0. \A n \in Numbers : EventRow(o, n)' = EventRow(o, n)
  BY Frozen
<1>1. Stored(o)' = Stored(o)
  BY <1>0 DEF Stored
<1>2. \A n \in Stored(o) : events'[EventRow(o, n)'] = events[EventRow(o, n)]
  BY <1>0 DEF Stored
<1>. QED  BY <1>1, <1>2 DEF LogOf

\* What stays of an owner's state if its row stays.
LEMMA StateKept ==
    ASSUME SetUp, [Next]_vars, NEW o \in Owners,
           StateRow(o) \in DOMAIN states' <=> StateRow(o) \in DOMAIN states,
           StateRow(o) \in DOMAIN states => states'[StateRow(o)] = states[StateRow(o)]
    PROVE  StateOf(o)' = StateOf(o)
BY Frozen DEF StateOf

\* An operation of one owner that changes events leaves all states, and the others' events.
LEMMA EventOperation ==
    ASSUME PrefixesApart, SetUp, NEW o \in Owners,
           \/ \E n \in Numbers : DelEvent(o, n) \/ \E v \in Values : PutEvent(o, n, v)
           \/ PurgeEvents(o)
    PROVE  /\ \A p \in Owners : p # o => LogOf(p)' = LogOf(p)
           /\ \A p \in Owners : StateOf(p)' = StateOf(p)
<1>0. Next
  BY DEF Next
<1>1. ASSUME NEW p \in Owners PROVE StateOf(p)' = StateOf(p)
  <2>1. states' = states
    BY DEF DelEvent, PutEvent, PurgeEvents
  <2>. QED  BY <1>0, <2>1, StateKept
<1>2. ASSUME NEW p \in Owners, p # o PROVE LogOf(p)' = LogOf(p)
  <2>1. ASSUME NEW n \in Numbers
        PROVE  /\ ~Selects(o, EventRow(p, n))
               /\ \A m \in Numbers : EventRow(p, n) # EventRow(o, m)
    BY <1>2, OtherRows
  <2>2. ASSUME NEW n \in Numbers
        PROVE  /\ EventRow(p, n) \in DOMAIN events' <=> EventRow(p, n) \in DOMAIN events
               /\ EventRow(p, n) \in DOMAIN events
                     => events'[EventRow(p, n)] = events[EventRow(p, n)]
    <3>1. CASE \E m \in Numbers : DelEvent(o, m)
      BY <3>1, <2>1 DEF DelEvent, Without
    <3>2. CASE \E m \in Numbers : \E v \in Values : PutEvent(o, m, v)
      BY <3>2, <2>1 DEF PutEvent, Written
    <3>3. CASE PurgeEvents(o)
      <4>1. PICK out \in PurgeOutcomes(Selected(o, events)) : events' = Without(events, out.gone)
        BY <3>3 DEF PurgeEvents
      <4>2. EventRow(p, n) \notin out.gone
        BY <2>1, Outcomes DEF Selected
      <4>. QED  BY <4>1, <4>2 DEF Without
    <3>. QED  BY <3>1, <3>2, <3>3
  <2>. QED  BY <1>0, <2>2, LogKept
<1>. QED  BY <1>1, <1>2

\* An operation of one owner that changes a state leaves all events, and the others' states.
LEMMA StateOperation ==
    ASSUME PrefixesApart, SetUp, NEW o \in Owners,
           (\E v \in StateValues : PutState(o, v)) \/ DelState(o) \/ PurgeState(o)
    PROVE  /\ \A p \in Owners : p # o => StateOf(p)' = StateOf(p)
           /\ \A p \in Owners : LogOf(p)' = LogOf(p)
<1>0. Next
  BY DEF Next
<1>1. ASSUME NEW p \in Owners PROVE LogOf(p)' = LogOf(p)
  <2>1. events' = events
    BY DEF DelState, PutState, PurgeState
  <2>. QED  BY <1>0, <2>1, LogKept
<1>2. ASSUME NEW p \in Owners, p # o PROVE StateOf(p)' = StateOf(p)
  <2>1. ~Selects(o, StateRow(p)) /\ StateRow(p) # StateRow(o)
    BY <1>2, OtherRows
  <2>2. /\ StateRow(p) \in DOMAIN states' <=> StateRow(p) \in DOMAIN states
        /\ StateRow(p) \in DOMAIN states => states'[StateRow(p)] = states[StateRow(p)]
    <3>1. CASE DelState(o)
      BY <3>1, <2>1 DEF DelState, Without
    <3>2. CASE \E v \in StateValues : PutState(o, v)
      BY <3>2, <2>1 DEF PutState, Written
    <3>3. CASE PurgeState(o)
      <4>1. PICK out \in PurgeOutcomes(Selected(o, states)) : states' = Without(states, out.gone)
        BY <3>3 DEF PurgeState
      <4>2. StateRow(p) \notin out.gone
        BY <2>1, Outcomes DEF Selected
      <4>. QED  BY <4>1, <4>2 DEF Without
    <3>. QED  BY <3>1, <3>2, <3>3
  <2>. QED  BY <1>0, <2>2, StateKept
<1>. QED  BY <1>1, <1>2

\* If no two prefixes are equal and, in RocksDB, none begins another, the store documents'
\* claim holds: no operation changes what two owners have stored.
THEOREM PrefixesIsolate ==
    ASSUME PrefixesApart
    PROVE  Spec => Isolation
<1> DEFINE Apart == \A o, p \in Owners : o # p => Untouched(o) \/ Untouched(p)
<1>1. Init => SetUp
  BY DEF Init, SetUp
<1>2. SetUp /\ [Next]_vars => SetUp'
  BY Frozen
<1>3. ASSUME SetUp, [Next]_vars PROVE Apart \/ UNCHANGED vars
  <2>1. CASE Next
    <3>1. PICK a \in Owners : \A p \in Owners : p # a => Untouched(p)
      BY <1>3, <2>1, EventOperation, StateOperation DEF Next, Untouched
    <3>. QED  BY <3>1
  <2>. QED  BY <1>3, <2>1
<1>4. SetUp /\ [Next]_vars => [\A o, p \in Owners : o # p =>
                                  \/ LogOf(o)' = LogOf(o) /\ StateOf(o)' = StateOf(o)
                                  \/ LogOf(p)' = LogOf(p) /\ StateOf(p)' = StateOf(p)]_vars
  BY <1>3 DEF Untouched
<1>. QED  BY <1>1, <1>2, <1>4, PTL DEF Spec, Isolation

-----------------------------------------------------------------------------
(* Each backend implements KeyValue.                                       *)

\* What an owner reads after a put is what it put, and its other events.
LEMMA PutRead ==
    ASSUME SetUp, NEW o \in Owners, NEW n \in Numbers, NEW v \in Values, PutEvent(o, n, v)
    PROVE  LogOf(o)' = [m \in DOMAIN LogOf(o) \cup {n} |-> IF m = n THEN v ELSE LogOf(o)[m]]
<1>0. /\ Next
      /\ \A m \in Numbers : EventRow(o, m)' = EventRow(o, m)
  BY Frozen DEF Next
<1>1. events' = Written(events, EventRow(o, n), v)
  BY DEF PutEvent
<1>2. \A m \in Numbers : EventRow(o, m) = EventRow(o, n) => m = n
  BY RowsDiffer
<1>3. Stored(o)' = Stored(o) \cup {n}
  BY <1>0, <1>1, <1>2 DEF Stored, Written
<1>4. \A m \in Stored(o) \cup {n} :
          events'[EventRow(o, m)'] = IF m = n THEN v ELSE events[EventRow(o, m)]
  BY <1>0, <1>1, <1>2 DEF Stored, Written
<1>5. LogOf(o)' = [m \in Stored(o) \cup {n} |-> IF m = n THEN v ELSE events[EventRow(o, m)]]
  BY <1>3, <1>4 DEF LogOf
<1>. QED  BY <1>5 DEF LogOf

\* What an owner reads after del or purge is some of what it read before.
LEMMA RemoveRead ==
    ASSUME SetUp, NEW o \in Owners,
           PurgeEvents(o) \/ \E n \in Numbers : DelEvent(o, n)
    PROVE  /\ DOMAIN LogOf(o)' \subseteq DOMAIN LogOf(o)
           /\ LogOf(o)' = [m \in DOMAIN LogOf(o)' |-> LogOf(o)[m]]
<1>0. /\ Next
      /\ \A m \in Numbers : EventRow(o, m)' = EventRow(o, m)
  BY Frozen DEF Next
<1>1. PICK rows : events' = Without(events, rows)
  BY DEF PurgeEvents, DelEvent
<1>2. Stored(o)' \subseteq Stored(o)
  BY <1>0, <1>1 DEF Stored, Without
<1>3. \A m \in Stored(o)' : events'[EventRow(o, m)'] = events[EventRow(o, m)]
  BY <1>0, <1>1 DEF Stored, Without
<1>. QED  BY <1>2, <1>3 DEF LogOf

\* A state operation leaves an owner the state it put, none, or the one it had.
LEMMA StateRead ==
    ASSUME SetUp, NEW o \in Owners,
           (\E v \in StateValues : PutState(o, v)) \/ DelState(o) \/ PurgeState(o)
    PROVE  StateOf(o)' \in StateValues \cup {NoValue, StateOf(o)}
<1>0. Next /\ StateRow(o)' = StateRow(o)
  BY Frozen DEF Next
<1>1. CASE \E v \in StateValues : PutState(o, v)
  BY <1>0, <1>1 DEF PutState, Written, StateOf
<1>2. CASE DelState(o) \/ PurgeState(o)
  <2>1. PICK rows : states' = Without(states, rows)
    BY <1>2 DEF DelState, PurgeState
  <2>. QED  BY <1>0, <2>1 DEF Without, StateOf
<1>. QED  BY <1>1, <1>2

\* An operation is, in what the owners read, a step of KeyValue or none.
LEMMA KeyValueStep ==
    ASSUME PrefixesApart, SetUp, [Next]_vars
    PROVE  [KV!Next]_(KV!vars)
<1>1. ASSUME NEW o \in Owners, NEW n \in Numbers, NEW v \in Values, PutEvent(o, n, v)
      PROVE  KV!PutEvent(o, n, v)
  <2>1. /\ \A p \in Owners : p # o => LogOf(p)' = LogOf(p)
        /\ \A p \in Owners : StateOf(p)' = StateOf(p)
    BY <1>1, EventOperation
  <2>2. LogOf(o)' = [m \in DOMAIN LogOf(o) \cup {n} |-> IF m = n THEN v ELSE LogOf(o)[m]]
    BY <1>1, PutRead
  <2>. QED  BY <2>1, <2>2 DEF KV!PutEvent
<1>2. ASSUME NEW o \in Owners, PurgeEvents(o) \/ \E n \in Numbers : DelEvent(o, n)
      PROVE  KV!RemoveEvents(o)
  <2>1. /\ \A p \in Owners : p # o => LogOf(p)' = LogOf(p)
        /\ \A p \in Owners : StateOf(p)' = StateOf(p)
    BY <1>2, EventOperation
  <2>2. /\ DOMAIN LogOf(o)' \subseteq DOMAIN LogOf(o)
        /\ LogOf(o)' = [m \in DOMAIN LogOf(o)' |-> LogOf(o)[m]]
    BY <1>2, RemoveRead
  <2>3. PICK f : f = [p \in Owners |-> LogOf(p)]
    OBVIOUS
  <2>4. PICK g : g = [p \in Owners |-> LogOf(p)]'
    OBVIOUS
  <2>5. /\ g[o] = LogOf(o)' /\ f[o] = LogOf(o)
        /\ \A p \in Owners : p # o => g[p] = f[p]
    BY <2>1, <2>3, <2>4
  <2>6. /\ DOMAIN g[o] \subseteq DOMAIN f[o]
        /\ g[o] = [m \in DOMAIN g[o] |-> f[o][m]]
    BY <2>2, <2>5, Zenon
  <2>7. g = [f EXCEPT ![o] = [m \in DOMAIN g[o] |-> f[o][m]]]
    BY <2>3, <2>4, <2>5, <2>6
  <2>8. UNCHANGED [p \in Owners |-> StateOf(p)]
    BY <2>1
  <2>. QED  BY <2>3, <2>4, <2>6, <2>7, <2>8 DEF KV!RemoveEvents
<1>3. ASSUME NEW o \in Owners,
             (\E v \in StateValues : PutState(o, v)) \/ DelState(o) \/ PurgeState(o)
      PROVE  \/ \E v \in StateValues \cup {NoValue} : KV!PutState(o, v)
             \/ UNCHANGED KV!vars
  <2>1. /\ \A p \in Owners : p # o => StateOf(p)' = StateOf(p)
        /\ \A p \in Owners : LogOf(p)' = LogOf(p)
    BY <1>3, StateOperation
  <2>2. StateOf(o)' \in StateValues \cup {NoValue, StateOf(o)}
    BY <1>3, StateRead
  <2>3. CASE StateOf(o)' = StateOf(o)
    BY <2>1, <2>3 DEF KV!vars
  <2>4. CASE StateOf(o)' \in StateValues \cup {NoValue}
    <3>1. KV!PutState(o, StateOf(o)')
      BY <2>1 DEF KV!PutState
    <3>. QED  BY <2>4, <3>1
  <2>. QED  BY <2>2, <2>3, <2>4
<1>4. CASE UNCHANGED vars
  BY <1>4 DEF vars, KV!vars, LogOf, StateOf, Stored, EventRow, StateRow
<1>. QED  BY <1>1, <1>2, <1>3, <1>4 DEF Next, KV!Next

\* If no two prefixes are equal and, in RocksDB, none begins another, each backend
\* implements KeyValue: what an owner reads is what it wrote and did not delete,
\* whatever the others put, delete or purge and wherever a purge breaks off.
THEOREM KeyValueImplemented ==
    ASSUME PrefixesApart
    PROVE  Spec => ImplementsKeyValue
<1>1. Init => SetUp /\ KV!Init
  BY DEF Init, SetUp, KV!Init, LogOf, StateOf, Stored, Table
<1>2. SetUp /\ [Next]_vars => SetUp' /\ [KV!Next]_(KV!vars)
  BY Frozen, KeyValueStep
<1>. QED  BY <1>1, <1>2, PTL DEF Spec, ImplementsKeyValue, KV!Spec

-----------------------------------------------------------------------------
(* Places: the numbers of a finite set in order.                           *)

\* The place of each number of T in that order.
Places(T, reverse) == [n \in T |-> Cardinality({m \in T : Ahead(m, n, reverse)}) + 1]

\* The places of the numbers of a finite set are 1, 2, 3, and so on.
LEMMA PlacesBijective ==
    ASSUME NEW T, T \subseteq Nat, IsFiniteSet(T), NEW reverse \in BOOLEAN
    PROVE  /\ Places(T, reverse) \in Bijection(T, 1..Cardinality(T))
           /\ \A m, n \in T : Ahead(m, n, reverse)
                                <=> Places(T, reverse)[m] < Places(T, reverse)[n]
<1>n. PICK N \in Nat : N = Cardinality(T)
  BY FS_CardinalityType
<1>0. PICK f : f = Places(T, reverse)
  OBVIOUS
<1> DEFINE A(n) == {m \in T : Ahead(m, n, reverse)}
<1>1. ASSUME NEW n \in T PROVE IsFiniteSet(A(n)) /\ Cardinality(A(n)) \in Nat
  BY FS_Subset, FS_CardinalityType
<1>2. \A n \in T : f[n] = Cardinality(A(n)) + 1
  BY <1>0 DEF Places
<1>3. ASSUME NEW n \in T PROVE Cardinality(A(n)) + 1 <= N
  <2>1. n \notin A(n) /\ A(n) \cup {n} \in SUBSET T
    BY DEF Ahead
  <2>2. Cardinality(A(n) \cup {n}) = Cardinality(A(n)) + 1
    BY <1>1, <2>1, FS_AddElement
  <2>. QED  BY <1>n, <2>1, <2>2, FS_Subset
<1>4. ASSUME NEW m \in T, NEW n \in T, Ahead(m, n, reverse) PROVE f[m] < f[n]
  <2>1. m \notin A(m) /\ A(m) \cup {m} \in SUBSET A(n)
    <3>1. ASSUME NEW k \in T, Ahead(k, m, reverse) PROVE Ahead(k, n, reverse)
      BY <1>4, <3>1 DEF Ahead
    <3>2. ~Ahead(m, m, reverse)
      BY DEF Ahead
    <3>. QED  BY <1>4, <3>1, <3>2
  <2>2. Cardinality(A(m) \cup {m}) = Cardinality(A(m)) + 1
    BY <1>1, <2>1, FS_AddElement
  <2>3. Cardinality(A(m)) + 1 <= Cardinality(A(n))
    BY <1>1, <2>1, <2>2, FS_Subset
  <2>. QED  BY <1>1, <1>2, <2>3
<1>5. f \in [T -> 1..N]
  <2>1. ASSUME NEW n \in T PROVE f[n] \in 1..N
    <3>1. PICK a \in Nat : a = Cardinality(A(n))
      BY <1>1
    <3>2. f[n] = a + 1 /\ a + 1 <= N
      BY <1>2, <1>3, <3>1
    <3>. QED  BY <3>2
  <2>2. f = [n \in T |-> f[n]]
    BY <1>0 DEF Places
  <2>. QED  BY <2>1, <2>2
<1>6. \A m, n \in T : m = n \/ Ahead(m, n, reverse) \/ Ahead(n, m, reverse)
  BY DEF Ahead
<1>7. \A m, n \in T : f[m] = f[n] => m = n
  BY <1>4, <1>5, <1>6
<1>8. f \in Injection(T, 1..N)
  BY <1>5, <1>7 DEF Injection, IsInjective
<1>9. IsFiniteSet(1..N) /\ Cardinality(1..N) = N
  BY FS_Interval
<1>10. f \in Surjection(T, 1..N)
  BY <1>n, <1>8, <1>9, FS_Injection
<1>11. \A m, n \in T : Ahead(m, n, reverse) <=> f[m] < f[n]
  BY <1>4, <1>5, <1>6
<1>. QED  BY <1>n, <1>0, <1>8, <1>10, <1>11 DEF Bijection

\* The numbers whose places are after a and up to c.
Between(T, f, a, c) == {m \in T : f[m] \in (a + 1)..c}

\* They are as many as those places.
LEMMA PlacesBetween ==
    ASSUME NEW T, IsFiniteSet(T), NEW f, f \in Bijection(T, 1..Cardinality(T)),
           NEW a \in Nat, NEW c \in Nat, a <= c, c <= Cardinality(T)
    PROVE  Cardinality(Between(T, f, a, c)) = c - a
<1>n. PICK N \in Nat : N = Cardinality(T)
  BY FS_CardinalityType
<1>0. f \in Bijection(T, 1..N)
  BY <1>n
<1>1. PICK W : W = {m \in T : f[m] \in (a + 1)..c}
  OBVIOUS
<1>2. IsFiniteSet(W)
  BY <1>1, FS_Subset
<1>3. /\ f \in [T -> 1..N]
      /\ \A m, n \in T : f[m] = f[n] => m = n
      /\ \A i \in 1..N : \E m \in T : f[m] = i
  BY <1>0 DEF Bijection, Injection, IsInjective, Surjection
<1>4. PICK g : g = [m \in W |-> f[m]]
  OBVIOUS
<1>5. /\ g \in [W -> (a + 1)..c]
      /\ \A m, n \in W : g[m] = g[n] => m = n
      /\ \A i \in (a + 1)..c : \E m \in W : g[m] = i
  <2>1. g \in [W -> (a + 1)..c]
    BY <1>1, <1>4
  <2>2. \A m, n \in W : g[m] = g[n] => m = n
    BY <1>1, <1>3, <1>4
  <2>3. ASSUME NEW i \in (a + 1)..c PROVE \E m \in W : g[m] = i
    <3>1. PICK m \in T : f[m] = i
      BY <1>n, <1>3
    <3>. QED  BY <1>1, <1>4, <3>1
  <2>. QED  BY <2>1, <2>2, <2>3
<1>6. ExistsBijection(W, (a + 1)..c)
  BY <1>5 DEF ExistsBijection, Bijection, Injection, IsInjective, Surjection
<1>7. Cardinality((a + 1)..c) = Cardinality(W)
  BY <1>2, <1>6, FS_Bijection
<1>8. Cardinality((a + 1)..c) = c - a
  <2>1. a + 1 \in Int /\ c \in Int
    OBVIOUS
  <2>2. Cardinality((a + 1)..c) = IF a + 1 > c THEN 0 ELSE c - (a + 1) + 1
    BY <2>1, FS_Interval
  <2>. QED  BY <2>2
<1>. QED  BY <1>1, <1>7, <1>8 DEF Between

\* In reverse the places are counted from the other end.
LEMMA PlacesReversed ==
    ASSUME NEW T, T \subseteq Nat, IsFiniteSet(T), NEW n \in T
    PROVE  Places(T, TRUE)[n] = Cardinality(T) - Places(T, FALSE)[n] + 1
<1>n. PICK N \in Nat : N = Cardinality(T)
  BY FS_CardinalityType
<1>0. PICK f : /\ f = Places(T, FALSE)
               /\ f \in Bijection(T, 1..N)
               /\ \A k, m \in T : Ahead(k, m, FALSE) <=> f[k] < f[m]
  BY <1>n, PlacesBijective
<1>1. f \in [T -> 1..N]
  BY <1>0 DEF Bijection, Injection
<1>2. {m \in T : Ahead(m, n, TRUE)} = Between(T, f, f[n], N)
  <2>1. \A m \in T : Ahead(m, n, TRUE) <=> Ahead(n, m, FALSE)
    BY DEF Ahead
  <2>2. \A m \in T : f[n] < f[m] <=> f[m] \in (f[n] + 1)..N
    BY <1>1
  <2>. QED  BY <1>0, <2>1, <2>2 DEF Between
<1>3. Cardinality(Between(T, f, f[n], N)) = N - f[n]
  <2>1. f[n] \in Nat /\ f[n] <= N /\ N <= Cardinality(T)
    BY <1>n, <1>1
  <2>2. f \in Bijection(T, 1..Cardinality(T))
    BY <1>0, PlacesBijective, Zenon
  <2>. QED  BY <2>1, <2>2, PlacesBetween
<1>4. Places(T, TRUE)[n] = N - f[n] + 1
  BY <1>2, <1>3 DEF Places
<1>. QED  BY <1>n, <1>0, <1>4

\* The numbers whose places are after a.
After(T, f, a) == {n \in T : f[n] > a}

\* Where q places after a end, if there are N.
End(a, q, N) == IF a + q < N THEN a + q ELSE N

\* U are the numbers of the places after a up to c, and counted from a they have the
\* same places among themselves.
Sliced(T, f, a, c, U, reverse) ==
    /\ Cardinality(U) = c - a
    /\ U \subseteq T
    /\ \A n \in U : /\ f[n] \in (a + 1)..c
                    /\ Cardinality({m \in U : Ahead(m, n, reverse)}) + 1 = f[n] - a

\* The nearest q numbers after the first a have the next places.
LEMMA Slice ==
    ASSUME NEW T, T \subseteq Nat, IsFiniteSet(T), NEW reverse \in BOOLEAN,
           NEW a \in Nat, a <= Cardinality(T), NEW q \in Nat
    PROVE  Sliced(T, Places(T, reverse), a, End(a, q, Cardinality(T)),
                  Nearest(After(T, Places(T, reverse), a), q, reverse), reverse)
<1>n. PICK N \in Nat : N = Cardinality(T) /\ a <= N
  BY FS_CardinalityType
<1>p. PICK f : f = Places(T, reverse)
  OBVIOUS
<1>c. PICK c \in Nat : c = End(a, q, N) /\ c = IF a + q < N THEN a + q ELSE N
  BY <1>n DEF End
<1>w. PICK W : W = After(T, f, a) /\ W = {n \in T : f[n] > a}
  BY DEF After
<1>u. PICK U : U = Nearest(W, q, reverse)
  OBVIOUS
<1>0. f \in Bijection(T, 1..Cardinality(T))
  BY <1>p, PlacesBijective
<1>1. /\ f \in [T -> 1..N]
      /\ \A m, n \in T : Ahead(m, n, reverse) <=> f[m] < f[n]
  BY <1>n, <1>p, PlacesBijective DEF Bijection, Injection
<1>2. ASSUME NEW n \in T, f[n] > a
      PROVE  Cardinality(Between(T, f, a, f[n] - 1)) = f[n] - 1 - a
  <2>1. PICK d \in Nat : d = f[n] - 1 /\ a <= d /\ d <= Cardinality(T)
    <3>1. f[n] \in 1..N
      BY <1>1
    <3>. QED  BY <1>n, <1>2, <3>1
  <2>2. Cardinality(Between(T, f, a, d)) = d - a
    BY <1>0, <2>1, PlacesBetween
  <2>. QED  BY <2>1, <2>2, Zenon
<1>3. ASSUME NEW n \in W
      PROVE  {m \in W : Ahead(m, n, reverse)} = Between(T, f, a, f[n] - 1)
  <2>1. ASSUME NEW m \in T
        PROVE  m \in W /\ Ahead(m, n, reverse) <=> f[m] \in (a + 1)..(f[n] - 1)
    <3>1. f[m] \in 1..N /\ f[n] \in 1..N /\ (Ahead(m, n, reverse) <=> f[m] < f[n])
      BY <1>1, <1>w
    <3>2. m \in W <=> f[m] > a
      BY <1>w
    <3>. QED  BY <3>1, <3>2
  <2>2. W \subseteq T
    BY <1>w
  <2>. QED  BY <2>1, <2>2 DEF Between
<1>4. ASSUME NEW n \in W
      PROVE  n \in U <=> f[n] \in (a + 1)..c
  <2>1. Cardinality({m \in W : Ahead(m, n, reverse)}) = f[n] - 1 - a
    BY <1>w, <1>2, <1>3
  <2>2. n \in U <=> Cardinality({m \in W : Ahead(m, n, reverse)}) < q
    BY <1>u DEF Nearest
  <2>3. f[n] \in 1..N /\ f[n] > a
    BY <1>w, <1>1
  <2>4. f[n] - 1 - a < q <=> f[n] \in (a + 1)..c
    BY <1>c, <2>3
  <2>. QED  BY <2>1, <2>2, <2>4
<1>5. U = Between(T, f, a, c)
  <2>1. U \subseteq W
    BY <1>u DEF Nearest
  <2>2. \A m \in T : f[m] \in (a + 1)..c => m \in W
    BY <1>w, <1>1
  <2>. QED  BY <1>w, <1>4, <2>1, <2>2 DEF Between
<1>6. Cardinality(U) = c - a
  <2>1. a <= c /\ c <= Cardinality(T)
    BY <1>n, <1>c
  <2>2. Cardinality(Between(T, f, a, c)) = c - a
    BY <1>0, <2>1, PlacesBetween
  <2>. QED  BY <1>5, <2>2, Zenon
<1>7. ASSUME NEW n \in U
      PROVE  Cardinality({m \in U : Ahead(m, n, reverse)}) + 1 = f[n] - a
  <2>1. {m \in U : Ahead(m, n, reverse)} = Between(T, f, a, f[n] - 1)
    <3>1. ASSUME NEW m \in T
          PROVE  m \in U /\ Ahead(m, n, reverse) <=> f[m] \in (a + 1)..(f[n] - 1)
      <4>1. f[m] \in 1..N /\ f[n] \in (a + 1)..c /\ (Ahead(m, n, reverse) <=> f[m] < f[n])
        BY <1>1, <1>5 DEF Between
      <4>2. m \in U <=> f[m] \in (a + 1)..c
        BY <1>5 DEF Between
      <4>. QED  BY <4>1, <4>2
    <3>2. U \subseteq T
      BY <1>5 DEF Between
    <3>. QED  BY <3>1, <3>2 DEF Between
  <2>2. f[n] \in 1..N /\ f[n] > a
    BY <1>1, <1>5 DEF Between
  <2>4. n \in T
    BY <1>5 DEF Between
  <2>3. Cardinality(Between(T, f, a, f[n] - 1)) = f[n] - 1 - a
    BY <1>2, <2>2, <2>4
  <2>5. f[n] - 1 - a + 1 = f[n] - a
    BY <2>2
  <2>. QED  BY <2>1, <2>3, <2>5, Zenon
<1>8. U \subseteq T /\ \A n \in U : f[n] \in (a + 1)..c
  BY <1>5 DEF Between
<1>9. Sliced(T, f, a, c, U, reverse)
  BY <1>6, <1>7, <1>8 DEF Sliced
<1>. QED  BY <1>n, <1>p, <1>c, <1>w, <1>u, <1>9, Zenon

-----------------------------------------------------------------------------
(* The order of the rows.                                                  *)

\* Of texts of one length, the order of texts is that of the first character in which
\* they differ, and not both come before each other.
LEMMA TextOrder ==
    ASSUME NEW s \in Seq(Nat), NEW t \in Seq(Nat), Len(s) = Len(t)
    PROVE  /\ TextBefore(s, t) <=> \E i \in 1..Len(s) : s[i] < t[i] /\ \A j \in 1..(i - 1) : s[j] = t[j]
           /\ ~(TextBefore(s, t) /\ TextBefore(t, s))
           /\ ~TextBefore(s, s)
<1> DEFINE Less(a, b) == \E i \in 1..Len(s) : a[i] < b[i] /\ \A j \in 1..(i - 1) : a[j] = b[j]
<1>1. \A a, b \in Seq(Nat) : Len(a) = Len(b) => ~IsStrictPrefix(a, b)
  <2>1. SUFFICES ASSUME NEW a \in Seq(Nat), NEW b \in Seq(Nat), Len(a) = Len(b), Begins(a, b)
                 PROVE  a = b
    BY PrefixBegins DEF IsStrictPrefix
  <2>. QED  BY <2>1, SeqEqual DEF Begins
<1>2. \A a, b \in Seq(Nat) : Len(a) = Len(s) /\ Len(b) = Len(s) => (TextBefore(a, b) <=> Less(a, b))
  BY <1>1 DEF TextBefore
<1>3. ~Less(s, s)
  OBVIOUS
<1>4. ASSUME Less(s, t), Less(t, s) PROVE FALSE
  <2>1. PICK i \in 1..Len(s) : s[i] < t[i] /\ \A j \in 1..(i - 1) : s[j] = t[j]
    BY <1>4
  <2>2. PICK k \in 1..Len(s) : t[k] < s[k] /\ \A j \in 1..(k - 1) : t[j] = s[j]
    BY <1>4
  <2>3. s[i] \in Nat /\ t[i] \in Nat /\ s[k] \in Nat /\ t[k] \in Nat
    OBVIOUS
  <2>4. CASE i < k
    BY <2>1, <2>2, <2>3, <2>4
  <2>5. CASE k < i
    BY <2>1, <2>2, <2>3, <2>5
  <2>6. CASE i = k
    BY <2>1, <2>2, <2>3, <2>6
  <2>. QED  BY <2>4, <2>5, <2>6
<1>. QED  BY <1>2, <1>3, <1>4

\* Where the digits are in the key of an event.
LEMMA FullKeyDigits ==
    ASSUME NEW t \in Seq(Nat), NEW n \in Numbers
    PROVE  /\ FullKey(t, n) \in Seq(Nat)
           /\ Len(FullKey(t, n)) = Len(t) + 1 + Width
           /\ \A i \in 1..(Len(t) + 1) : FullKey(t, n)[i] = (t \o <<Dot>>)[i]
           /\ \A i \in 1..Width : FullKey(t, n)[Len(t) + 1 + i] = KeyOf(n)[i]
           /\ SubSeq(FullKey(t, n), Len(t) + 2, Len(FullKey(t, n))) = KeyOf(n)
<1>1. <<Dot>> \in Seq(Nat) /\ Len(<<Dot>>) = 1
  BY DEF Dot
<1>2. PICK h \in Seq(Nat) : h = t \o <<Dot>>
  BY <1>1, ConcatProperties, Zenon
<1>l. PICK l \in Nat, w \in Nat : l = Len(t) /\ w = Width /\ w > 0
  BY DigitsAssumption
<1>h. Len(h) = l + 1
  BY <1>1, <1>2, <1>l, ConcatProperties
<1>3. PICK key \in Seq(Nat) : key = KeyOf(n) /\ Len(key) = w
  BY <1>l, KeyTypes
<1>4. PICK full \in Seq(Nat) : full = h \o key
  BY ConcatProperties, Zenon
<1>5. /\ FullKey(t, n) = full
      /\ Len(full) = l + 1 + w
      /\ \A i \in 1..(l + 1) : full[i] = h[i]
      /\ \A i \in 1..w : full[l + 1 + i] = key[i]
  <2>1. FullKey(t, n) = full
    BY <1>2, <1>3, <1>4, Zenon DEF FullKey
  <2>2. /\ Len(full) = Len(h) + Len(key)
        /\ \A i \in 1..(Len(h) + Len(key)) : full[i] = IF i <= Len(h) THEN h[i] ELSE key[i - Len(h)]
    BY <1>4, ConcatProperties
  <2>3. /\ Len(full) = l + 1 + w
        /\ \A i \in 1..(l + 1 + w) : full[i] = IF i <= l + 1 THEN h[i] ELSE key[i - (l + 1)]
    BY <1>h, <1>3, <2>2
  <2>4. ASSUME NEW i \in 1..(l + 1) PROVE full[i] = h[i]
    <3>1. i \in 1..(l + 1 + w) /\ i <= l + 1
      OBVIOUS
    <3>. QED  BY <2>3, <3>1
  <2>5. ASSUME NEW i \in 1..w PROVE full[l + 1 + i] = key[i]
    <3>1. l + 1 + i \in 1..(l + 1 + w) /\ ~(l + 1 + i <= l + 1) /\ l + 1 + i - (l + 1) = i
      OBVIOUS
    <3>. QED  BY <2>3, <3>1
  <2>. QED  BY <2>1, <2>3, <2>4, <2>5
<1>6. SubSeq(full, l + 2, l + 1 + w) = key
  <2>0. l + 2 \in 1..(Len(full) + 1) /\ l + 1 + w \in (l + 1)..Len(full) /\ l + 1 + w - (l + 2) + 1 = w
    <3>1. Len(full) = l + 1 + w
      BY <1>5, Zenon
    <3>2. l + 2 \in 1..(l + 1 + w + 1) /\ l + 1 + w \in (l + 1)..(l + 1 + w)
          /\ l + 1 + w - (l + 2) + 1 = w
      BY <1>l
    <3>. QED  BY <3>1, <3>2, Zenon
  <2>1. PICK sub : sub = SubSeq(full, l + 2, l + 1 + w)
    OBVIOUS
  <2>2. sub \in Seq(Nat) /\ Len(sub) = w /\ \A i \in 1..w : sub[i] = full[l + 2 + i - 1]
    BY <1>5, <2>0, <2>1, SubSeqProperties
  <2>3. \A i \in 1..w : l + 2 + i - 1 = l + 1 + i
    OBVIOUS
  <2>4. \A i \in 1..w : sub[i] = key[i]
    BY <1>5, <2>2, <2>3
  <2>5. sub = key
    BY <1>3, <2>2, <2>4, SeqEqual
  <2>. QED  BY <2>1, <2>5
<1>. QED  BY <1>2, <1>l, <1>h, <1>3, <1>5, <1>6

\* The keys of one prefix are in the order of their numbers.
LEMMA FullKeyOrder ==
    ASSUME NEW t \in Seq(Nat), NEW m \in Numbers, NEW n \in Numbers, m < n
    PROVE  TextBefore(FullKey(t, m), FullKey(t, n))
<1>1. PICK i \in 1..Width : /\ KeyOf(m)[i] < KeyOf(n)[i]
                            /\ \A j \in 1..(i - 1) : KeyOf(m)[j] = KeyOf(n)[j]
  BY KeyOrder DEF Precedes
<1>2. PICK l \in Nat, w \in Nat : l = Len(t) /\ w = Width
  BY DigitsAssumption
<1>3. PICK a \in Seq(Nat), b \in Seq(Nat) : a = FullKey(t, m) /\ b = FullKey(t, n)
  BY FullKeyDigits
<1>4. /\ Len(a) = l + 1 + w /\ Len(b) = l + 1 + w
      /\ \A j \in 1..(l + 1) : a[j] = b[j]
      /\ \A j \in 1..w : a[l + 1 + j] = KeyOf(m)[j] /\ b[l + 1 + j] = KeyOf(n)[j]
  <2>1. /\ Len(a) = l + 1 + w
        /\ \A j \in 1..(l + 1) : a[j] = (t \o <<Dot>>)[j]
        /\ \A j \in 1..w : a[l + 1 + j] = KeyOf(m)[j]
    BY <1>2, <1>3, FullKeyDigits, Zenon
  <2>2. /\ Len(b) = l + 1 + w
        /\ \A j \in 1..(l + 1) : b[j] = (t \o <<Dot>>)[j]
        /\ \A j \in 1..w : b[l + 1 + j] = KeyOf(n)[j]
    BY <1>2, <1>3, FullKeyDigits, Zenon
  <2>3. PICK h : h = t \o <<Dot>>
    OBVIOUS
  <2>4. \A j \in 1..(l + 1) : a[j] = h[j] /\ b[j] = h[j]
    BY <2>1, <2>2, <2>3, Zenon
  <2>. QED  BY <2>1, <2>2, <2>4
<1>5. PICK k \in 1..Len(a) : k = l + 1 + i
  <2>1. l + 1 + i \in 1..(l + 1 + w)
    BY <1>2
  <2>. QED  BY <1>4, <2>1
<1>6. a[k] < b[k]
  BY <1>1, <1>2, <1>4, <1>5
<1>7. ASSUME NEW j \in 1..(k - 1) PROVE a[j] = b[j]
  <2>1. CASE j <= l + 1
    BY <1>4, <2>1
  <2>2. CASE j > l + 1
    <3>1. PICK h \in 1..(i - 1) : j = l + 1 + h
      <4>1. j - (l + 1) \in 1..(i - 1)
        BY <1>2, <1>5, <2>2
      <4>. QED  BY <4>1
    <3>2. h \in 1..w
      BY <1>2
    <3>. QED  BY <1>1, <1>4, <3>1, <3>2
  <2>. QED  BY <2>1, <2>2
<1>8. \E i0 \in 1..Len(a) : a[i0] < b[i0] /\ \A j \in 1..(i0 - 1) : a[j] = b[j]
  BY <1>6, <1>7
<1>9. TextBefore(a, b)
  BY <1>4, <1>8, TextOrder
<1>. QED  BY <1>3, <1>9

\* The keys without a prefix are in the order of their numbers.
LEMMA KeyTextOrder ==
    ASSUME NEW m \in Numbers, NEW n \in Numbers, m < n
    PROVE  TextBefore(KeyOf(m), KeyOf(n))
<1>1. PICK a \in Seq(Nat), b \in Seq(Nat) :
          a = KeyOf(m) /\ b = KeyOf(n) /\ Len(a) = Width /\ Len(b) = Width
  BY KeyTypes
<1>. QED  BY <1>1, KeyOrder, TextOrder DEF Precedes

\* The rows of an owner are in the order of the numbers of its events.
LEMMA RowOrder ==
    ASSUME SetUp, NEW o \in Owners, NEW m \in Numbers, NEW n \in Numbers
    PROVE  TextBefore(EventRow(o, m)[2], EventRow(o, n)[2]) <=> m < n
<1>1. /\ backend \in {"memory", "rocksdb", "sqlite"}
      /\ prefix[o] \in Seq(Nat)
      /\ m \in Nat /\ n \in Nat
  BY SetUpTypes, DigitsAssumption
<1>2. \A k \in Numbers : EventRow(o, k)[2] = IF backend = "sqlite" THEN KeyOf(k)
                                             ELSE FullKey(prefix[o], k)
  BY <1>1 DEF EventRow, FullKey
<1>3. PICK a \in Seq(Nat), b \in Seq(Nat) :
          a = EventRow(o, m)[2] /\ b = EventRow(o, n)[2] /\ Len(a) = Len(b)
  <2>1. CASE backend = "sqlite"
    BY <1>2, <2>1, KeyTypes
  <2>2. CASE backend # "sqlite"
    <3>1. /\ FullKey(prefix[o], m) \in Seq(Nat) /\ FullKey(prefix[o], n) \in Seq(Nat)
          /\ Len(FullKey(prefix[o], m)) = Len(prefix[o]) + 1 + Width
          /\ Len(FullKey(prefix[o], n)) = Len(prefix[o]) + 1 + Width
      BY <1>1, FullKeyDigits, Zenon
    <3>. QED  BY <1>2, <2>2, <3>1
  <2>. QED  BY <2>1, <2>2
<1>4. /\ m < n => TextBefore(a, b)
      /\ n < m => TextBefore(b, a)
  BY <1>1, <1>2, <1>3, KeyTextOrder, FullKeyOrder
<1>5. m = n => a = b
  BY <1>3
<1>. QED  BY <1>1, <1>3, <1>4, <1>5, TextOrder

\* The table of events holds the rows of owners' events, and finitely many.
RowsOK ==
    /\ \A row \in DOMAIN events : \E o \in Owners, n \in Numbers : row = EventRow(o, n)
    /\ IsFiniteSet(DOMAIN events)

\* Every operation keeps RowsOK.
LEMMA RowsStep ==
    ASSUME SetUp, RowsOK, [Next]_vars
    PROVE  RowsOK'
<1>1. \A o \in Owners, n \in Numbers : EventRow(o, n)' = EventRow(o, n)
  BY Frozen
<1>2. \/ \E rows : events' = Without(events, rows)
      \/ events' = events
      \/ \E o \in Owners, n \in Numbers, v \in Values : events' = Written(events, EventRow(o, n), v)
  BY DEF Next, vars, PutEvent, DelEvent, PutState, DelState, PurgeEvents, PurgeState
<1>3. \A row \in DOMAIN events' : \E o \in Owners, n \in Numbers : row = EventRow(o, n)
  BY <1>2 DEF RowsOK, Without, Written
<1>4. IsFiniteSet(DOMAIN events')
  <2>1. IsFiniteSet(DOMAIN events)
    BY DEF RowsOK
  <2>2. CASE events' = events
    BY <2>1, <2>2
  <2>3. ASSUME NEW rows, events' = Without(events, rows) PROVE IsFiniteSet(DOMAIN events')
    <3>1. DOMAIN events' = DOMAIN events \ rows
      BY <2>3 DEF Without
    <3>. QED  BY <2>1, <3>1, FS_Subset
  <2>4. ASSUME NEW row, NEW v, events' = Written(events, row, v) PROVE IsFiniteSet(DOMAIN events')
    <3>1. DOMAIN events' = DOMAIN events \cup {row}
      BY <2>4 DEF Written
    <3>2. IsFiniteSet(DOMAIN events \cup {row})
      BY <2>1, FS_AddElement
    <3>. QED  BY <3>1, <3>2
  <2>. QED  BY <1>2, <2>2, <2>3, <2>4
<1>. QED  BY <1>1, <1>3, <1>4 DEF RowsOK

\* Events and their rows are equally many.
LEMMA RowsCounted ==
    ASSUME SetUp, NEW o \in Owners, NEW W, W \subseteq Numbers, IsFiniteSet(W)
    PROVE  Cardinality({EventRow(o, n) : n \in W}) = Cardinality(W)
<1>1. PICK R : R = {EventRow(o, n) : n \in W}
  OBVIOUS
<1>2. PICK f : f = [n \in W |-> EventRow(o, n)]
  OBVIOUS
<1>3. /\ f \in [W -> R]
      /\ \A m, n \in W : f[m] = f[n] => m = n
      /\ \A row \in R : \E n \in W : f[n] = row
  BY <1>1, <1>2, RowsDiffer
<1>4. ExistsBijection(W, R)
  BY <1>3 DEF ExistsBijection, Bijection, Injection, IsInjective, Surjection
<1>. QED  BY <1>1, <1>4, FS_Bijection

\* If the prefixes are apart, what iter selects are the rows of the owner's events.
LEMMA SelectedRows ==
    ASSUME PrefixesApart, SetUp, RowsOK, NEW o \in Owners
    PROVE  /\ Selected(o, events) = {EventRow(o, n) : n \in Stored(o)}
           /\ Stored(o) \subseteq Nat /\ Stored(o) \subseteq Numbers
           /\ IsFiniteSet(Stored(o))
<1>1. Stored(o) \subseteq Numbers /\ Numbers \subseteq Nat
  BY DigitsAssumption DEF Stored
<1>2. ASSUME NEW row \in Selected(o, events) PROVE row \in {EventRow(o, n) : n \in Stored(o)}
  <2>1. PICK p \in Owners, n \in Numbers : row = EventRow(p, n)
    BY <1>2 DEF Selected, RowsOK
  <2>2. p = o
    BY <1>2, <2>1, OtherRows DEF Selected
  <2>. QED  BY <1>2, <2>1, <2>2 DEF Selected, Stored
<1>3. ASSUME NEW n \in Stored(o) PROVE EventRow(o, n) \in Selected(o, events)
  BY OwnRowsSelected DEF Selected, Stored
<1>4. IsFiniteSet(Stored(o))
  <2>1. PICK f : f = [n \in Stored(o) |-> EventRow(o, n)]
    OBVIOUS
  <2>2. f \in Injection(Stored(o), DOMAIN events)
    <3>1. f \in [Stored(o) -> DOMAIN events]
      BY <2>1 DEF Stored
    <3>2. \A m, n \in Stored(o) : f[m] = f[n] => m = n
      BY <1>1, <2>1, RowsDiffer
    <3>. QED  BY <3>1, <3>2 DEF Injection, IsInjective
  <2>3. IsFiniteSet(DOMAIN events)
    BY DEF RowsOK
  <2>. QED  BY <2>2, <2>3, FS_Injection
<1>. QED  BY <1>1, <1>2, <1>3, <1>4

\* The rank of a row is the place of its number.
LEMMA RankIsPlace ==
    ASSUME PrefixesApart, SetUp, RowsOK, NEW o \in Owners, NEW n \in Stored(o)
    PROVE  Rank(EventRow(o, n), Selected(o, events)) = Places(Stored(o), FALSE)[n] - 1
<1>1. PICK T : T = Stored(o) /\ T \subseteq Numbers /\ T \subseteq Nat /\ IsFiniteSet(T)
  BY SelectedRows
<1>2. PICK W : W = {m \in T : Ahead(m, n, FALSE)}
  OBVIOUS
<1>3. {other \in Selected(o, events) : TextBefore(other[2], EventRow(o, n)[2])}
          = {EventRow(o, m) : m \in W}
  <2>1. Selected(o, events) = {EventRow(o, m) : m \in T}
    BY <1>1, SelectedRows
  <2>2. \A m \in T : TextBefore(EventRow(o, m)[2], EventRow(o, n)[2]) <=> m < n
    BY <1>1, RowOrder
  <2>3. \A m \in T : m \in W <=> m < n
    BY <1>2 DEF Ahead
  <2>. QED  BY <1>2, <2>1, <2>2, <2>3
<1>4. Cardinality({EventRow(o, m) : m \in W}) = Cardinality(W)
  <2>1. IsFiniteSet(W) /\ W \subseteq Numbers
    BY <1>1, <1>2, FS_Subset
  <2>. QED  BY <2>1, RowsCounted
<1>5. Rank(EventRow(o, n), Selected(o, events)) = Cardinality(W)
  BY <1>3, <1>4 DEF Rank
<1>6. Places(Stored(o), FALSE)[n] = Cardinality(W) + 1 /\ Cardinality(W) \in Nat
  <2>1. IsFiniteSet(W)
    BY <1>1, <1>2, FS_Subset
  <2>. QED  BY <1>1, <1>2, <2>1, FS_CardinalityType DEF Places
<1>7. PICK w \in Nat : w = Cardinality(W)
  BY <1>6
<1>8. (w + 1) - 1 = w
  OBVIOUS
<1>. QED  BY <1>5, <1>6, <1>7, <1>8, Zenon

-----------------------------------------------------------------------------
(* Iteration.                                                              *)

\* What iteration shows of an event.
Item(o, n) == [key |-> KeyOf(n), value |-> LogOf(o)[n]]

\* The items are those of the owner's events, each at the place of its number.
Lists(items, o, reverse) ==
    /\ items \in Seq({Item(o, n) : n \in Stored(o)})
    /\ Len(items) = Cardinality(Stored(o))
    /\ \A n \in Stored(o) : items[Places(Stored(o), reverse)[n]] = Item(o, n)

\* The rows in order: each at the place of its number.
LEMMA RowsPlaced ==
    ASSUME PrefixesApart, SetUp, RowsOK, NEW o \in Owners
    PROVE  /\ RowsInOrder(Selected(o, events)) \in Seq({EventRow(o, n) : n \in Stored(o)})
           /\ Len(RowsInOrder(Selected(o, events))) = Cardinality(Stored(o))
           /\ \A n \in Stored(o) : RowsInOrder(Selected(o, events))[Places(Stored(o), FALSE)[n]]
                                      = EventRow(o, n)
<1>1. PICK T : T = Stored(o) /\ T \subseteq Numbers /\ T \subseteq Nat /\ IsFiniteSet(T)
  BY SelectedRows
<1>2. PICK N \in Nat : N = Cardinality(T)
  BY <1>1, FS_CardinalityType
<1>3. PICK R : R = Selected(o, events) /\ R = {EventRow(o, n) : n \in T} /\ Cardinality(R) = N
  BY <1>1, <1>2, SelectedRows, RowsCounted
<1>4. PICK f : f = Places(T, FALSE) /\ f \in Bijection(T, 1..N)
  BY <1>1, <1>2, PlacesBijective
<1>5. /\ f \in [T -> 1..N]
      /\ \A m, n \in T : f[m] = f[n] => m = n
      /\ \A i \in 1..N : \E m \in T : f[m] = i
  BY <1>4 DEF Bijection, Injection, IsInjective, Surjection
<1>6. \A n \in T : Rank(EventRow(o, n), R) = f[n] - 1
  BY <1>1, <1>3, <1>4, RankIsPlace
<1>7. PICK rows : rows = [i \in 1..N |-> CHOOSE row \in R : Rank(row, R) = i - 1]
  OBVIOUS
<1>8. ASSUME NEW n \in T PROVE rows[f[n]] = EventRow(o, n)
  <2>1. f[n] \in 1..N
    BY <1>5
  <2>2. rows[f[n]] = CHOOSE row \in R : Rank(row, R) = f[n] - 1
    BY <1>7, <2>1
  <2>3. EventRow(o, n) \in R /\ Rank(EventRow(o, n), R) = f[n] - 1
    BY <1>3, <1>6
  <2>4. ASSUME NEW row \in R, Rank(row, R) = f[n] - 1 PROVE row = EventRow(o, n)
    <3>1. PICK m \in T : row = EventRow(o, m)
      BY <1>3
    <3>2. f[m] \in Nat /\ f[n] \in Nat /\ f[m] - 1 = f[n] - 1
      BY <1>5, <1>6, <2>4, <3>1
    <3>3. m = n
      BY <1>5, <3>2
    <3>. QED  BY <3>1, <3>3
  <2>. QED  BY <2>2, <2>3, <2>4
<1>9. rows \in [1..N -> R]
  <2>1. ASSUME NEW i \in 1..N PROVE rows[i] \in R
    BY <1>3, <1>5, <1>8
  <2>. QED  BY <1>7, <2>1
<1>10. rows \in Seq(R) /\ Len(rows) = N
  BY <1>9
<1>11. RowsInOrder(Selected(o, events)) = rows
  BY <1>3, <1>7 DEF RowsInOrder
<1>. QED  BY <1>1, <1>2, <1>3, <1>4, <1>8, <1>10, <1>11

\* The key that iteration shows of an event's row is the number's.
LEMMA KeyShown ==
    ASSUME SetUp, NEW o \in Owners, NEW n \in Numbers
    PROVE  KeyText(o, EventRow(o, n)) = KeyOf(n)
<1>1. backend \in {"memory", "rocksdb", "sqlite"} /\ prefix[o] \in Seq(Nat)
  BY SetUpTypes
<1>2. CASE backend = "sqlite"
  BY <1>2 DEF KeyText, EventRow
<1>3. CASE backend # "sqlite"
  <2>1. EventRow(o, n)[2] = FullKey(prefix[o], n)
    BY <1>1, <1>3 DEF EventRow, FullKey
  <2>2. SubSeq(FullKey(prefix[o], n), Len(prefix[o]) + 2, Len(FullKey(prefix[o], n))) = KeyOf(n)
    BY <1>1, FullKeyDigits, Zenon
  <2>. QED  BY <1>3, <2>1, <2>2 DEF KeyText
<1>. QED  BY <1>2, <1>3

\* Iteration forwards.
LEMMA IterForwards ==
    ASSUME PrefixesApart, SetUp, RowsOK, NEW o \in Owners
    PROVE  Lists(Iter(o, FALSE), o, FALSE)
<1>1. PICK T : T = Stored(o) /\ T \subseteq Numbers /\ T \subseteq Nat /\ IsFiniteSet(T)
  BY SelectedRows
<1>2. PICK N \in Nat : N = Cardinality(T)
  BY <1>1, FS_CardinalityType
<1>3. PICK f : f = Places(T, FALSE) /\ f \in Bijection(T, 1..N)
  BY <1>1, <1>2, PlacesBijective
<1>4. PICK R : R = {EventRow(o, n) : n \in T}
  OBVIOUS
<1>5. PICK rows \in Seq(R) : /\ rows = RowsInOrder(Selected(o, events)) /\ Len(rows) = N
                             /\ \A n \in T : rows[f[n]] = EventRow(o, n)
  BY <1>1, <1>2, <1>3, <1>4, RowsPlaced
<1>6. PICK items : items = [i \in 1..N |-> [key |-> KeyText(o, rows[i]), value |-> events[rows[i]]]]
  OBVIOUS
<1>7. Iter(o, FALSE) = items
  BY <1>5, <1>6 DEF Iter
<1>8. ASSUME NEW n \in T
      PROVE  [key |-> KeyText(o, EventRow(o, n)), value |-> events[EventRow(o, n)]] = Item(o, n)
  BY <1>1, KeyShown DEF Item, LogOf
<1>9. f \in [T -> 1..N]
  BY <1>3 DEF Bijection, Injection
<1>10. ASSUME NEW n \in T PROVE items[f[n]] = Item(o, n)
  BY <1>5, <1>6, <1>8, <1>9
<1>11. ASSUME NEW i \in 1..N PROVE items[i] \in {Item(o, n) : n \in T}
  <2>1. PICK n \in T : rows[i] = EventRow(o, n)
    BY <1>4, <1>5
  <2>. QED  BY <1>6, <1>8, <2>1
<1>12. items \in [1..N -> {Item(o, n) : n \in T}]
  BY <1>6, <1>11
<1>13. items \in Seq({Item(o, n) : n \in T}) /\ Len(items) = N
  BY <1>12
<1>. QED  BY <1>1, <1>2, <1>3, <1>7, <1>10, <1>13 DEF Lists

\* Iteration in reverse.
LEMMA IterBackwards ==
    ASSUME PrefixesApart, SetUp, RowsOK, NEW o \in Owners
    PROVE  /\ Iter(o, TRUE) = Reverse(Iter(o, FALSE))
           /\ Lists(Iter(o, TRUE), o, TRUE)
<1>1. PICK T : T = Stored(o) /\ T \subseteq Numbers /\ T \subseteq Nat /\ IsFiniteSet(T)
  BY SelectedRows
<1>2. PICK N \in Nat : N = Cardinality(T)
  BY <1>1, FS_CardinalityType
<1>3. PICK I : I = {Item(o, n) : n \in T}
  OBVIOUS
<1>4. PICK f : f = Places(T, FALSE) /\ f \in Bijection(T, 1..N)
  BY <1>1, <1>2, PlacesBijective
<1>5. PICK g : g = Places(T, TRUE)
  OBVIOUS
<1>6. PICK items \in Seq(I) : /\ items = Iter(o, FALSE) /\ Len(items) = N
                              /\ \A n \in T : items[f[n]] = Item(o, n)
  BY <1>1, <1>2, <1>3, <1>4, IterForwards DEF Lists
<1>7. Iter(o, TRUE) = Reverse(items)
  BY <1>6 DEF Iter
<1>8. PICK back : back = [i \in 1..N |-> items[(N - i) + 1]]
  OBVIOUS
<1>9. Reverse(items) = back
  BY <1>6, <1>8 DEF Reverse
<1>10. back \in Seq(I) /\ Len(back) = N
  <2>1. back \in [1..N -> I]
    <3>1. ASSUME NEW i \in 1..N PROVE items[(N - i) + 1] \in I
      <4>1. (N - i) + 1 \in 1..N
        OBVIOUS
      <4>2. Len(items) = N
        BY <1>6, Zenon
      <4>. QED  BY <4>1, <4>2
    <3>. QED  BY <1>8, <3>1
  <2>. QED  BY <2>1
<1>11. f \in [T -> 1..N]
  BY <1>4 DEF Bijection, Injection
<1>12. ASSUME NEW n \in T PROVE back[g[n]] = Item(o, n)
  <2>1. g[n] = N - f[n] + 1
    BY <1>1, <1>2, <1>4, <1>5, PlacesReversed
  <2>2. g[n] \in 1..N /\ (N - g[n]) + 1 = f[n]
    BY <1>11, <2>1
  <2>. QED  BY <1>6, <1>8, <2>2
<1>. QED  BY <1>1, <1>2, <1>3, <1>5, <1>6, <1>7, <1>9, <1>10, <1>12 DEF Lists

\* Iteration in each direction.
LEMMA IterLists ==
    ASSUME PrefixesApart, SetUp, RowsOK, NEW o \in Owners, NEW reverse \in BOOLEAN
    PROVE  Lists(Iter(o, reverse), o, reverse)
<1>1. CASE reverse = FALSE
  BY <1>1, IterForwards, Zenon
<1>2. CASE reverse = TRUE
  BY <1>2, IterBackwards, Zenon
<1>. QED  BY <1>1, <1>2

\* IterInOrder, from what is known of the rows.
LEMMA IterOrdered ==
    ASSUME PrefixesApart, SetUp, RowsOK
    PROVE  IterInOrder
<1>. SUFFICES ASSUME NEW o \in Owners
              PROVE  /\ Len(Iter(o, FALSE)) = Cardinality(Stored(o))
                     /\ \A n \in Stored(o) :
                           Iter(o, FALSE)[Cardinality({m \in Stored(o) : m <= n})] = Item(o, n)
                     /\ Iter(o, TRUE) = Reverse(Iter(o, FALSE))
                     /\ \A n \in Stored(o) : (\A m \in Stored(o) : m <= n)
                                               => LastItem(o)[1].key = KeyOf(n)
  BY DEF IterInOrder, Item
<1>1. PICK T : T = Stored(o) /\ T \subseteq Nat /\ IsFiniteSet(T)
  BY SelectedRows
<1>2. /\ Len(Iter(o, FALSE)) = Cardinality(T)
      /\ \A n \in T : Iter(o, FALSE)[Places(T, FALSE)[n]] = Item(o, n)
  BY <1>1, IterForwards DEF Lists
<1>3. Iter(o, TRUE) = Reverse(Iter(o, FALSE))
  BY IterBackwards
<1>4. ASSUME NEW n \in T
      PROVE  Cardinality({m \in T : m <= n}) = Places(T, FALSE)[n]
  <2>1. PICK W : W = {m \in T : Ahead(m, n, FALSE)}
    OBVIOUS
  <2>2. {m \in T : m <= n} = W \cup {n} /\ n \notin W /\ W \in SUBSET T
    BY <1>1, <2>1 DEF Ahead
  <2>3. IsFiniteSet(W)
    BY <1>1, <2>2, FS_Subset
  <2>4. Cardinality(W \cup {n}) = Cardinality(W) + 1
    BY <2>2, <2>3, FS_AddElement
  <2>. QED  BY <2>1, <2>2, <2>4 DEF Places
<1>5. ASSUME NEW n \in T, \A m \in T : m <= n PROVE LastItem(o)[1].key = KeyOf(n)
  <2>1. PICK N \in Nat : N = Cardinality(T)
    BY <1>1, FS_CardinalityType
  <2>2. PICK items : /\ items = Iter(o, TRUE) /\ items \in Seq({Item(o, k) : k \in T})
                     /\ Len(items) = N /\ items[Places(T, TRUE)[n]] = Item(o, n)
    BY <1>1, <2>1, IterBackwards DEF Lists
  <2>3. Places(T, TRUE)[n] = 1
    <3>1. {m \in T : Ahead(m, n, TRUE)} = {}
      BY <1>1, <1>5 DEF Ahead
    <3>2. Cardinality({m \in T : Ahead(m, n, TRUE)}) = 0
      BY <3>1, FS_EmptySet, Zenon
    <3>3. Places(T, TRUE)[n] = Cardinality({m \in T : Ahead(m, n, TRUE)}) + 1
      BY DEF Places
    <3>4. 0 + 1 = 1
      OBVIOUS
    <3>. QED  BY <3>2, <3>3, <3>4, Zenon
  <2>4. N # 0
    BY <1>1, <2>1, FS_EmptySet
  <2>5. SubSeq(items, 1, 1)[1] = items[1]
    BY <2>2, <2>4
  <2>6. items[1] = Item(o, n) /\ LastItem(o)[1] = items[1]
    BY <2>2, <2>3, <2>5, Zenon DEF LastItem
  <2>7. Item(o, n).key = KeyOf(n)
    BY DEF Item
  <2>. QED  BY <2>6, <2>7, Zenon
<1>. QED  BY <1>1, <1>2, <1>3, <1>4, <1>5

\* If no two prefixes are equal and, in RocksDB, none begins another, iter shows an owner
\* exactly its own events, in the order of their numbers or the reverse, and last the one
\* of the highest number: what a store takes its counter from when it opens.
THEOREM IterationOrdered ==
    ASSUME PrefixesApart
    PROVE  Spec => []IterInOrder
<1>1. Init => SetUp /\ RowsOK
  BY FS_EmptySet DEF Init, SetUp, RowsOK, Table
<1>2. SetUp /\ RowsOK /\ [Next]_vars => SetUp' /\ RowsOK'
  BY Frozen, RowsStep
<1>3. SetUp /\ RowsOK => IterInOrder
  BY IterOrdered
<1>. QED  BY <1>1, <1>2, <1>3, PTL DEF Spec

-----------------------------------------------------------------------------
(* Ranges.                                                                 *)

\* Whether an item has the key.
Has(items, key) == \E i \in 1..Len(items) : items[i].key = key

\* Where the range begins, and whether its first key is there.
LEMMA RangeBegins ==
    ASSUME NEW o \in Owners, NEW items, NEW reverse \in BOOLEAN, Lists(items, o, reverse),
           Stored(o) \subseteq Numbers, Stored(o) \subseteq Nat, IsFiniteSet(Stored(o)),
           NEW from \in Numbers
    PROVE  /\ Has(items, KeyOf(from)) <=> from \in Stored(o)
           /\ from \in Stored(o)
                => PassedOver(KeyOf(from), items) = Places(Stored(o), reverse)[from]
<1>t. PICK T : T = Stored(o) /\ T \subseteq Numbers /\ T \subseteq Nat /\ IsFiniteSet(T)
  OBVIOUS
<1>p. PICK f : f = Places(T, reverse)
  OBVIOUS
<1>1. PICK N \in Nat : N = Cardinality(T)
  BY <1>t, FS_CardinalityType
<1>2. /\ f \in [T -> 1..N]
      /\ \A i \in 1..N : \E m \in T : f[m] = i
  BY <1>t, <1>p, <1>1, PlacesBijective DEF Bijection, Injection, Surjection
<1>3. Len(items) = N /\ \A n \in T : items[f[n]] = Item(o, n)
  BY <1>t, <1>p, <1>1, Zenon DEF Lists
<1>4. ASSUME NEW i \in 1..N
      PROVE  \E n \in T : f[n] = i /\ items[i].key = KeyOf(n)
  <2>1. PICK n \in T : f[n] = i
    BY <1>2
  <2>2. Item(o, n).key = KeyOf(n)
    BY DEF Item
  <2>3. items[i] = Item(o, n)
    BY <1>3, <2>1, Zenon
  <2>. QED  BY <2>1, <2>2, <2>3, Zenon
<1>5. ASSUME NEW i \in 1..N
      PROVE  items[i].key = KeyOf(from) <=> from \in T /\ f[from] = i
  <2>1. PICK n \in T : f[n] = i /\ items[i].key = KeyOf(n)
    BY <1>4
  <2>2. CASE items[i].key = KeyOf(from)
    <3>1. n = from
      BY <1>t, <2>1, <2>2, DifferentKeys
    <3>. QED  BY <2>1, <2>2, <3>1
  <2>3. CASE from \in T /\ f[from] = i
    <3>1. items[i] = Item(o, from)
      BY <1>3, <2>3, Zenon
    <3>2. Item(o, from).key = KeyOf(from)
      BY DEF Item
    <3>. QED  BY <2>3, <3>1, <3>2, Zenon
  <2>. QED  BY <2>2, <2>3
<1>6. from \in T => PassedOver(KeyOf(from), items) = f[from]
  <2>1. SUFFICES ASSUME from \in T PROVE PassedOver(KeyOf(from), items) = f[from]
    OBVIOUS
  <2>2. f[from] \in 1..N
    BY <1>2, <2>1
  <2>3. PassedOver(KeyOf(from), items) = CHOOSE i \in 1..N : items[i].key = KeyOf(from)
    BY <1>3, Zenon DEF PassedOver
  <2>. QED  BY <1>5, <2>1, <2>2, <2>3
<1>7. Has(items, KeyOf(from)) <=> from \in T
  BY <1>2, <1>3, <1>5 DEF Has
<1>. QED  BY <1>t, <1>p, <1>6, <1>7, Zenon


\* get_by_range on the items of iteration.
Cut(items, key, q) ==
    LET found == key = NoKey \/ Has(items, key)
        passed == IF key = NoKey THEN 0 ELSE PassedOver(key, items)
    IN  IF ~found THEN [ok |-> FALSE, items |-> <<>>]
        ELSE [ok |-> TRUE, items |-> SubSeq(items, passed + 1, End(passed, q, Len(items)))]

\* The events of a range, each where its place puts it.
ShowsChosen(o, range, chosen, reverse) ==
    /\ Len(range) = Cardinality(chosen)
    /\ \A n \in chosen :
          range[Cardinality({m \in chosen : Ahead(m, n, reverse)}) + 1].value = LogOf(o)[n]

\* The items after the first a of them are the nearest numbers with higher places.
LEMMA CutShows ==
    ASSUME NEW o \in Owners, NEW items, NEW reverse \in BOOLEAN, Lists(items, o, reverse),
           Stored(o) \subseteq Nat, IsFiniteSet(Stored(o)),
           NEW a \in Nat, a <= Cardinality(Stored(o)), NEW q \in Nat
    PROVE  ShowsChosen(o, SubSeq(items, a + 1, End(a, q, Cardinality(Stored(o)))),
                       Nearest(After(Stored(o), Places(Stored(o), reverse), a), q, reverse), reverse)
<1>t. PICK T : T = Stored(o) /\ T \subseteq Nat /\ IsFiniteSet(T) /\ a <= Cardinality(T)
  OBVIOUS
<1>n. PICK N \in Nat : N = Cardinality(T) /\ a <= N
  BY <1>t, FS_CardinalityType
<1>p. PICK f : f = Places(T, reverse)
  OBVIOUS
<1>1. PICK c \in Nat : c = End(a, q, N) /\ a <= c /\ c <= N
  BY <1>n DEF End
<1>2. PICK U : U = Nearest(After(T, f, a), q, reverse)
  OBVIOUS
<1>3. /\ Cardinality(U) = c - a
      /\ U \subseteq T
      /\ \A n \in U : /\ f[n] \in (a + 1)..c
                      /\ Cardinality({m \in U : Ahead(m, n, reverse)}) + 1 = f[n] - a
  <2>1. Sliced(T, f, a, c, U, reverse)
    BY <1>t, <1>n, <1>p, <1>1, <1>2, Slice, Zenon
  <2>. QED  BY <2>1, Zenon DEF Sliced
<1>4. PICK I : I = {Item(o, n) : n \in T}
  OBVIOUS
<1>5. items \in Seq(I) /\ Len(items) = N /\ \A n \in T : items[f[n]] = Item(o, n)
  BY <1>t, <1>n, <1>p, <1>4, Zenon DEF Lists
<1>6. PICK range : range = SubSeq(items, a + 1, c)
  OBVIOUS
<1>7. Len(range) = c - a /\ \A i \in 1..(c - a) : range[i] = items[a + i]
  <2>1. items \in Seq(I) /\ Len(items) = N
    BY <1>5, Zenon
  <2>2. \A i \in (a + 1)..c : items[i] \in I
    BY <1>1, <2>1
  <2>3. /\ Len(range) = IF a + 1 <= c THEN c - (a + 1) + 1 ELSE 0
        /\ \A i \in 1..(c - (a + 1) + 1) : range[i] = items[(a + 1) + i - 1]
    BY <1>1, <1>6, <2>2, SubSeqProperties
  <2>4. c - (a + 1) + 1 = c - a
    BY <1>1
  <2>5. \A i \in 1..(c - a) : (a + 1) + i - 1 = a + i
    BY <1>1
  <2>. QED  BY <1>1, <2>3, <2>4, <2>5
<1>8. ASSUME NEW n \in U PROVE range[f[n] - a].value = LogOf(o)[n]
  <2>1. PICK i \in 1..(c - a) : i = f[n] - a /\ a + i = f[n]
    <3>1. f[n] \in (a + 1)..c
      BY <1>3
    <3>2. f[n] - a \in 1..(c - a) /\ a + (f[n] - a) = f[n]
      BY <1>1, <3>1
    <3>. QED  BY <3>2
  <2>2. range[i] = items[a + i]
    BY <1>7
  <2>3. items[f[n]] = Item(o, n)
    BY <1>3, <1>5
  <2>4. Item(o, n).value = LogOf(o)[n]
    BY DEF Item
  <2>. QED  BY <2>1, <2>2, <2>3, <2>4, Zenon
<1>9. ASSUME NEW n \in U
      PROVE  range[Cardinality({m \in U : Ahead(m, n, reverse)}) + 1].value = LogOf(o)[n]
  BY <1>3, <1>8, Zenon
<1>10. Len(range) = Cardinality(U)
  BY <1>3, <1>7, Zenon
<1>11. ShowsChosen(o, range, U, reverse)
  BY <1>9, <1>10, Zenon DEF ShowsChosen
<1>. QED  BY <1>t, <1>n, <1>p, <1>1, <1>2, <1>6, <1>11, Zenon

\* RangeCorrect, of a given result.
RangeShown(o, from, reverse, q, result) ==
    /\ result.ok <=> from \in Stored(o) \cup {-1}
    /\ result.ok => ShowsChosen(o, result.items,
                                Nearest(Following(o, from, reverse), q, reverse), reverse)

\* In each direction the range begins after the place of its first number.
LEMMA RangeIsCorrect ==
    ASSUME PrefixesApart, SetUp, RowsOK, NEW o \in Owners, NEW quantity \in Int,
           NEW from \in Numbers \cup {-1}
    PROVE  RangeCorrect(o, from, quantity)
<1>1. PICK T : T = Stored(o) /\ T \subseteq Numbers /\ T \subseteq Nat /\ IsFiniteSet(T)
  BY SelectedRows
<1>2. PICK N \in Nat : N = Cardinality(T)
  BY <1>1, FS_CardinalityType
<1>3. PICK reverse \in BOOLEAN : reverse = (quantity < 0)
  <2>1. (quantity < 0) \in BOOLEAN
    OBVIOUS
  <2>. QED  BY <2>1, Zenon
<1>4. PICK f : f = Places(T, reverse)
  OBVIOUS
<1>f. /\ f \in [T -> 1..N]
      /\ \A m, n \in T : Ahead(m, n, reverse) <=> f[m] < f[n]
  BY <1>1, <1>2, <1>4, PlacesBijective DEF Bijection, Injection
<1>5. PICK items : items = Iter(o, reverse) /\ Lists(items, o, reverse)
  BY IterLists, Zenon
<1>l. Len(items) = N
  BY <1>1, <1>2, <1>5, Zenon DEF Lists
<1>6. PICK q \in Nat : q = Magnitude(quantity)
  BY DEF Magnitude
<1>7. PICK key : key = IF from = -1 THEN NoKey ELSE KeyOf(from)
  OBVIOUS
<1>8. PICK result : result = Cut(items, key, q)
  OBVIOUS
<1>9. GetByRange(o, key, quantity) = result
  <2>1. GetByRange(o, key, quantity) = Cut(Iter(o, quantity < 0), key, Magnitude(quantity))
    BY Zenon DEF GetByRange, Cut, Has, End
  <2>. QED  BY <1>3, <1>5, <1>6, <1>8, <2>1, Zenon
<1>10. -1 \notin Numbers /\ \A n \in Numbers : KeyOf(n) # NoKey
  <2>1. -1 \notin Numbers
    BY DigitsAssumption
  <2>2. ASSUME NEW n \in Numbers PROVE KeyOf(n) # NoKey
    <3>1. Len(KeyOf(n)) = Width /\ Width # 0
      BY KeyTypes, DigitsAssumption
    <3>2. Len(NoKey) = 0
      BY DEF NoKey
    <3>. QED  BY <3>1, <3>2
  <2>. QED  BY <2>1, <2>2
<1>11. PICK W : W = Following(o, from, reverse)
  OBVIOUS
<1>12. ASSUME NEW a \in Nat, a <= N, W = After(T, f, a),
              result = [ok |-> TRUE, items |-> SubSeq(items, a + 1, End(a, q, N))]
       PROVE  result.ok = TRUE /\ ShowsChosen(o, result.items, Nearest(W, q, reverse), reverse)
  <2>1. ShowsChosen(o, SubSeq(items, a + 1, End(a, q, N)), Nearest(W, q, reverse), reverse)
    BY <1>1, <1>2, <1>4, <1>5, <1>12, CutShows, Zenon
  <2>2. result.ok = TRUE /\ result.items = SubSeq(items, a + 1, End(a, q, N))
    BY <1>12
  <2>. QED  BY <2>1, <2>2, Zenon
<1>13. ASSUME from = -1
       PROVE  /\ result.ok <=> from \in T \cup {-1}
              /\ result.ok => ShowsChosen(o, result.items, Nearest(W, q, reverse), reverse)
  <2>1. result = [ok |-> TRUE, items |-> SubSeq(items, 0 + 1, End(0, q, N))]
    BY <1>l, <1>7, <1>8, <1>13 DEF Cut
  <2>2. W = After(T, f, 0)
    BY <1>1, <1>f, <1>11, <1>13 DEF Following, After
  <2>3. 0 \in Nat /\ 0 <= N
    OBVIOUS
  <2>4. result.ok = TRUE /\ ShowsChosen(o, result.items, Nearest(W, q, reverse), reverse)
    BY <1>12, <2>1, <2>2, <2>3, Zenon
  <2>. QED  BY <1>13, <2>4, Zenon
<1>14. ASSUME from \in T
       PROVE  /\ result.ok <=> from \in T \cup {-1}
              /\ result.ok => ShowsChosen(o, result.items, Nearest(W, q, reverse), reverse)
  <2>1. from \in Numbers /\ key = KeyOf(from) /\ key # NoKey
    BY <1>1, <1>7, <1>10, <1>14
  <2>2. Has(items, key) /\ PassedOver(key, items) = f[from]
    BY <1>1, <1>4, <1>5, <1>14, <2>1, RangeBegins, Zenon
  <2>3. PICK a \in Nat : a = f[from] /\ a <= N
    BY <1>f, <1>14
  <2>4. W = After(T, f, a)
    <3>1. \A n \in T : Ahead(from, n, reverse) <=> f[n] > a
      BY <1>f, <1>14, <2>3
    <3>2. W = {n \in T : Ahead(from, n, reverse)}
      BY <1>1, <1>10, <1>11, <2>1 DEF Following
    <3>. QED  BY <3>1, <3>2 DEF After
  <2>5. result = [ok |-> TRUE, items |-> SubSeq(items, a + 1, End(a, q, N))]
    BY <1>l, <1>8, <2>1, <2>2, <2>3 DEF Cut
  <2>6. result.ok = TRUE /\ ShowsChosen(o, result.items, Nearest(W, q, reverse), reverse)
    BY <1>12, <2>3, <2>4, <2>5, Zenon
  <2>. QED  BY <1>14, <2>6, Zenon
<1>15. ASSUME from \notin T \cup {-1}
       PROVE  /\ result.ok <=> from \in T \cup {-1}
              /\ result.ok => ShowsChosen(o, result.items, Nearest(W, q, reverse), reverse)
  <2>1. from \in Numbers /\ key = KeyOf(from) /\ key # NoKey
    BY <1>7, <1>10, <1>15
  <2>2. ~Has(items, key)
    BY <1>1, <1>4, <1>5, <1>15, <2>1, RangeBegins, Zenon
  <2>3. result = [ok |-> FALSE, items |-> <<>>]
    BY <1>8, <2>1, <2>2 DEF Cut
  <2>4. result.ok = FALSE
    BY <2>3
  <2>. QED  BY <1>15, <2>4, Zenon
<1>16. /\ result.ok <=> from \in T \cup {-1}
       /\ result.ok => ShowsChosen(o, result.items, Nearest(W, q, reverse), reverse)
  BY <1>13, <1>14, <1>15, Zenon
<1>17. RangeShown(o, from, reverse, q, result)
  BY <1>1, <1>11, <1>16, Zenon DEF RangeShown
<1>18. RangeShown(o, from, quantity < 0, Magnitude(quantity),
                  GetByRange(o, IF from = -1 THEN NoKey ELSE KeyOf(from), quantity))
  BY <1>3, <1>6, <1>7, <1>9, <1>17, Zenon
<1>. QED  BY <1>18, Zenon DEF RangeCorrect, RangeShown, ShowsChosen

\* Under the same condition get_by_range returns the nearest events after or before a
\* number, for any quantity and any number, and an error exactly if the number has no event.
THEOREM RangesOfAll ==
    ASSUME PrefixesApart
    PROVE  Spec => [](\A o \in Owners, quantity \in Int, from \in Numbers \cup {-1} :
                         RangeCorrect(o, from, quantity))
<1>1. Init => SetUp /\ RowsOK
  BY FS_EmptySet DEF Init, SetUp, RowsOK, Table
<1>2. SetUp /\ RowsOK /\ [Next]_vars => SetUp' /\ RowsOK'
  BY Frozen, RowsStep
<1>3. SetUp /\ RowsOK => \A o \in Owners, quantity \in Int, from \in Numbers \cup {-1} :
                            RangeCorrect(o, from, quantity)
  BY RangeIsCorrect
<1>. QED  BY <1>1, <1>2, <1>3, PTL DEF Spec

\* The same for the quantities that TLC checks.
THEOREM RangesCorrect ==
    ASSUME PrefixesApart
    PROVE  Spec => []RangeAgrees
<1>1. (\A o \in Owners, quantity \in Int, from \in Numbers \cup {-1} :
          RangeCorrect(o, from, quantity)) => RangeAgrees
  BY DEF RangeAgrees
<1>. QED  BY <1>1, RangesOfAll, PTL

=============================================================================
