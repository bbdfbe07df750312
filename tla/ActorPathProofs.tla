-------------------------- MODULE ActorPathProofs --------------------------
(***************************************************************************)
(* Proofs about ActorPath, for paths and texts of any length: parsing and  *)
(* printing are inverse, and ancestry, which the code decides on texts,    *)
(* is that of the sequences of names. The inductions over texts go by      *)
(* SetInduction: the numbers for which a fact holds are a set with 0 that  *)
(* is closed under successor.                                              *)
(***************************************************************************)
EXTENDS MCActorTree, SequenceTheorems, WellFoundedInduction, TLAPS

-----------------------------------------------------------------------------
(* Induction over the natural numbers, as a fact about sets.               *)

\* The order of the numbers as a relation, which the library's theorems are about.
LEMMA LessThan ==
    \E R : IsWellFoundedOn(R, Nat) /\ \A m, n \in Nat : <<m, n>> \in R <=> m < n
<1>1. IsWellFoundedOn(OpToRel(<, Nat), Nat)
  BY NatLessThanWellFounded
<1>2. \A m, n \in Nat : <<m, n>> \in OpToRel(<, Nat) <=> m < n
  BY DEF OpToRel
<1>. QED  BY <1>1, <1>2, Zenon

\* A set that has 0 and with each number the next has every number.
LEMMA SetInduction ==
    ASSUME NEW S, 0 \in S, \A n \in Nat : n \in S => n + 1 \in S
    PROVE  Nat \subseteq S
<1>. SUFFICES ASSUME NEW T, T = Nat \ S, T # {} PROVE FALSE
  OBVIOUS
<1>1. PICK R : IsWellFoundedOn(R, Nat) /\ \A m, n \in Nat : <<m, n>> \in R <=> m < n
  BY LessThan
<1>2. PICK m \in T : \A n \in T : ~(<<n, m>> \in R)
  BY <1>1, WFMin
<1>3. m \in Nat /\ m # 0 /\ m - 1 \in Nat
  OBVIOUS
<1>4. PICK l \in Nat : l + 1 = m /\ l < m
  BY <1>3
<1>5. l \notin T
  BY <1>1, <1>2, <1>3, <1>4
<1>. QED  BY <1>4, <1>5

-----------------------------------------------------------------------------
(* FlattenSeq.                                                             *)

Joined(s, t) == s \o t

\* f[i] is the text of the first i pieces, for i up to k.
Joins(f, k, pieces) ==
    /\ f = [i \in 1..k |-> f[i]]
    /\ k > 0 => f[1] = pieces[1]
    /\ \A i \in 1..(k - 1) : f[i + 1] = Joined(f[i], pieces[i + 1])

\* FlattenSeq chooses its function: there is one, for any number of pieces.
LEMMA JoinsExist ==
    ASSUME NEW pieces, NEW n \in Nat
    PROVE  \E f : Joins(f, n, pieces)
<1> DEFINE Good == {k \in Nat : \E f : Joins(f, k, pieces)}
<1>1. 0 \in Good
  <2>1. Joins([i \in 1..0 |-> i], 0, pieces)
    BY DEF Joins
  <2>. QED  BY <2>1
<1>2. ASSUME NEW k \in Nat, k \in Good PROVE k + 1 \in Good
  <2>1. PICK f : Joins(f, k, pieces)
    BY <1>2
  <2>2. PICK g : g = [i \in 1..(k + 1) |-> IF i = 1 THEN pieces[1]
                        ELSE IF i = k + 1 THEN Joined(f[k], pieces[k + 1]) ELSE f[i]]
    OBVIOUS
  <2>3. \A i \in 1..k : g[i] = f[i]
    BY <2>1, <2>2 DEF Joins
  <2>4. ASSUME NEW i \in 1..k PROVE g[i + 1] = Joined(g[i], pieces[i + 1])
    <3>1. CASE i = k
      <4>1. k + 1 \in 1..(k + 1) /\ k + 1 # 1 /\ k \in 1..k
        BY <3>1
      <4>2. g[k + 1] = Joined(f[k], pieces[k + 1])
        BY <2>2, <4>1
      <4>. QED  BY <3>1, <2>3, <4>1, <4>2, Zenon
    <3>2. CASE i # k
      <4>1. i \in 1..(k - 1) /\ i + 1 \in 1..k
        BY <3>2
      <4>2. f[i + 1] = Joined(f[i], pieces[i + 1])
        BY <4>1, <2>1 DEF Joins
      <4>. QED  BY <4>1, <4>2, <2>3
    <3>. QED  BY <3>1, <3>2
  <2>5. g[1] = pieces[1] /\ g = [i \in 1..(k + 1) |-> g[i]]
    BY <2>2
  <2>6. Joins(g, k + 1, pieces)
    <3>1. 1..((k + 1) - 1) = 1..k
      OBVIOUS
    <3>. QED  BY <2>4, <2>5, <3>1, Zenon DEF Joins
  <2>. QED  BY <2>6
<1>3. Nat \subseteq Good
  <2>. HIDE DEF Good
  <2>. QED  BY <1>1, <1>2, SetInduction
<1>. QED  BY <1>3

\* What FlattenSeq computes.
LEMMA FlattenJoins ==
    ASSUME NEW S, NEW pieces \in Seq(S), pieces # <<>>
    PROVE  \E f : Joins(f, Len(pieces), pieces) /\ FlattenSeq(pieces) = f[Len(pieces)]
<1>0. Len(pieces) \in Nat /\ Len(pieces) > 0 /\ 1 \in 1..Len(pieces)
  OBVIOUS
<1> DEFINE Eq(g) == g = [i \in 1..Len(pieces) |-> IF i = 1 THEN pieces[i] ELSE g[i - 1] \o pieces[i]]
<1>1. PICK f : f = CHOOSE g : Eq(g)
  OBVIOUS
<1>2. \E g : Eq(g)
  <2>1. PICK g : Joins(g, Len(pieces), pieces)
    BY JoinsExist, <1>0
  <2>2. ASSUME NEW i \in 1..Len(pieces)
        PROVE  g[i] = IF i = 1 THEN pieces[i] ELSE Joined(g[i - 1], pieces[i])
    <3>1. CASE i # 1
      <4>1. PICK j \in 1..(Len(pieces) - 1) : j + 1 = i /\ j = i - 1
        BY <3>1
      <4>. QED  BY <4>1, <3>1, <2>1 DEF Joins
    <3>. QED  BY <3>1, <2>1 DEF Joins
  <2>3. Eq(g)
    BY <2>1, <2>2 DEF Joins, Joined
  <2>. QED  BY <2>3
<1>3. Eq(f)
  BY <1>1, <1>2
<1>4. FlattenSeq(pieces) = f[Len(pieces)]
  BY <1>1 DEF FlattenSeq
<1>5. Joins(f, Len(pieces), pieces)
  <2>. HIDE DEF Eq
  <2>1. \A i \in 1..Len(pieces) : f[i] = IF i = 1 THEN pieces[i] ELSE Joined(f[i - 1], pieces[i])
    BY <1>3 DEF Eq, Joined
  <2>2. f = [i \in 1..Len(pieces) |-> f[i]]
    BY <1>3 DEF Eq
  <2>3. ASSUME NEW i \in 1..(Len(pieces) - 1) PROVE f[i + 1] = Joined(f[i], pieces[i + 1])
    <3>1. i + 1 \in 1..Len(pieces) /\ i + 1 # 1 /\ (i + 1) - 1 = i
      OBVIOUS
    <3>. QED  BY <3>1, <2>1
  <2>4. f[1] = pieces[1]
    BY <2>1, <1>0
  <2>. QED  BY <2>2, <2>3, <2>4, Zenon DEF Joins
<1>. QED  BY <1>4, <1>5

-----------------------------------------------------------------------------
(* The text of a path.                                                     *)

\* The names that texts of characters of C can have: From drops the others.
ProperNames(C) == {name \in Seq(C) : /\ ~Blank(name)
                               /\ \A i \in 1..Len(name) : name[i] # Separator}

\* t[k] is the text of the first k names.
Writes(t, path, C) ==
    /\ t \in [0..Len(path) -> Seq(C)]
    /\ t[0] = <<>>
    /\ \A k \in 0..(Len(path) - 1) : t[k + 1] = t[k] \o (<<Separator>> \o path[k + 1])

\* A name is a text that is not empty and has no separator.
LEMMA NameFacts ==
    ASSUME NEW C, NEW name \in ProperNames(C)
    PROVE  /\ name \in Seq(C) /\ Len(name) \in Nat /\ Len(name) > 0
           /\ \A i \in 1..Len(name) : name[i] # Separator
BY DEF ProperNames, Blank

\* Display writes the names one by one, each after a separator.
LEMMA DisplayWrites ==
    ASSUME NEW C, Separator \in C, NEW path \in Seq(ProperNames(C)), path # <<>>
    PROVE  \E t : Writes(t, path, C) /\ Display(path) = t[Len(path)]
<1>1. PICK n \in Nat : n = Len(path) /\ n > 0 /\ DOMAIN path = 1..n
  OBVIOUS
<1>2. PICK pieces : pieces = [i \in 1..n |-> <<Separator>> \o path[i]]
  OBVIOUS
<1>3. ASSUME NEW i \in 1..n PROVE pieces[i] = <<Separator>> \o path[i] /\ pieces[i] \in Seq(C)
  <2>1. path[i] \in Seq(C) /\ <<Separator>> \in Seq(C)
    BY <1>1, NameFacts
  <2>2. <<Separator>> \o path[i] \in Seq(C)
    BY <2>1, ConcatProperties, Zenon
  <2>. QED  BY <1>2, <2>2
<1>4. pieces \in Seq(Seq(C)) /\ Len(pieces) = n /\ pieces # <<>>
  BY <1>1, <1>2, <1>3
<1>5. PICK f : Joins(f, n, pieces) /\ FlattenSeq(pieces) = f[n]
  BY <1>4, FlattenJoins
<1>6. PICK t : t = [k \in 0..n |-> IF k = 0 THEN <<>> ELSE f[k]]
  OBVIOUS
<1>7. Display(path) = t[n]
  <2>1. Display(path) = FlattenSeq(pieces)
    BY <1>1, <1>2, Zenon DEF Display
  <2>2. t[n] = f[n]
    BY <1>1, <1>6
  <2>. QED  BY <2>1, <2>2, <1>5
<1>8. ASSUME NEW k \in 0..(n - 1), t[k] \in Seq(C) PROVE t[k + 1] = Joined(t[k], pieces[k + 1])
  <2>1. CASE k = 0
    <3>1. <<>> \o pieces[1] = pieces[1]
      BY <1>1, <1>3, ConcatEmptySeq
    <3>. QED  BY <3>1, <2>1, <1>1, <1>5, <1>6 DEF Joins, Joined
  <2>2. CASE k # 0
    <3>1. k \in 1..(n - 1) /\ t[k] = f[k] /\ t[k + 1] = f[k + 1]
      BY <2>2, <1>1, <1>6
    <3>2. f[k + 1] = Joined(f[k], pieces[k + 1])
      BY <3>1, <1>5, Zenon DEF Joins
    <3>. QED  BY <3>1, <3>2
  <2>. QED  BY <2>1, <2>2
<1>9. \A k \in 0..n : t[k] \in Seq(C)
  <2> DEFINE Good == {k \in Nat : k <= n => t[k] \in Seq(C)}
  <2>1. 0 \in Good
    BY <1>6
  <2>2. ASSUME NEW k \in Nat, k \in Good PROVE k + 1 \in Good
    <3>1. SUFFICES ASSUME k + 1 <= n PROVE t[k + 1] \in Seq(C)
      OBVIOUS
    <3>2. t[k] \in Seq(C) /\ k \in 0..(n - 1) /\ k + 1 \in 1..n
      BY <2>2, <3>1, <1>1
    <3>3. t[k + 1] = t[k] \o pieces[k + 1]
      BY <3>2, <1>8 DEF Joined
    <3>4. t[k] \o pieces[k + 1] \in Seq(C)
      BY <3>2, <1>3, ConcatProperties, Zenon
    <3>. QED  BY <3>3, <3>4
  <2>3. Nat \subseteq Good
    <3>. HIDE DEF Good
    <3>. QED  BY <2>1, <2>2, SetInduction
  <2>. QED  BY <2>3
<1>10. ASSUME NEW k \in 0..(n - 1) PROVE t[k + 1] = t[k] \o (<<Separator>> \o path[k + 1])
  <2>1. t[k] \in Seq(C) /\ k + 1 \in 1..n
    BY <1>1, <1>9
  <2>. QED  BY <2>1, <1>3, <1>8 DEF Joined
<1>11. t \in [0..n -> Seq(C)] /\ t[0] = <<>>
  BY <1>1, <1>6, <1>9
<1>12. Writes(t, path, C)
  BY <1>1, <1>10, <1>11, Zenon DEF Writes
<1>. QED  BY <1>1, <1>7, <1>12

\* b is the text a, a separator and the name.
Extends(b, a, name) ==
    /\ Len(b) = Len(a) + 1 + Len(name)
    /\ \A i \in 1..Len(a) : b[i] = a[i]
    /\ b[Len(a) + 1] = Separator
    /\ \A j \in 1..Len(name) : b[Len(a) + 1 + j] = name[j]

\* What one name adds.
LEMMA NameAdds ==
    ASSUME NEW C, Separator \in C, NEW path \in Seq(ProperNames(C)), NEW t, Writes(t, path, C),
           NEW k \in 0..(Len(path) - 1)
    PROVE  /\ t[k] \in Seq(C) /\ t[k + 1] \in Seq(C) /\ path[k + 1] \in ProperNames(C)
           /\ Extends(t[k + 1], t[k], path[k + 1])
<1>1. k + 1 \in 1..Len(path) /\ k \in 0..Len(path) /\ k + 1 \in 0..Len(path)
  OBVIOUS
<1>2. /\ t[k] \in Seq(C) /\ t[k + 1] \in Seq(C) /\ path[k + 1] \in ProperNames(C)
      /\ t[k + 1] = t[k] \o (<<Separator>> \o path[k + 1])
  <2>1. path[k + 1] \in ProperNames(C)
    BY <1>1
  <2>2. t[k] \in Seq(C) /\ t[k + 1] \in Seq(C)
    BY <1>1, Zenon DEF Writes
  <2>3. t[k + 1] = t[k] \o (<<Separator>> \o path[k + 1])
    BY Zenon DEF Writes
  <2>. QED  BY <2>1, <2>2, <2>3, Zenon
<1>3. PICK name \in Seq(C) : name = path[k + 1]
  BY <1>2, NameFacts
<1>4. PICK a \in Seq(C) : a = t[k]
  BY <1>2
<1>5. PICK piece \in Seq(C) : piece = <<Separator>> \o name
  BY <1>3, ConcatProperties, <<Separator>> \in Seq(C)
<1>6. /\ Len(piece) = 1 + Len(name) /\ piece[1] = Separator
      /\ \A j \in 1..Len(name) : piece[1 + j] = name[j]
  BY <1>5
<1>7. PICK b \in Seq(C) : b = t[k + 1]
  BY <1>2
<1>8. b = a \o piece
  BY <1>2, <1>3, <1>4, <1>5, <1>7
<1>9. /\ Len(b) = Len(a) + Len(piece)
      /\ \A i \in 1..Len(a) : b[i] = a[i]
      /\ \A i \in 1..Len(piece) : b[Len(a) + i] = piece[i]
  BY <1>8
<1>10. /\ Len(b) = Len(a) + 1 + Len(name) /\ b[Len(a) + 1] = Separator
       /\ \A j \in 1..Len(name) : b[Len(a) + 1 + j] = name[j]
  BY <1>9, <1>6
<1>11. Extends(b, a, name)
  BY <1>9, <1>10, Zenon DEF Extends
<1>. QED  BY <1>2, <1>3, <1>4, <1>7, <1>11, Zenon

\* The text of the first names begins the text of more names.
LEMMA TextGrows ==
    ASSUME NEW C, Separator \in C, NEW path \in Seq(ProperNames(C)), NEW t, Writes(t, path, C),
           NEW k \in 0..Len(path), NEW n \in k..Len(path)
    PROVE  Len(t[k]) <= Len(t[n]) /\ \A i \in 1..Len(t[k]) : t[n][i] = t[k][i]
<1> DEFINE Holds(l) == Len(t[k]) <= Len(t[l]) /\ \A i \in 1..Len(t[k]) : t[l][i] = t[k][i]
           Good == {l \in Nat : l \in k..Len(path) => Holds(l)}
<1>0. \A l \in 0..Len(path) : t[l] \in Seq(C)
  BY DEF Writes
<1>1. Holds(k)
  BY <1>0
<1>2. 0 \in Good
  BY <1>1
<1>3. ASSUME NEW l \in Nat, l \in Good PROVE l + 1 \in Good
  <2>1. SUFFICES ASSUME l + 1 \in k..Len(path) PROVE Holds(l + 1)
    OBVIOUS
  <2>2. CASE l + 1 = k
    BY <1>1, <2>2
  <2>3. CASE l + 1 # k
    <3>1. l \in k..Len(path) /\ l \in 0..(Len(path) - 1)
      BY <2>1, <2>3
    <3>2. Holds(l)
      BY <1>3, <3>1
    <3>3. PICK a \in Seq(C) : a = t[l]
      BY <1>0, <3>1
    <3>4. PICK b \in Seq(C) : b = t[l + 1]
      BY <1>0, <2>1
    <3>5. Len(a) <= Len(b) /\ \A i \in 1..Len(a) : b[i] = a[i]
      <4>1. path[l + 1] \in ProperNames(C) /\ Len(path[l + 1]) \in Nat
        BY <3>1, NameAdds, NameFacts
      <4>2. PICK m \in Nat : m = Len(path[l + 1])
        BY <4>1
      <4>3. Len(b) = Len(a) + 1 + m /\ \A i \in 1..Len(a) : b[i] = a[i]
        <5>1. Extends(t[l + 1], t[l], path[l + 1])
          BY <3>1, NameAdds
        <5>. QED  BY <5>1, <3>3, <3>4, <4>2, Zenon DEF Extends
      <4>. QED  BY <4>3
    <3>6. PICK c \in Seq(C) : c = t[k]
      BY <1>0
    <3>7. Len(c) <= Len(a) /\ \A i \in 1..Len(c) : a[i] = c[i]
      BY <3>2, <3>3, <3>6, Zenon
    <3>8. Len(c) <= Len(b) /\ \A i \in 1..Len(c) : b[i] = c[i]
      BY <3>5, <3>7
    <3>. QED  BY <3>4, <3>6, <3>8, Zenon
  <2>. QED  BY <2>2, <2>3
<1>4. Nat \subseteq Good
  <2>. HIDE DEF Good
  <2>. QED  BY <1>2, <1>3, SetInduction
<1>. QED  BY <1>4

\* In the text d a separator and the name follow the first b characters.
Shows(d, b, name) ==
    /\ Len(d) >= b + 1 + Len(name)
    /\ d[b + 1] = Separator
    /\ \A j \in 1..Len(name) : d[b + 1 + j] = name[j]

\* In the text of a path each name is where the names before it end.
LEMMA Layout ==
    ASSUME NEW C, Separator \in C, NEW path \in Seq(ProperNames(C)), NEW t, Writes(t, path, C),
           NEW k \in 0..(Len(path) - 1)
    PROVE  Shows(t[Len(path)], Len(t[k]), path[k + 1])
<1>1. PICK n \in Nat : n = Len(path) /\ k + 1 \in 0..n /\ n \in (k + 1)..n
  OBVIOUS
<1>2. /\ t[k] \in Seq(C) /\ t[k + 1] \in Seq(C) /\ path[k + 1] \in ProperNames(C)
      /\ Extends(t[k + 1], t[k], path[k + 1])
  BY NameAdds
<1>3. t[n] \in Seq(C)
  BY <1>1 DEF Writes
<1>4. Len(t[k + 1]) <= Len(t[n]) /\ \A i \in 1..Len(t[k + 1]) : t[n][i] = t[k + 1][i]
  BY <1>1, TextGrows
<1>5. PICK a \in Seq(C), b \in Seq(C), d \in Seq(C), name \in Seq(C) :
          a = t[k] /\ b = t[k + 1] /\ d = t[n] /\ name = path[k + 1]
  BY <1>2, <1>3, NameFacts
<1>6. Extends(b, a, name) /\ Len(b) <= Len(d) /\ \A i \in 1..Len(b) : d[i] = b[i]
  BY <1>2, <1>4, <1>5, Zenon
<1>7. Shows(d, Len(a), name)
  BY <1>6 DEF Extends, Shows
<1>. QED  BY <1>1, <1>5, <1>7

\* A prefix, read character by character.
Begins(s, t) == Len(s) <= Len(t) /\ \A i \in 1..Len(s) : s[i] = t[i]

\* The two readings of IsPrefix, which starts_with is, agree.
LEMMA PrefixBegins ==
    ASSUME NEW S, NEW s \in Seq(S), NEW t \in Seq(S)
    PROVE  IsPrefix(s, t) <=> Begins(s, t)
<1>1. CASE Len(s) <= Len(t)
  <2>1. SubSeq(s, 1, Len(s)) = [i \in 1..Len(s) |-> s[i]]
    OBVIOUS
  <2>2. SubSeq(t, 1, Len(s)) = [i \in 1..Len(s) |-> t[i]]
    BY <1>1
  <2>. QED  BY <1>1, <2>1, <2>2 DEF IsPrefix, Begins
<1>2. CASE ~(Len(s) <= Len(t))
  BY <1>2 DEF IsPrefix, Begins
<1>. QED  BY <1>1, <1>2

\* A name ends at a separator or with the text.
Ended(d, e) == Len(d) > e => d[e + 1] = Separator

\* Two names at the same place of two texts that begin alike are equal.
LEMMA SameName ==
    ASSUME NEW C, NEW p \in ProperNames(C), NEW q \in ProperNames(C), NEW d \in Seq(C), NEW e \in Seq(C),
           NEW b \in Nat, Begins(d, e), Shows(d, b, p), Shows(e, b, q),
           Len(d) > b + 1 + Len(p), Ended(d, b + 1 + Len(p)), Ended(e, b + 1 + Len(q))
    PROVE  p = q
<1>1. /\ p \in Seq(C) /\ \A i \in 1..Len(p) : p[i] # Separator
      /\ q \in Seq(C) /\ \A i \in 1..Len(q) : q[i] # Separator
  BY NameFacts
<1>2. ~(Len(p) < Len(q))
  <2>1. SUFFICES ASSUME Len(p) < Len(q) PROVE FALSE
    OBVIOUS
  <2>2. PICK j \in 1..Len(q) : j = Len(p) + 1
    BY <1>1, <2>1
  <2>3. e[b + 1 + j] = q[j] /\ q[j] # Separator
    BY <1>1 DEF Shows
  <2>4. d[b + 1 + j] = Separator /\ b + 1 + j \in 1..Len(d)
    BY <2>2, <1>1 DEF Ended
  <2>. QED  BY <2>3, <2>4 DEF Begins
<1>3. ~(Len(q) < Len(p))
  <2>1. SUFFICES ASSUME Len(q) < Len(p) PROVE FALSE
    OBVIOUS
  <2>2. PICK j \in 1..Len(p) : j = Len(q) + 1
    BY <1>1, <2>1
  <2>3. d[b + 1 + j] = p[j] /\ p[j] # Separator /\ b + 1 + j \in 1..Len(d)
    BY <1>1 DEF Shows
  <2>4. e[b + 1 + j] = Separator
    BY <2>2, <2>3, <1>1 DEF Ended, Begins
  <2>. QED  BY <2>3, <2>4 DEF Begins
<1>4. Len(p) = Len(q)
  BY <1>1, <1>2, <1>3
<1>5. ASSUME NEW j \in 1..Len(p) PROVE p[j] = q[j]
  <2>1. d[b + 1 + j] = p[j] /\ e[b + 1 + j] = q[j]
    BY <1>4 DEF Shows
  <2>2. b + 1 + j \in 1..Len(d)
    BY <1>1 DEF Shows
  <2>. QED  BY <2>1, <2>2 DEF Begins
<1>. QED  BY <1>1, <1>4, <1>5, SeqEqual

\* In the text of a path a name ends at a separator or with the text.
LEMMA NameEnds ==
    ASSUME NEW C, Separator \in C, NEW path \in Seq(ProperNames(C)), NEW t, Writes(t, path, C),
           NEW k \in 0..(Len(path) - 1)
    PROVE  Ended(t[Len(path)], Len(t[k]) + 1 + Len(path[k + 1]))
<1>1. Len(t[k + 1]) = Len(t[k]) + 1 + Len(path[k + 1])
  <2>1. Extends(t[k + 1], t[k], path[k + 1])
    BY NameAdds
  <2>. QED  BY <2>1, Zenon DEF Extends
<1>2. CASE k + 1 = Len(path)
  <2>1. PICK d \in Seq(C) : d = t[k + 1]
    BY NameAdds
  <2>2. Ended(d, Len(d))
    BY <2>1 DEF Ended
  <2>. QED  BY <1>1, <1>2, <2>1, <2>2
<1>3. CASE k + 1 # Len(path)
  <2>1. k + 1 \in 0..(Len(path) - 1)
    BY <1>3
  <2>2. Shows(t[Len(path)], Len(t[k + 1]), path[(k + 1) + 1])
    BY <2>1, Layout
  <2>. QED  BY <1>1, <2>2 DEF Shows, Ended
<1>. QED  BY <1>2, <1>3

\* The first names of two paths are alike, and so is their text.
Alike(k, path, t, other, u) ==
    /\ k <= Len(other) /\ t[k] = u[k]
    /\ \A i \in 1..k : path[i] = other[i]

\* If the text of a path and a separator begin the text of another, its names begin the
\* other's names, one by one.
LEMMA NamesFromText ==
    ASSUME NEW C, Separator \in C,
           NEW path \in Seq(ProperNames(C)), NEW t, Writes(t, path, C), path # <<>>,
           NEW other \in Seq(ProperNames(C)), NEW u, Writes(u, other, C),
           Begins(Append(t[Len(path)], Separator), u[Len(other)])
    PROVE  Len(path) < Len(other) /\ \A i \in 1..Len(path) : path[i] = other[i]
<1>1. PICK n \in Nat, m \in Nat : n = Len(path) /\ m = Len(other) /\ n > 0
  OBVIOUS
<1>2. PICK x \in Seq(C), e \in Seq(C) : x = t[n] /\ e = u[m]
  BY <1>1 DEF Writes
<1>3. PICK d \in Seq(C) : d = Append(x, Separator)
  BY <1>2, AppendProperties
<1>4. Len(d) = Len(x) + 1 /\ d[Len(x) + 1] = Separator /\ \A i \in 1..Len(x) : d[i] = x[i]
  BY <1>3
<1>5. Begins(d, e)
  BY <1>1, <1>2, <1>3
<1>6. ASSUME NEW k \in 0..n, k <= m, t[k] = u[k] PROVE k < m
  <2>0. k \in 0..Len(path) /\ n \in k..Len(path)
    BY <1>1
  <2>1. Len(t[k]) <= Len(x)
    BY <1>2, <2>0, TextGrows
  <2>2. t[k] \in Seq(C)
    BY <1>1 DEF Writes
  <2>3. SUFFICES ASSUME k = m PROVE FALSE
    BY <1>6
  <2>4. e = t[k]
    BY <2>3, <1>6, <1>2
  <2>. QED  BY <2>1, <2>2, <2>4, <1>4, <1>5 DEF Begins
<1>7. ASSUME NEW k \in 0..(n - 1), Alike(k, path, t, other, u) PROVE Alike(k + 1, path, t, other, u)
  <2>1. k \in 0..(m - 1) /\ k + 1 \in 1..m
    BY <1>6, <1>7, <1>1 DEF Alike
  <2>2. /\ t[k] \in Seq(C) /\ path[k + 1] \in ProperNames(C) /\ other[k + 1] \in ProperNames(C)
    BY <1>1, <2>1, NameAdds
  <2>3. PICK p \in ProperNames(C), q \in ProperNames(C), a \in Seq(C), b \in Nat :
            p = path[k + 1] /\ q = other[k + 1] /\ a = t[k] /\ a = u[k] /\ b = Len(a)
    BY <2>2, <1>7 DEF Alike
  <2>4. Shows(x, b, p) /\ Ended(x, b + 1 + Len(p))
    BY <1>1, <1>2, <2>3, Layout, NameEnds
  <2>5. Shows(e, b, q) /\ Ended(e, b + 1 + Len(q))
    BY <1>1, <1>2, <2>1, <2>3, Layout, NameEnds
  <2>6. p \in Seq(C) /\ Len(p) \in Nat /\ Len(x) \in Nat /\ Len(x) >= b + 1 + Len(p)
    BY <2>4, NameFacts DEF Shows
  <2>7. Shows(d, b, p) /\ Len(d) > b + 1 + Len(p)
    <3>1. Len(d) > b + 1 + Len(p) /\ Len(d) >= b + 1 + Len(p)
      BY <2>6, <1>4
    <3>2. d[b + 1] = Separator
      <4>1. b + 1 \in 1..Len(x) /\ x[b + 1] = Separator
        BY <2>4, <2>6 DEF Shows
      <4>. QED  BY <4>1, <1>4
    <3>3. ASSUME NEW j \in 1..Len(p) PROVE d[b + 1 + j] = p[j]
      <4>1. b + 1 + j \in 1..Len(x)
        BY <2>6
      <4>. QED  BY <4>1, <2>4, <1>4 DEF Shows
    <3>. QED  BY <3>1, <3>2, <3>3 DEF Shows
  <2>8. Ended(d, b + 1 + Len(p))
    <3>1. CASE b + 1 + Len(p) = Len(x)
      BY <3>1, <1>4 DEF Ended
    <3>2. CASE b + 1 + Len(p) < Len(x)
      <4>1. (b + 1 + Len(p)) + 1 \in 1..Len(x)
        BY <3>2, <2>6
      <4>2. x[(b + 1 + Len(p)) + 1] = Separator
        BY <3>2, <2>4, <2>6 DEF Ended
      <4>. QED  BY <4>1, <4>2, <1>4 DEF Ended
    <3>. QED  BY <3>1, <3>2, <2>6
  <2>9. p = q
    BY <2>5, <2>7, <2>8, <1>5, SameName
  <2>10. t[k + 1] = u[k + 1]
    <3>1. t[k + 1] = t[k] \o (<<Separator>> \o path[k + 1])
      BY <1>1, Zenon DEF Writes
    <3>2. u[k + 1] = u[k] \o (<<Separator>> \o other[k + 1])
      BY <1>1, <2>1, Zenon DEF Writes
    <3>. QED  BY <3>1, <3>2, <2>3, <2>9
  <2>11. \A i \in 1..(k + 1) : i \in 1..k \/ i = k + 1
    OBVIOUS
  <2>12. \A i \in 1..(k + 1) : path[i] = other[i]
    BY <2>3, <2>9, <2>11, <1>7 DEF Alike
  <2>13. k + 1 <= Len(other)
    BY <2>1, <1>1
  <2>. QED  BY <2>10, <2>12, <2>13 DEF Alike
<1>8. Alike(n, path, t, other, u)
  <2> DEFINE Good == {k \in Nat : k <= n => Alike(k, path, t, other, u)}
  <2>1. 0 \in Good
    BY <1>1 DEF Alike, Writes
  <2>2. ASSUME NEW k \in Nat, k \in Good PROVE k + 1 \in Good
    <3>1. SUFFICES ASSUME k + 1 <= n PROVE Alike(k + 1, path, t, other, u)
      OBVIOUS
    <3>2. k \in 0..(n - 1)
      BY <3>1
    <3>. QED  BY <2>2, <3>1, <3>2, <1>7
  <2>3. Nat \subseteq Good
    <3>. HIDE DEF Good
    <3>. QED  BY <2>1, <2>2, SetInduction
  <2>. QED  BY <2>3
<1>9. n < m
  BY <1>8, <1>6, <1>1 DEF Alike
<1>. QED  BY <1>1, <1>8, <1>9 DEF Alike

\* The names of a path begin another's, and so does the text.
LEMMA TextFromNames ==
    ASSUME NEW C, Separator \in C,
           NEW path \in Seq(ProperNames(C)), NEW t, Writes(t, path, C),
           NEW other \in Seq(ProperNames(C)), NEW u, Writes(u, other, C),
           Len(path) < Len(other), \A i \in 1..Len(path) : path[i] = other[i]
    PROVE  Begins(Append(t[Len(path)], Separator), u[Len(other)])
<1>1. PICK n \in Nat, m \in Nat : n = Len(path) /\ m = Len(other) /\ n < m
  OBVIOUS
<1>2. t[n] = u[n]
  <2> DEFINE Good == {k \in Nat : k <= n => t[k] = u[k]}
  <2>1. 0 \in Good
    BY DEF Writes
  <2>2. ASSUME NEW k \in Nat, k \in Good PROVE k + 1 \in Good
    <3>1. SUFFICES ASSUME k + 1 <= n PROVE t[k + 1] = u[k + 1]
      OBVIOUS
    <3>2. k \in 0..(n - 1) /\ k \in 0..(m - 1) /\ k + 1 \in 1..n /\ t[k] = u[k]
      BY <3>1, <2>2, <1>1
    <3>3. t[k + 1] = t[k] \o (<<Separator>> \o path[k + 1])
      BY <1>1, <3>2, Zenon DEF Writes
    <3>4. u[k + 1] = u[k] \o (<<Separator>> \o other[k + 1])
      BY <1>1, <3>2, Zenon DEF Writes
    <3>5. path[k + 1] = other[k + 1]
      BY <3>2, <1>1
    <3>. QED  BY <3>2, <3>3, <3>4, <3>5
  <2>3. Nat \subseteq Good
    <3>. HIDE DEF Good
    <3>. QED  BY <2>1, <2>2, SetInduction
  <2>. QED  BY <2>3
<1>3. n \in 0..(m - 1) /\ n \in 0..m /\ m \in n..m
  BY <1>1
<1>4. Shows(u[m], Len(u[n]), other[n + 1]) /\ other[n + 1] \in ProperNames(C)
  BY <1>1, <1>3, Layout, NameAdds
<1>5. Len(u[n]) <= Len(u[m]) /\ \A i \in 1..Len(u[n]) : u[m][i] = u[n][i]
  BY <1>1, <1>3, TextGrows
<1>6. PICK x \in Seq(C), e \in Seq(C) : x = u[n] /\ e = u[m]
  BY <1>1, <1>3 DEF Writes
<1>7. PICK d \in Seq(C) : d = Append(x, Separator)
  BY <1>6, AppendProperties
<1>8. Len(d) = Len(x) + 1 /\ d[Len(x) + 1] = Separator /\ \A i \in 1..Len(x) : d[i] = x[i]
  BY <1>7
<1>9. PICK name \in Seq(C) : name = other[n + 1] /\ Shows(e, Len(x), name)
  BY <1>4, <1>6, NameFacts
<1>10. Len(e) >= Len(x) + 1 /\ e[Len(x) + 1] = Separator /\ \A i \in 1..Len(x) : e[i] = x[i]
  <2>1. Len(e) >= Len(x) + 1 + Len(name) /\ e[Len(x) + 1] = Separator
    BY <1>9 DEF Shows
  <2>2. \A i \in 1..Len(x) : e[i] = x[i]
    BY <1>5, <1>6, Zenon
  <2>. QED  BY <2>1, <2>2
<1>11. Begins(d, e)
  BY <1>8, <1>10 DEF Begins
<1>. QED  BY <1>1, <1>2, <1>6, <1>7, <1>11

\* A text of a path begins with a separator and a character that is none.
LEMMA TextStart ==
    ASSUME NEW C, Separator \in C, NEW path \in Seq(ProperNames(C)), path # <<>>
    PROVE  /\ Display(path) \in Seq(C) /\ Len(Display(path)) > 1
           /\ Display(path)[2] # Separator
<1>1. PICK t : Writes(t, path, C) /\ Display(path) = t[Len(path)]
  BY DisplayWrites
<1>2. 0 \in 0..(Len(path) - 1) /\ 0 + 1 = 1 /\ Len(path) \in 0..Len(path)
  OBVIOUS
<1>3. Shows(t[Len(path)], Len(t[0]), path[1]) /\ path[1] \in ProperNames(C) /\ t[0] = <<>>
  BY <1>1, <1>2, Layout, NameAdds DEF Writes
<1>4. PICK d \in Seq(C), name \in ProperNames(C) : d = t[Len(path)] /\ name = path[1] /\ Shows(d, 0, name)
  BY <1>1, <1>2, <1>3 DEF Writes
<1>5. name \in Seq(C) /\ Len(name) > 0 /\ name[1] # Separator
  BY NameFacts
<1>6. Len(d) > 1 /\ d[2] # Separator
  BY <1>4, <1>5 DEF Shows
<1>. QED  BY <1>1, <1>4, <1>6

\* is_ancestor_of, which compares texts, compares names.
LEMMA AncestorNames ==
    ASSUME NEW C, Separator \in C, NEW path \in Seq(ProperNames(C)), NEW other \in Seq(ProperNames(C))
    PROVE  IsAncestorOf(path, other) <=>
              /\ path # <<>> /\ Len(path) < Len(other)
              /\ \A i \in 1..Len(path) : path[i] = other[i]
<1>1. Display(path) \in Seq(C) /\ Display(other) \in Seq(C)
  <2>1. ASSUME NEW p \in Seq(ProperNames(C)), p = <<>> PROVE Display(p) = <<Separator>>
    BY <2>1 DEF Display
  <2>2. <<Separator>> \in Seq(C)
    OBVIOUS
  <2>. QED  BY <2>1, <2>2, TextStart
<1>2. PICK d \in Seq(C) : d = Append(Display(path), Separator)
  BY <1>1, AppendProperties
<1>3. IsAncestorOf(path, other) <=> Begins(d, Display(other))
  BY <1>1, <1>2, PrefixBegins DEF IsAncestorOf
<1>4. CASE path = <<>>
  <2>1. Len(d) = 2 /\ d[2] = Separator
    <3>1. Display(path) = <<Separator>>
      BY <1>4 DEF Display
    <3>2. PICK x \in Seq(C) : x = Display(path) /\ Len(x) = 1
      BY <1>1, <3>1
    <3>3. d = Append(x, Separator)
      BY <1>2, <3>2
    <3>4. Len(d) = Len(x) + 1 /\ d[Len(x) + 1] = Separator
      BY <3>3
    <3>. QED  BY <3>2, <3>4
  <2>2. other = <<>> => Display(other) = <<Separator>>
    BY DEF Display
  <2>3. ~Begins(d, Display(other))
    BY <2>1, <2>2, <1>1, TextStart DEF Begins
  <2>. QED  BY <1>3, <1>4, <2>3
<1>5. CASE path # <<>> /\ other = <<>>
  <2>1. Display(other) = <<Separator>>
    BY <1>5 DEF Display
  <2>2. Len(d) > 1
    BY <1>1, <1>2, <1>5, TextStart
  <2>. QED  BY <1>3, <1>5, <2>1, <2>2 DEF Begins
<1>6. CASE path # <<>> /\ other # <<>>
  <2>1. PICK t : Writes(t, path, C) /\ Display(path) = t[Len(path)]
    BY <1>6, DisplayWrites
  <2>2. PICK u : Writes(u, other, C) /\ Display(other) = u[Len(other)]
    BY <1>6, DisplayWrites
  <2>3. Begins(Append(t[Len(path)], Separator), u[Len(other)])
            => Len(path) < Len(other) /\ \A i \in 1..Len(path) : path[i] = other[i]
    BY <1>6, <2>1, <2>2, NamesFromText
  <2>4. Len(path) < Len(other) /\ (\A i \in 1..Len(path) : path[i] = other[i])
            => Begins(Append(t[Len(path)], Separator), u[Len(other)])
    BY <2>1, <2>2, TextFromNames
  <2>. QED  BY <1>2, <1>3, <1>6, <2>1, <2>2, <2>3, <2>4
<1>. QED  BY <1>4, <1>5, <1>6

\* The ancestor of a level.
LEMMA LevelNames ==
    ASSUME NEW S, NEW path \in Seq(S), NEW level \in 1..(Len(path) - 1)
    PROVE  AtLevel(path, level) = SubSeq(path, 1, level)
<1>1. CASE level = Len(path) - 1
  <2>1. Len(path) > 1
    BY <1>1
  <2>2. ParentPath(path) = SubSeq(path, 1, level)
    BY <1>1, <2>1 DEF ParentPath
  <2>. QED  BY <1>1, <2>1, <2>2 DEF AtLevel, Level
<1>2. CASE level # Len(path) - 1
  BY <1>2 DEF AtLevel, Level
<1>. QED  BY <1>1, <1>2

\* The first names of a path are those of another if they are equal one by one.
LEMMA FirstNames ==
    ASSUME NEW S, NEW path \in Seq(S), NEW other \in Seq(S), Len(path) <= Len(other)
    PROVE  SubSeq(other, 1, Len(path)) = path <=> \A i \in 1..Len(path) : path[i] = other[i]
<1>1. SubSeq(other, 1, Len(path)) = [i \in 1..Len(path) |-> other[i]]
  OBVIOUS
<1>2. path = [i \in 1..Len(path) |-> path[i]]
  OBVIOUS
<1>. QED  BY <1>1, <1>2

\* For any paths that a text can stand for, of any length and with any names, the
\* operations on texts and on names agree on who is whose ancestor.
THEOREM AncestryOfAll ==
    ASSUME NEW C, Separator \in C, NEW path \in Seq(ProperNames(C)), NEW other \in Seq(ProperNames(C))
    PROVE  Ancestry(path, other)
<1> DEFINE Above == /\ path # <<>> /\ Len(path) < Len(other)
                    /\ \A i \in 1..Len(path) : path[i] = other[i]
<1>0. Len(path) \in Nat /\ Len(other) \in Nat
  OBVIOUS
<1>1. IsAncestorOf(path, other) <=> Above
  BY AncestorNames
<1>2. Above <=> path # <<>> /\ IsStrictPrefix(path, other)
  <2>1. IsPrefix(path, other) <=> Begins(path, other)
    BY PrefixBegins
  <2>2. CASE Len(path) = Len(other)
    <3>1. Begins(path, other) => path = other
      BY <2>2, SeqEqual DEF Begins
    <3>. QED  BY <3>1, <2>1, <2>2, <1>0 DEF IsStrictPrefix
  <2>3. CASE Len(path) # Len(other)
    <3>1. path # other
      BY <2>3
    <3>2. Begins(path, other) <=> Len(path) < Len(other) /\ \A i \in 1..Len(path) : path[i] = other[i]
      BY <2>3, <1>0 DEF Begins
    <3>. QED  BY <3>1, <3>2, <2>1 DEF IsStrictPrefix
  <2>. QED  BY <2>2, <2>3
<1>3. IsDescendantOf(other, path) <=> IsAncestorOf(path, other)
  BY DEF IsDescendantOf, IsAncestorOf
<1>4. Above <=> Level(path) \in 1..(Level(other) - 1) /\ AtLevel(other, Level(path)) = path
  <2>1. Level(path) \in 1..(Level(other) - 1) <=> path # <<>> /\ Len(path) < Len(other)
    BY <1>0 DEF Level
  <2>2. ASSUME path # <<>>, Len(path) < Len(other)
        PROVE  AtLevel(other, Level(path)) = path <=> \A i \in 1..Len(path) : path[i] = other[i]
    <3>1. Len(path) \in 1..(Len(other) - 1)
      BY <2>2, <1>0
    <3>2. AtLevel(other, Len(path)) = SubSeq(other, 1, Len(path))
      BY <3>1, LevelNames
    <3>. QED  BY <3>2, <2>2, <1>0, FirstNames DEF Level
  <2>. QED  BY <2>1, <2>2
<1>5. ASSUME path # <<>>
      PROVE  IsParentOf(path, other) <=> Above /\ Level(other) = Level(path) + 1
  <2>1. CASE Len(other) = Len(path) + 1
    <3>1. ParentPath(other) = SubSeq(other, 1, Len(path))
      BY <2>1, <1>0, <1>5 DEF ParentPath
    <3>2. SubSeq(other, 1, Len(path)) = path <=> \A i \in 1..Len(path) : path[i] = other[i]
      BY <2>1, <1>0, FirstNames
    <3>. QED  BY <3>1, <3>2, <2>1, <1>0, <1>5 DEF IsParentOf, Level
  <2>2. CASE Len(other) # Len(path) + 1
    <3>1. ParentPath(other) # path
      <4>1. CASE Len(other) > 1
        <5>1. Len(SubSeq(other, 1, Len(other) - 1)) = Len(other) - 1
          BY <4>1, <1>0
        <5>. QED  BY <5>1, <4>1, <2>2, <1>0 DEF ParentPath
      <4>2. CASE ~(Len(other) > 1)
        BY <4>2, <1>5 DEF ParentPath
      <4>. QED  BY <4>1, <4>2
    <3>. QED  BY <3>1, <2>2 DEF IsParentOf, Level
  <2>. QED  BY <2>1, <2>2
<1>6. IsChildOf(other, path) <=> IsParentOf(path, other)
  BY DEF IsChildOf, IsParentOf
<1>. HIDE DEF Above
<1>. QED  BY <1>1, <1>2, <1>3, <1>4, <1>5, <1>6 DEF Ancestry

-----------------------------------------------------------------------------
(* FoldLeft. The library folds a sequence over the sets of its indices.    *)

\* The largest number of 1..(k + 1), and of a set that has it.
LEMMA LargestIndex ==
    ASSUME NEW k \in Nat, NEW s \in SUBSET (1..(k + 1)), k + 1 \in s
    PROVE  Max(s) = k + 1
<1>1. k + 1 \in s /\ \A j \in s : k + 1 >= j
  OBVIOUS
<1>2. \A i \in s : (\A j \in s : i >= j) => i = k + 1
  OBVIOUS
<1>. QED  BY <1>1, <1>2 DEF Max

\* The fold of Split over sets of indices up to n.
SplitFold(g, n, text) ==
    g = [s \in SUBSET (1..n) |-> IF s = {} THEN << <<>> >>
                                ELSE AddCharacter(g[s \ {Max(s)}], text[Max(s)])]

\* FoldLeft chooses its function: for Split there is one.
LEMMA SplitFoldExists ==
    ASSUME NEW text, NEW n \in Nat
    PROVE  \E g : SplitFold(g, n, text)
<1> DEFINE Good == {k \in Nat : \E g : SplitFold(g, k, text)}
<1>1. 0 \in Good
  <2>1. PICK g : g = [s \in SUBSET (1..0) |-> << <<>> >>]
    OBVIOUS
  <2>2. \A s \in SUBSET (1..0) : s = {}
    OBVIOUS
  <2>3. SplitFold(g, 0, text)
    BY <2>1, <2>2 DEF SplitFold
  <2>. QED  BY <2>3
<1>2. ASSUME NEW k \in Nat, k \in Good PROVE k + 1 \in Good
  <2>1. PICK f : SplitFold(f, k, text)
    BY <1>2
  <2>2. PICK g : g = [s \in SUBSET (1..(k + 1)) |->
                        IF k + 1 \in s THEN AddCharacter(f[s \ {k + 1}], text[k + 1]) ELSE f[s]]
    OBVIOUS
  <2>3. \A s \in SUBSET (1..(k + 1)) : k + 1 \notin s => s \in SUBSET (1..k)
    OBVIOUS
  <2>4. \A s \in SUBSET (1..k) : s \in SUBSET (1..(k + 1)) /\ k + 1 \notin s /\ g[s] = f[s]
    BY <2>2
  <2>5. ASSUME NEW s \in SUBSET (1..(k + 1))
        PROVE  g[s] = IF s = {} THEN << <<>> >> ELSE AddCharacter(g[s \ {Max(s)}], text[Max(s)])
    <3>1. CASE k + 1 \in s
      <4>1. Max(s) = k + 1 /\ s # {}
        BY <3>1, LargestIndex
      <4>2. s \ {k + 1} \in SUBSET (1..k)
        BY <2>3
      <4>. QED  BY <3>1, <4>1, <4>2, <2>2, <2>4
    <3>2. CASE k + 1 \notin s
      <4>1. s \in SUBSET (1..k) /\ s \ {Max(s)} \in SUBSET (1..k)
        BY <3>2, <2>3
      <4>2. f[s] = IF s = {} THEN << <<>> >> ELSE AddCharacter(f[s \ {Max(s)}], text[Max(s)])
        BY <4>1, <2>1 DEF SplitFold
      <4>. QED  BY <4>1, <4>2, <2>4
    <3>. QED  BY <3>1, <3>2
  <2>6. g = [s \in SUBSET (1..(k + 1)) |-> g[s]]
    BY <2>2
  <2>7. SplitFold(g, k + 1, text)
    BY <2>5, <2>6 DEF SplitFold
  <2>. QED  BY <2>7
<1>3. Nat \subseteq Good
  <2>. HIDE DEF Good
  <2>. QED  BY <1>1, <1>2, SetInduction
<1>. QED  BY <1>3

\* f[k] are the pieces of the first k characters.
Splits(f, text) ==
    /\ f[0] = << <<>> >>
    /\ \A k \in 0..(Len(text) - 1) : f[k + 1] = AddCharacter(f[k], text[k + 1])

\* Split adds the characters of its text one by one.
LEMMA SplitSteps ==
    ASSUME NEW C, NEW text \in Seq(C)
    PROVE  \E f : Splits(f, text) /\ Split(text) = f[Len(text)]
<1>1. PICK n \in Nat : n = Len(text) /\ DOMAIN text = 1..n
  OBVIOUS
<1>2. PICK g : g = CHOOSE h : SplitFold(h, n, text)
  OBVIOUS
<1>3. SplitFold(g, n, text)
  BY <1>2, SplitFoldExists
<1>4. Split(text) = g[1..n]
  BY <1>1, <1>2 DEF Split, FoldLeft, MapThenFoldSet, SplitFold
<1>5. PICK f : f = [k \in 0..n |-> g[1..k]]
  OBVIOUS
<1>6. f[0] = << <<>> >>
  <2>1. 1..0 = {} /\ {} \in SUBSET (1..n)
    OBVIOUS
  <2>. QED  BY <2>1, <1>3, <1>5 DEF SplitFold
<1>7. ASSUME NEW k \in 0..(n - 1) PROVE f[k + 1] = AddCharacter(f[k], text[k + 1])
  <2>1. 1..(k + 1) \in SUBSET (1..n) /\ 1..(k + 1) # {} /\ k + 1 \in 1..(k + 1)
    <3>1. k + 1 \in 1..(k + 1)
      OBVIOUS
    <3>2. 1..(k + 1) \subseteq 1..n
      OBVIOUS
    <3>. QED  BY <3>1, <3>2
  <2>2. Max(1..(k + 1)) = k + 1
    BY <2>1, LargestIndex
  <2>3. (1..(k + 1)) \ {k + 1} = 1..k
    OBVIOUS
  <2>4. g[1..(k + 1)] = AddCharacter(g[1..k], text[k + 1])
    BY <2>1, <2>2, <2>3, <1>3 DEF SplitFold
  <2>. QED  BY <2>4, <1>5
<1>8. Splits(f, text)
  BY <1>1, <1>6, <1>7 DEF Splits
<1>. QED  BY <1>1, <1>4, <1>5, <1>8

\* The second half of Tokens.
Filter(pieces) == FoldLeft(AddPiece, <<>>, pieces)

\* The fold of Tokens over sets of indices up to n.
FilterFold(g, n, pieces) ==
    g = [s \in SUBSET (1..n) |-> IF s = {} THEN <<>>
                                ELSE AddPiece(g[s \ {Max(s)}], pieces[Max(s)])]

\* And for the filter there is one.
LEMMA FilterFoldExists ==
    ASSUME NEW pieces, NEW n \in Nat
    PROVE  \E g : FilterFold(g, n, pieces)
<1> DEFINE Good == {k \in Nat : \E g : FilterFold(g, k, pieces)}
<1>1. 0 \in Good
  <2>1. PICK g : g = [s \in SUBSET (1..0) |-> <<>>]
    OBVIOUS
  <2>2. \A s \in SUBSET (1..0) : s = {}
    OBVIOUS
  <2>3. FilterFold(g, 0, pieces)
    BY <2>1, <2>2 DEF FilterFold
  <2>. QED  BY <2>3
<1>2. ASSUME NEW k \in Nat, k \in Good PROVE k + 1 \in Good
  <2>1. PICK f : FilterFold(f, k, pieces)
    BY <1>2
  <2>2. PICK g : g = [s \in SUBSET (1..(k + 1)) |->
                        IF k + 1 \in s THEN AddPiece(f[s \ {k + 1}], pieces[k + 1]) ELSE f[s]]
    OBVIOUS
  <2>3. \A s \in SUBSET (1..(k + 1)) : k + 1 \notin s => s \in SUBSET (1..k)
    OBVIOUS
  <2>4. \A s \in SUBSET (1..k) : s \in SUBSET (1..(k + 1)) /\ k + 1 \notin s /\ g[s] = f[s]
    BY <2>2
  <2>5. ASSUME NEW s \in SUBSET (1..(k + 1))
        PROVE  g[s] = IF s = {} THEN <<>> ELSE AddPiece(g[s \ {Max(s)}], pieces[Max(s)])
    <3>1. CASE k + 1 \in s
      <4>1. Max(s) = k + 1 /\ s # {}
        BY <3>1, LargestIndex
      <4>2. s \ {k + 1} \in SUBSET (1..k)
        BY <2>3
      <4>. QED  BY <3>1, <4>1, <4>2, <2>2, <2>4
    <3>2. CASE k + 1 \notin s
      <4>1. s \in SUBSET (1..k) /\ s \ {Max(s)} \in SUBSET (1..k)
        BY <3>2, <2>3
      <4>2. f[s] = IF s = {} THEN <<>> ELSE AddPiece(f[s \ {Max(s)}], pieces[Max(s)])
        BY <4>1, <2>1 DEF FilterFold
      <4>. QED  BY <4>1, <4>2, <2>4
    <3>. QED  BY <3>1, <3>2
  <2>6. g = [s \in SUBSET (1..(k + 1)) |-> g[s]]
    BY <2>2
  <2>7. FilterFold(g, k + 1, pieces)
    BY <2>5, <2>6 DEF FilterFold
  <2>. QED  BY <2>7
<1>3. Nat \subseteq Good
  <2>. HIDE DEF Good
  <2>. QED  BY <1>1, <1>2, SetInduction
<1>. QED  BY <1>3

\* f[k] are the tokens among the first k pieces.
Filters(f, pieces) ==
    /\ f[0] = <<>>
    /\ \A k \in 0..(Len(pieces) - 1) : f[k + 1] = AddPiece(f[k], pieces[k + 1])

\* The filter adds the pieces one by one.
LEMMA FilterSteps ==
    ASSUME NEW C, NEW pieces \in Seq(C)
    PROVE  \E f : Filters(f, pieces) /\ Filter(pieces) = f[Len(pieces)]
<1>1. PICK n \in Nat : n = Len(pieces) /\ DOMAIN pieces = 1..n
  OBVIOUS
<1>2. PICK g : g = CHOOSE h : FilterFold(h, n, pieces)
  OBVIOUS
<1>3. FilterFold(g, n, pieces)
  BY <1>2, FilterFoldExists
<1>4. Filter(pieces) = g[1..n]
  BY <1>1, <1>2 DEF Filter, FoldLeft, MapThenFoldSet, FilterFold
<1>5. PICK f : f = [k \in 0..n |-> g[1..k]]
  OBVIOUS
<1>6. f[0] = <<>>
  <2>1. 1..0 = {} /\ {} \in SUBSET (1..n)
    OBVIOUS
  <2>. QED  BY <2>1, <1>3, <1>5 DEF FilterFold
<1>7. ASSUME NEW k \in 0..(n - 1) PROVE f[k + 1] = AddPiece(f[k], pieces[k + 1])
  <2>1. 1..(k + 1) \in SUBSET (1..n) /\ 1..(k + 1) # {} /\ k + 1 \in 1..(k + 1)
    <3>1. k + 1 \in 1..(k + 1)
      OBVIOUS
    <3>2. 1..(k + 1) \subseteq 1..n
      OBVIOUS
    <3>. QED  BY <3>1, <3>2
  <2>2. Max(1..(k + 1)) = k + 1
    BY <2>1, LargestIndex
  <2>3. (1..(k + 1)) \ {k + 1} = 1..k
    OBVIOUS
  <2>4. g[1..(k + 1)] = AddPiece(g[1..k], pieces[k + 1])
    BY <2>1, <2>2, <2>3, <1>3 DEF FilterFold
  <2>. QED  BY <2>4, <1>5
<1>8. Filters(f, pieces)
  BY <1>1, <1>6, <1>7 DEF Filters
<1>. QED  BY <1>1, <1>4, <1>5, <1>8

-----------------------------------------------------------------------------
(* Parsing.                                                                *)

\* What is between two separators.
Pieces(C) == {piece \in Seq(C) : \A i \in 1..Len(piece) : piece[i] # Separator}

\* Adding a character leaves pieces without a separator, and at least one.
LEMMA AddCharacterType ==
    ASSUME NEW C, NEW p \in Seq(Pieces(C)), p # <<>>, NEW c \in C
    PROVE  AddCharacter(p, c) \in Seq(Pieces(C)) /\ AddCharacter(p, c) # <<>>
<1>1. CASE c = Separator
  <2>1. <<>> \in Pieces(C)
    BY DEF Pieces
  <2>2. Append(p, <<>>) \in Seq(Pieces(C)) /\ Append(p, <<>>) # <<>>
    BY <2>1, AppendProperties
  <2>. QED  BY <1>1, <2>2 DEF AddCharacter
<1>2. CASE c # Separator
  <2>1. PICK last \in Pieces(C), l \in 1..Len(p) : l = Len(p) /\ last = p[l]
    OBVIOUS
  <2>2. last \in Seq(C) /\ \A i \in 1..Len(last) : last[i] # Separator
    BY DEF Pieces
  <2>3. PICK new \in Seq(C) : new = Append(last, c)
    BY <2>2, AppendProperties
  <2>4. Len(new) = Len(last) + 1 /\ new[Len(last) + 1] = c /\ \A i \in 1..Len(last) : new[i] = last[i]
    BY <2>2, <2>3
  <2>5. new \in Pieces(C)
    <3>1. \A i \in 1..Len(new) : i \in 1..Len(last) \/ i = Len(last) + 1
      BY <2>2, <2>4
    <3>2. \A i \in 1..Len(new) : new[i] # Separator
      BY <3>1, <2>2, <2>4, <1>2
    <3>. QED  BY <3>2 DEF Pieces
  <2>6. AddCharacter(p, c) = [p EXCEPT ![l] = new]
    BY <1>2, <2>1, <2>3 DEF AddCharacter
  <2>7. [p EXCEPT ![l] = new] \in Seq(Pieces(C)) /\ Len([p EXCEPT ![l] = new]) = Len(p)
    BY <2>5, ExceptSeq
  <2>8. Len(p) # 0
    OBVIOUS
  <2>. QED  BY <2>6, <2>7, <2>8
<1>. QED  BY <1>1, <1>2

\* Split returns pieces, and at least one.
LEMMA SplitType ==
    ASSUME NEW C, NEW text \in Seq(C), NEW f, Splits(f, text), NEW n \in 0..Len(text)
    PROVE  f[n] \in Seq(Pieces(C)) /\ f[n] # <<>>
<1> DEFINE Good == {k \in Nat : k <= Len(text) => f[k] \in Seq(Pieces(C)) /\ f[k] # <<>>}
<1>1. 0 \in Good
  <2>1. <<>> \in Pieces(C)
    BY DEF Pieces
  <2>2. << <<>> >> \in Seq(Pieces(C)) /\ << <<>> >> # <<>>
    BY <2>1
  <2>. QED  BY <2>2 DEF Splits
<1>2. ASSUME NEW k \in Nat, k \in Good PROVE k + 1 \in Good
  <2>1. SUFFICES ASSUME k + 1 <= Len(text) PROVE f[k + 1] \in Seq(Pieces(C)) /\ f[k + 1] # <<>>
    OBVIOUS
  <2>2. f[k] \in Seq(Pieces(C)) /\ f[k] # <<>> /\ text[k + 1] \in C
    BY <1>2, <2>1
  <2>3. f[k + 1] = AddCharacter(f[k], text[k + 1])
    BY <2>1 DEF Splits
  <2>. QED  BY <2>2, <2>3, AddCharacterType
<1>3. Nat \subseteq Good
  <2>. HIDE DEF Good
  <2>. QED  BY <1>1, <1>2, SetInduction
<1>. QED  BY <1>3

\* What is left of pieces without the blank ones are proper names.
LEMMA FilterType ==
    ASSUME NEW C, NEW pieces \in Seq(Pieces(C)), NEW f, Filters(f, pieces), NEW n \in 0..Len(pieces)
    PROVE  f[n] \in Seq(ProperNames(C))
<1> DEFINE Good == {k \in Nat : k <= Len(pieces) => f[k] \in Seq(ProperNames(C))}
<1>1. 0 \in Good
  <2>1. f[0] = <<>> /\ <<>> \in Seq(ProperNames(C))
    BY DEF Filters
  <2>. QED  BY <2>1
<1>2. ASSUME NEW k \in Nat, k \in Good PROVE k + 1 \in Good
  <2>1. SUFFICES ASSUME k + 1 <= Len(pieces) PROVE f[k + 1] \in Seq(ProperNames(C))
    OBVIOUS
  <2>2. f[k] \in Seq(ProperNames(C)) /\ pieces[k + 1] \in Pieces(C)
    BY <1>2, <2>1
  <2>3. f[k + 1] = AddPiece(f[k], pieces[k + 1])
    BY <2>1 DEF Filters
  <2>4. CASE Blank(pieces[k + 1])
    BY <2>2, <2>3, <2>4 DEF AddPiece
  <2>5. CASE ~Blank(pieces[k + 1])
    <3>1. pieces[k + 1] \in ProperNames(C)
      BY <2>2, <2>5 DEF Pieces, ProperNames
    <3>2. Append(f[k], pieces[k + 1]) \in Seq(ProperNames(C))
      BY <2>2, <3>1, AppendProperties
    <3>. QED  BY <2>3, <2>5, <3>2 DEF AddPiece
  <2>. QED  BY <2>4, <2>5
<1>3. Nat \subseteq Good
  <2>. HIDE DEF Good
  <2>. QED  BY <1>1, <1>2, SetInduction
<1>. QED  BY <1>3

\* What is parsed from a text is a path of proper names.
LEMMA TokensType ==
    ASSUME NEW C, NEW text \in Seq(C)
    PROVE  /\ Split(text) \in Seq(Pieces(C)) /\ Split(text) # <<>>
           /\ Tokens(text) = Filter(Split(text))
           /\ Tokens(text) \in Seq(ProperNames(C))
<1>1. PICK f : Splits(f, text) /\ Split(text) = f[Len(text)]
  BY SplitSteps
<1>2. Split(text) \in Seq(Pieces(C)) /\ Split(text) # <<>>
  BY <1>1, SplitType, Len(text) \in 0..Len(text)
<1>3. PICK g : Filters(g, Split(text)) /\ Filter(Split(text)) = g[Len(Split(text))]
  BY <1>2, FilterSteps
<1>4. Len(Split(text)) \in 0..Len(Split(text))
  BY <1>2
<1>5. Filter(Split(text)) \in Seq(ProperNames(C))
  BY <1>2, <1>3, <1>4, FilterType
<1>6. Tokens(text) = Filter(Split(text))
  BY DEF Tokens, Filter
<1>. QED  BY <1>2, <1>5, <1>6

\* To append to two sequences is to append to the second.
LEMMA AppendToConcat ==
    ASSUME NEW S, NEW p \in Seq(S), NEW q \in Seq(S), NEW e \in S
    PROVE  Append(Joined(p, q), e) = Joined(p, Append(q, e))
<1>1. Append(p \o q, e) = (p \o q) \o <<e>>
  BY ConcatProperties, AppendIsConcat
<1>2. p \o Append(q, e) = p \o (q \o <<e>>)
  BY AppendIsConcat
<1>3. (p \o q) \o <<e>> = p \o (q \o <<e>>)
  BY ConcatAssociative, <<e>> \in Seq(S)
<1>. QED  BY <1>1, <1>2, <1>3, Zenon DEF Joined

\* The tokens of two sequences of pieces.
LEMMA FilterConcat ==
    ASSUME NEW C, NEW p \in Seq(Pieces(C)), NEW q \in Seq(Pieces(C))
    PROVE  Filter(p \o q) = Filter(p) \o Filter(q)
<1>1. PICK l \in Nat, m \in Nat : l = Len(p) /\ m = Len(q)
  OBVIOUS
<1>2. PICK r \in Seq(Pieces(C)) : r = p \o q
  BY ConcatProperties
<1>3. Len(r) = l + m /\ (\A i \in 1..l : r[i] = p[i]) /\ \A i \in 1..m : r[l + i] = q[i]
  BY <1>1, <1>2
<1>4. PICK f : Filters(f, p) /\ Filter(p) = f[l]
  BY <1>1, FilterSteps
<1>5. PICK g : Filters(g, q) /\ Filter(q) = g[m]
  BY <1>1, FilterSteps
<1>6. PICK h : Filters(h, r) /\ Filter(r) = h[l + m]
  BY <1>3, FilterSteps
<1>7. \A k \in 0..l : h[k] = f[k]
  <2> DEFINE Good == {k \in Nat : k <= l => h[k] = f[k]}
  <2>1. 0 \in Good
    BY <1>4, <1>6 DEF Filters
  <2>2. ASSUME NEW k \in Nat, k \in Good PROVE k + 1 \in Good
    <3>1. SUFFICES ASSUME k + 1 <= l PROVE h[k + 1] = f[k + 1]
      OBVIOUS
    <3>2. h[k] = f[k] /\ k \in 0..(l - 1) /\ k \in 0..(l + m - 1) /\ r[k + 1] = p[k + 1]
      BY <2>2, <3>1, <1>3
    <3>3. f[k + 1] = AddPiece(f[k], p[k + 1])
      BY <1>1, <1>4, <3>2 DEF Filters
    <3>4. h[k + 1] = AddPiece(h[k], r[k + 1])
      BY <1>3, <1>6, <3>2 DEF Filters
    <3>. QED  BY <3>2, <3>3, <3>4
  <2>3. Nat \subseteq Good
    <3>. HIDE DEF Good
    <3>. QED  BY <2>1, <2>2, SetInduction
  <2>. QED  BY <2>3
<1>8. f[l] \in Seq(ProperNames(C)) /\ \A k \in 0..m : g[k] \in Seq(ProperNames(C))
  BY <1>1, <1>4, <1>5, FilterType
<1>9. \A k \in 0..m : h[l + k] = Joined(f[l], g[k])
  <2> DEFINE Good == {k \in Nat : k <= m => h[l + k] = Joined(f[l], g[k])}
  <2>1. 0 \in Good
    <3>1. g[0] = <<>> /\ f[l] \o <<>> = f[l]
      BY <1>5, <1>8, ConcatEmptySeq DEF Filters
    <3>2. h[l + 0] = f[l]
      BY <1>7
    <3>. QED  BY <3>1, <3>2 DEF Joined
  <2>2. ASSUME NEW k \in Nat, k \in Good PROVE k + 1 \in Good
    <3>1. SUFFICES ASSUME k + 1 <= m PROVE h[l + (k + 1)] = Joined(f[l], g[k + 1])
      OBVIOUS
    <3>2. /\ h[l + k] = Joined(f[l], g[k]) /\ k \in 0..(m - 1) /\ l + k \in 0..(l + m - 1)
          /\ l + (k + 1) = (l + k) + 1 /\ r[(l + k) + 1] = q[k + 1]
      <4>1. k + 1 \in 1..m /\ r[l + (k + 1)] = q[k + 1]
        BY <3>1, <1>3
      <4>2. h[l + k] = Joined(f[l], g[k])
        BY <2>2, <3>1
      <4>3. k \in 0..(m - 1) /\ l + k \in 0..(l + m - 1) /\ l + (k + 1) = (l + k) + 1
        BY <3>1
      <4>. QED  BY <4>1, <4>2, <4>3
    <3>3. g[k + 1] = AddPiece(g[k], q[k + 1])
      BY <1>1, <1>5, <3>2 DEF Filters
    <3>4. h[(l + k) + 1] = AddPiece(h[l + k], r[(l + k) + 1])
      BY <1>3, <1>6, <3>2 DEF Filters
    <3>5. PICK a \in Seq(ProperNames(C)), b \in Seq(ProperNames(C)) : a = f[l] /\ b = g[k]
      <4>1. k \in 0..m
        BY <3>2
      <4>. QED  BY <1>8, <4>1, Zenon
    <3>6. PICK piece \in Pieces(C) : piece = q[k + 1]
      BY <1>1, <3>2
    <3>7. AddPiece(Joined(a, b), piece) = Joined(a, AddPiece(b, piece))
      <4>1. CASE Blank(piece)
        BY <4>1 DEF AddPiece
      <4>2. CASE ~Blank(piece)
        <5>1. piece \in ProperNames(C)
          BY <4>2 DEF Pieces, ProperNames
        <5>2. Append(Joined(a, b), piece) = Joined(a, Append(b, piece))
          BY <5>1, AppendToConcat
        <5>. QED  BY <4>2, <5>2, Zenon DEF AddPiece
      <4>. QED  BY <4>1, <4>2
    <3>. QED  BY <3>2, <3>3, <3>4, <3>5, <3>6, <3>7, Zenon
  <2>3. Nat \subseteq Good
    <3>. HIDE DEF Good
    <3>. QED  BY <2>1, <2>2, SetInduction
  <2>. QED  BY <2>3
<1>10. h[l + m] = f[l] \o g[m]
  BY <1>9, m \in 0..m DEF Joined
<1>. QED  BY <1>2, <1>4, <1>5, <1>6, <1>10

\* To add a character to two sequences of pieces is to add it to the second.
LEMMA AddCharacterToConcat ==
    ASSUME NEW C, NEW p \in Seq(Pieces(C)), NEW q \in Seq(Pieces(C)), q # <<>>, NEW c \in C
    PROVE  AddCharacter(Joined(p, q), c) = Joined(p, AddCharacter(q, c))
<1>1. CASE c = Separator
  <2>1. <<>> \in Pieces(C)
    BY DEF Pieces
  <2>2. Append(Joined(p, q), <<>>) = Joined(p, Append(q, <<>>))
    BY <2>1, AppendToConcat
  <2>. QED  BY <1>1, <2>2, Zenon DEF AddCharacter
<1>2. CASE c # Separator
  <2>1. PICK r \in Seq(Pieces(C)) : r = p \o q
    BY ConcatProperties
  <2>2. PICK l \in Nat, m \in Nat : l = Len(p) /\ m = Len(q) /\ m > 0
    OBVIOUS
  <2>3. Len(r) = l + m /\ (\A i \in 1..l : r[i] = p[i]) /\ \A i \in 1..m : r[l + i] = q[i]
    BY <2>1, <2>2
  <2>4. PICK new : new = Append(q[m], c)
    OBVIOUS
  <2>5. AddCharacter(q, c) = [q EXCEPT ![m] = new]
    BY <1>2, <2>2, <2>4 DEF AddCharacter
  <2>6. AddCharacter(r, c) = [r EXCEPT ![l + m] = new]
    <3>1. r[l + m] = q[m]
      BY <2>2, <2>3
    <3>. QED  BY <1>2, <2>3, <2>4, <3>1 DEF AddCharacter
  <2>7. PICK y \in Seq(Pieces(C)) : y = AddCharacter(q, c)
    BY AddCharacterType
  <2>8. Len(y) = m /\ y[m] = new /\ \A i \in 1..(m - 1) : y[i] = q[i]
    BY <2>2, <2>5, <2>7
  <2>9. PICK z \in Seq(Pieces(C)) : z = p \o y
    BY ConcatProperties
  <2>10. Len(z) = l + m /\ (\A i \in 1..l : z[i] = p[i]) /\ \A i \in 1..m : z[l + i] = y[i]
    <3>1. /\ Len(z) = Len(p) + Len(y) /\ (\A i \in 1..Len(p) : z[i] = p[i])
          /\ \A i \in 1..Len(y) : z[Len(p) + i] = y[i]
      BY <2>9
    <3>. QED  BY <3>1, <2>2, <2>8
  <2>11. r # <<>>
    BY <2>2, <2>3
  <2>12. PICK x \in Seq(Pieces(C)) : x = AddCharacter(r, c)
    BY <2>11, AddCharacterType
  <2>13. Len(x) = l + m /\ x[l + m] = new /\ \A i \in 1..(l + m - 1) : x[i] = r[i]
    BY <2>2, <2>3, <2>6, <2>12
  <2>14. ASSUME NEW i \in 1..(l + m) PROVE x[i] = z[i]
    <3>1. CASE i <= l
      BY <3>1, <2>2, <2>3, <2>10, <2>13
    <3>2. CASE i > l /\ i < l + m
      <4>0. i - l \in 1..(m - 1) /\ i = l + (i - l)
        BY <3>2, <2>2
      <4>1. PICK j \in 1..(m - 1) : i = l + j
        BY <4>0
      <4>. QED  BY <4>1, <2>3, <2>8, <2>10, <2>13
    <3>3. CASE i = l + m
      BY <3>3, <2>2, <2>8, <2>10, <2>13
    <3>. QED  BY <3>1, <3>2, <3>3
  <2>15. x = z
    BY <2>10, <2>13, <2>14, SeqEqual
  <2>. QED  BY <2>1, <2>7, <2>9, <2>12, <2>15, Zenon DEF Joined
<1>. QED  BY <1>1, <1>2

\* Splitting two texts with a separator between them is splitting each.
LEMMA SplitConcat ==
    ASSUME NEW C, Separator \in C, NEW a \in Seq(C), NEW b \in Seq(C), NEW x \in Seq(C),
           Extends(x, a, b)
    PROVE  Split(x) = Split(a) \o Split(b)
<1>1. PICK l \in Nat, m \in Nat : l = Len(a) /\ m = Len(b)
  OBVIOUS
<1>2. /\ Len(x) = l + 1 + m /\ (\A i \in 1..l : x[i] = a[i])
      /\ x[l + 1] = Separator /\ \A i \in 1..m : x[l + 1 + i] = b[i]
  BY <1>1 DEF Extends
<1>3. PICK f : Splits(f, a) /\ Split(a) = f[l]
  BY <1>1, SplitSteps
<1>4. PICK g : Splits(g, b) /\ Split(b) = g[m]
  BY <1>1, SplitSteps
<1>5. PICK h : Splits(h, x) /\ Split(x) = h[l + 1 + m]
  BY <1>2, SplitSteps
<1>6. \A k \in 0..l : h[k] = f[k]
  <2> DEFINE Good == {k \in Nat : k <= l => h[k] = f[k]}
  <2>1. 0 \in Good
    BY <1>3, <1>5 DEF Splits
  <2>2. ASSUME NEW k \in Nat, k \in Good PROVE k + 1 \in Good
    <3>1. SUFFICES ASSUME k + 1 <= l PROVE h[k + 1] = f[k + 1]
      OBVIOUS
    <3>2. h[k] = f[k] /\ k \in 0..(l - 1) /\ k \in 0..(Len(x) - 1) /\ x[k + 1] = a[k + 1]
      BY <2>2, <3>1, <1>2
    <3>3. f[k + 1] = AddCharacter(f[k], a[k + 1])
      BY <1>1, <1>3, <3>2 DEF Splits
    <3>4. h[k + 1] = AddCharacter(h[k], x[k + 1])
      BY <1>5, <3>2 DEF Splits
    <3>. QED  BY <3>2, <3>3, <3>4
  <2>3. Nat \subseteq Good
    <3>. HIDE DEF Good
    <3>. QED  BY <2>1, <2>2, SetInduction
  <2>. QED  BY <2>3
<1>7. f[l] \in Seq(Pieces(C)) /\ \A k \in 0..m : g[k] \in Seq(Pieces(C)) /\ g[k] # <<>>
  <2>1. l \in 0..Len(a)
    BY <1>1
  <2>2. f[l] \in Seq(Pieces(C))
    BY <1>3, <2>1, SplitType, Zenon
  <2>3. ASSUME NEW k \in 0..m PROVE g[k] \in Seq(Pieces(C)) /\ g[k] # <<>>
    <3>1. k \in 0..Len(b)
      BY <1>1
    <3>. QED  BY <1>4, <3>1, SplitType, Zenon
  <2>. QED  BY <2>2, <2>3, Zenon
<1>8. h[l + 1] = Joined(f[l], g[0])
  <2>1. PICK p \in Seq(Pieces(C)) : p = f[l] /\ p = h[l]
    BY <1>6, <1>7
  <2>2. l \in 0..(Len(x) - 1)
    BY <1>2
  <2>3. h[l + 1] = AddCharacter(p, Separator)
    BY <1>2, <1>5, <2>1, <2>2 DEF Splits
  <2>4. AddCharacter(p, Separator) = Append(p, <<>>)
    BY DEF AddCharacter
  <2>5. <<>> \in Pieces(C)
    BY DEF Pieces
  <2>6. Append(p, <<>>) = p \o << <<>> >>
    BY <2>5, AppendIsConcat
  <2>. QED  BY <2>1, <2>3, <2>4, <2>6, <1>4 DEF Joined, Splits
<1>9. \A k \in 0..m : h[l + 1 + k] = Joined(f[l], g[k])
  <2> DEFINE Good == {k \in Nat : k <= m => h[l + 1 + k] = Joined(f[l], g[k])}
  <2>1. 0 \in Good
    BY <1>8
  <2>2. ASSUME NEW k \in Nat, k \in Good PROVE k + 1 \in Good
    <3>1. SUFFICES ASSUME k + 1 <= m PROVE h[l + 1 + (k + 1)] = Joined(f[l], g[k + 1])
      OBVIOUS
    <3>2. /\ h[l + 1 + k] = Joined(f[l], g[k]) /\ k \in 0..(m - 1) /\ l + 1 + k \in 0..(Len(x) - 1)
          /\ l + 1 + (k + 1) = (l + 1 + k) + 1 /\ x[(l + 1 + k) + 1] = b[k + 1]
      <4>1. k + 1 \in 1..m /\ x[l + 1 + (k + 1)] = b[k + 1]
        BY <3>1, <1>2
      <4>2. h[l + 1 + k] = Joined(f[l], g[k])
        BY <2>2, <3>1
      <4>3. k \in 0..(m - 1) /\ l + 1 + k \in 0..(Len(x) - 1) /\ l + 1 + (k + 1) = (l + 1 + k) + 1
        BY <3>1, <1>2
      <4>. QED  BY <4>1, <4>2, <4>3
    <3>3. g[k + 1] = AddCharacter(g[k], b[k + 1])
      BY <1>1, <1>4, <3>2 DEF Splits
    <3>4. h[(l + 1 + k) + 1] = AddCharacter(h[l + 1 + k], x[(l + 1 + k) + 1])
      BY <1>5, <3>2 DEF Splits
    <3>5. PICK p \in Seq(Pieces(C)), q \in Seq(Pieces(C)) : p = f[l] /\ q = g[k] /\ q # <<>>
      <4>1. k \in 0..m
        BY <3>2
      <4>. QED  BY <1>7, <4>1, Zenon
    <3>6. PICK c \in C : c = b[k + 1]
      <4>1. k + 1 \in 1..Len(b)
        BY <1>1, <3>2
      <4>. QED  BY <4>1
    <3>7. AddCharacter(Joined(p, q), c) = Joined(p, AddCharacter(q, c))
      BY <3>5, AddCharacterToConcat
    <3>. QED  BY <3>2, <3>3, <3>4, <3>5, <3>6, <3>7, Zenon
  <2>3. Nat \subseteq Good
    <3>. HIDE DEF Good
    <3>. QED  BY <2>1, <2>2, SetInduction
  <2>. QED  BY <2>3
<1>10. h[l + 1 + m] = f[l] \o g[m]
  BY <1>9, m \in 0..m DEF Joined
<1>. QED  BY <1>3, <1>4, <1>5, <1>10

\* The tokens of two texts with a separator between them.
LEMMA TokensConcat ==
    ASSUME NEW C, Separator \in C, NEW a \in Seq(C), NEW b \in Seq(C), NEW x \in Seq(C),
           Extends(x, a, b)
    PROVE  Tokens(x) = Tokens(a) \o Tokens(b)
<1>1. PICK p \in Seq(Pieces(C)), q \in Seq(Pieces(C)) : p = Split(a) /\ q = Split(b)
  BY TokensType
<1>2. Filter(p \o q) = Filter(p) \o Filter(q)
  BY FilterConcat, Zenon
<1>3. Split(x) = p \o q
  <2>1. Split(x) = Split(a) \o Split(b)
    BY SplitConcat
  <2>. QED  BY <1>1, <2>1, Zenon
<1>4. Tokens(x) = Filter(Split(x)) /\ Tokens(a) = Filter(p) /\ Tokens(b) = Filter(q)
  BY <1>1, TokensType
<1>. QED  BY <1>2, <1>3, <1>4

\* A text without a name.
LEMMA TokensOfNothing == Tokens(<<>>) = <<>>
<1>1. PICK f : Splits(f, <<>>) /\ Split(<<>>) = f[0]
  BY SplitSteps, <<>> \in Seq({}), Len(<<>>) = 0
<1>2. Split(<<>>) = << <<>> >>
  BY <1>1 DEF Splits
<1>3. << <<>> >> \in Seq({<<>>}) /\ Len(<< <<>> >>) = 1
  OBVIOUS
<1>4. PICK g : Filters(g, << <<>> >>) /\ Filter(<< <<>> >>) = g[1]
  BY <1>3, FilterSteps
<1>5. Blank(<<>>)
  BY DEF Blank
<1>6. g[1] = <<>>
  <2>1. 0 \in 0..(1 - 1) /\ 0 + 1 = 1 /\ << <<>> >>[1] = <<>>
    OBVIOUS
  <2>2. g[1] = AddPiece(g[0], <<>>) /\ g[0] = <<>>
    BY <2>1, <1>3, <1>4 DEF Filters
  <2>. QED  BY <2>2, <1>5 DEF AddPiece
<1>. QED  BY <1>2, <1>4, <1>6 DEF Tokens, Filter

\* One name is one token.
LEMMA TokensOfName ==
    ASSUME NEW C, NEW name \in ProperNames(C)
    PROVE  Tokens(name) = <<name>>
<1>1. PICK n \in Nat : n = Len(name) /\ name \in Seq(C) /\ \A i \in 1..n : name[i] # Separator
  BY NameFacts
<1>2. PICK f : Splits(f, name) /\ Split(name) = f[n]
  BY <1>1, SplitSteps
<1>3. PICK first : first = [k \in 0..n |-> SubSeq(name, 1, k)]
  OBVIOUS
<1>4. \A k \in 0..n : first[k] \in Seq(C) /\ Len(first[k]) = k /\ \A i \in 1..k : first[k][i] = name[i]
  BY <1>1, <1>3
<1>5. ASSUME NEW k \in 0..(n - 1) PROVE Append(first[k], name[k + 1]) = first[k + 1]
  <2>1. PICK a \in Seq(C), b \in Seq(C), c \in C : a = first[k] /\ b = first[k + 1] /\ c = name[k + 1]
    BY <1>1, <1>4
  <2>2. Len(a) = k /\ Len(b) = k + 1 /\ (\A i \in 1..k : a[i] = b[i]) /\ b[k + 1] = c
    BY <1>4, <2>1
  <2>3. PICK d \in Seq(C) : d = Append(a, c)
    BY AppendProperties
  <2>4. Len(d) = k + 1 /\ (\A i \in 1..k : d[i] = a[i]) /\ d[k + 1] = c
    BY <2>2, <2>3
  <2>5. \A i \in 1..(k + 1) : d[i] = b[i]
    BY <2>2, <2>4
  <2>6. d = b
    BY <2>2, <2>4, <2>5, SeqEqual
  <2>. QED  BY <2>1, <2>3, <2>6
<1>6. \A k \in 0..n : f[k] = <<first[k]>>
  <2> DEFINE Good == {k \in Nat : k <= n => f[k] = <<first[k]>>}
  <2>1. 0 \in Good
    <3>1. first[0] = <<>>
      BY <1>4
    <3>. QED  BY <3>1, <1>2 DEF Splits
  <2>2. ASSUME NEW k \in Nat, k \in Good PROVE k + 1 \in Good
    <3>1. SUFFICES ASSUME k + 1 <= n PROVE f[k + 1] = <<first[k + 1]>>
      OBVIOUS
    <3>2. k \in 0..(n - 1) /\ k + 1 \in 1..n /\ f[k] = <<first[k]>>
      BY <2>2, <3>1
    <3>3. f[k + 1] = AddCharacter(<<first[k]>>, name[k + 1]) /\ name[k + 1] # Separator
      BY <1>1, <1>2, <3>2 DEF Splits
    <3>4. PICK p, c : p = first[k] /\ c = name[k + 1]
      OBVIOUS
    <3>5. AddCharacter(<<p>>, c) = <<Append(p, c)>>
      BY <3>3, <3>4 DEF AddCharacter
    <3>6. Append(p, c) = first[k + 1]
      BY <1>5, <3>2, <3>4
    <3>. QED  BY <3>3, <3>4, <3>5, <3>6
  <2>3. Nat \subseteq Good
    <3>. HIDE DEF Good
    <3>. QED  BY <2>1, <2>2, SetInduction
  <2>. QED  BY <2>3
<1>7. Split(name) = <<name>>
  <2>1. first[n] = name
    BY <1>1, <1>4, SeqEqual
  <2>. QED  BY <2>1, <1>2, <1>6
<1>8. <<name>> \in Seq({name}) /\ Len(<<name>>) = 1 /\ <<name>>[1] = name
  OBVIOUS
<1>9. PICK g : Filters(g, <<name>>) /\ Filter(<<name>>) = g[1]
  BY <1>8, FilterSteps
<1>10. g[1] = <<name>>
  <2>1. 0 \in 0..(1 - 1) /\ 0 + 1 = 1
    OBVIOUS
  <2>2. g[1] = AddPiece(g[0], name) /\ g[0] = <<>>
    BY <2>1, <1>8, <1>9 DEF Filters
  <2>3. ~Blank(name)
    BY DEF ProperNames
  <2>. QED  BY <2>2, <2>3 DEF AddPiece
<1>. QED  BY <1>7, <1>9, <1>10 DEF Tokens, Filter

-----------------------------------------------------------------------------
(* A path and its text stand for each other.                               *)

\* The text that Div parses and Display writes.
LEMMA SeparatedText ==
    ASSUME NEW C, Separator \in C, NEW a \in Seq(C), NEW b \in Seq(C)
    PROVE  a \o <<Separator>> \o b \in Seq(C) /\ Extends(a \o <<Separator>> \o b, a, b)
<1>1. <<Separator>> \in Seq(C)
  OBVIOUS
<1>2. PICK h \in Seq(C) : h = a \o <<Separator>>
  BY <1>1, ConcatProperties
<1>3. Len(h) = Len(a) + 1 /\ (\A i \in 1..Len(a) : h[i] = a[i]) /\ h[Len(a) + 1] = Separator
  BY <1>2
<1>4. PICK x \in Seq(C) : x = h \o b
  BY ConcatProperties
<1>5. /\ Len(x) = Len(h) + Len(b) /\ (\A i \in 1..Len(h) : x[i] = h[i])
      /\ \A i \in 1..Len(b) : x[Len(h) + i] = b[i]
  BY <1>4
<1>6. Extends(x, a, b)
  BY <1>3, <1>5 DEF Extends
<1>. QED  BY <1>2, <1>4, <1>6

\* Parsing what Display wrote gives the path back.
LEMMA RoundTrip ==
    ASSUME NEW C, Separator \in C, NEW path \in Seq(ProperNames(C))
    PROVE  Tokens(Display(path)) = path
<1>1. CASE path = <<>>
  <2>0. <<>> \in Seq(C) /\ <<Separator>> \in Seq(C)
    OBVIOUS
  <2>1. PICK e \in Seq(C) : e = <<>>
    BY <2>0
  <2>2. PICK x \in Seq(C) : x = <<Separator>>
    BY <2>0
  <2>3. Extends(x, e, e)
    BY <2>1, <2>2 DEF Extends
  <2>4. Tokens(x) = Tokens(e) \o Tokens(e)
    BY <2>3, TokensConcat
  <2>5. <<>> \o <<>> = <<>>
    BY ConcatEmptySeq, <<>> \in Seq({})
  <2>6. Tokens(x) = <<>>
    BY <2>1, <2>4, <2>5, TokensOfNothing
  <2>7. Display(path) = x
    BY <1>1, <2>2 DEF Display
  <2>. QED  BY <1>1, <2>6, <2>7
<1>2. CASE path # <<>>
  <2>1. PICK t : Writes(t, path, C) /\ Display(path) = t[Len(path)]
    BY <1>2, DisplayWrites
  <2>2. PICK n \in Nat : n = Len(path)
    OBVIOUS
  <2>3. \A k \in 0..n : t[k] \in Seq(C)
    BY <2>1, <2>2 DEF Writes
  <2> DEFINE Parses(k) == Len(Tokens(t[k])) = k /\ \A i \in 1..k : Tokens(t[k])[i] = path[i]
             Good == {k \in Nat : k <= n => Parses(k)}
  <2>4. 0 \in Good
    <3>1. Tokens(t[0]) = <<>>
      BY <2>1, TokensOfNothing DEF Writes
    <3>. QED  BY <3>1
  <2>5. ASSUME NEW k \in Nat, k \in Good PROVE k + 1 \in Good
    <3>1. SUFFICES ASSUME k + 1 <= n PROVE Parses(k + 1)
      OBVIOUS
    <3>2. k \in 0..(n - 1) /\ k \in 0..n /\ k + 1 \in 0..n /\ Parses(k)
      BY <2>5, <3>1
    <3>3. /\ t[k] \in Seq(C) /\ t[k + 1] \in Seq(C) /\ path[k + 1] \in ProperNames(C)
          /\ Extends(t[k + 1], t[k], path[k + 1])
      BY <2>1, <2>2, <3>2, NameAdds
    <3>4. path[k + 1] \in Seq(C)
      BY <3>3, NameFacts
    <3>5. Tokens(t[k + 1]) = Tokens(t[k]) \o Tokens(path[k + 1])
      BY <3>3, <3>4, TokensConcat
    <3>6. PICK name \in ProperNames(C) : name = path[k + 1] /\ Tokens(name) = <<name>>
      BY <3>3, TokensOfName
    <3>7. PICK p \in Seq(ProperNames(C)) : p = Tokens(t[k])
      BY <3>3, TokensType
    <3>8. PICK q \in Seq(ProperNames(C)) : q = Append(p, name)
      BY AppendProperties
    <3>9. p \o <<name>> = q
      BY <3>8, AppendIsConcat
    <3>10. Tokens(t[k + 1]) = q
      BY <3>5, <3>6, <3>7, <3>9
    <3>11. Len(p) = k /\ \A i \in 1..k : p[i] = path[i]
      BY <3>2, <3>7
    <3>12. Len(q) = k + 1 /\ (\A i \in 1..k : q[i] = p[i]) /\ q[k + 1] = name
      BY <3>8, <3>11
    <3>13. \A i \in 1..(k + 1) : q[i] = path[i]
      BY <3>6, <3>11, <3>12
    <3>. QED  BY <3>10, <3>12, <3>13
  <2>6. Nat \subseteq Good
    <3>. HIDE DEF Good
    <3>. QED  BY <2>4, <2>5, SetInduction
  <2>7. Parses(n)
    BY <2>6
  <2>8. Tokens(t[n]) \in Seq(ProperNames(C))
    BY <2>3, TokensType, n \in 0..n
  <2>9. Tokens(t[n]) = path
    BY <2>2, <2>7, <2>8, SeqEqual
  <2>. QED  BY <2>1, <2>2, <2>9
<1>. QED  BY <1>1, <1>2

\* For any path that a text can stand for, and any text as a name: Display and From are
\* inverse, and Div is what joining the texts is.
THEOREM PathTextOfAll ==
    ASSUME NEW C, Separator \in C, NEW path \in Seq(ProperNames(C)), NEW name \in Seq(C)
    PROVE  PathText(path, name)
<1>1. Display(path) \in Seq(C)
  <2>1. CASE path = <<>>
    BY <2>1 DEF Display
  <2>2. CASE path # <<>>
    BY <2>2, TextStart
  <2>. QED  BY <2>1, <2>2
<1>2. PICK x \in Seq(C) : x = Display(path) \o <<Separator>> \o name /\ Extends(x, Display(path), name)
  BY <1>1, SeparatedText
<1>3. Tokens(Display(path)) = path
  BY RoundTrip
<1>4. Tokens(x) = Tokens(Display(path)) \o Tokens(name)
  BY <1>1, <1>2, TokensConcat
<1>5. Tokens(x) = path \o Tokens(name)
  BY <1>3, <1>4
<1>. QED  BY <1>2, <1>3, <1>5, Zenon DEF PathText, From, Div

-----------------------------------------------------------------------------
(* What TLC checks on texts of at most MaxText characters.                 *)

Alphabet == {Separator, Space, "a", "b"}

\* The paths that TLC enumerates are paths of proper names.
LEMMA ParsedPaths ==
    /\ Separator \in Alphabet
    /\ Texts \subseteq Seq(Alphabet)
    /\ Parsed \subseteq Seq(ProperNames(Alphabet))
<1>1. Texts \subseteq Seq(Alphabet)
  <2>1. SUFFICES ASSUME NEW n \in 0..MaxText, NEW text \in [1..n -> Alphabet] PROVE text \in Seq(Alphabet)
    BY DEF Texts, Alphabet
  <2>2. n \in Nat
    BY MaxTextAssumption
  <2>. QED  BY <2>2
<1>2. Parsed \subseteq Seq(ProperNames(Alphabet))
  BY <1>1, TokensType DEF Parsed, From
<1>. QED  BY <1>1, <1>2 DEF Alphabet

\* PathTextAgrees for every bound on the length of the texts.
THEOREM PathTextCorrect == Spec => []PathTextAgrees
<1>1. PathTextAgrees
  BY ParsedPaths, PathTextOfAll DEF PathTextAgrees
<1>. QED  BY <1>1, PTL

\* AncestryAgrees for every bound on the length of the texts.
THEOREM AncestryCorrect == Spec => []AncestryAgrees
<1>1. AncestryAgrees
  BY ParsedPaths, AncestryOfAll DEF AncestryAgrees
<1>. QED  BY <1>1, PTL

=============================================================================
