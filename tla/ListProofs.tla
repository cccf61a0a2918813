----------------------------- MODULE ListProofs -----------------------------
(***************************************************************************)
(* What the lists of utility/list.h keep, whatever their length: order,    *)
(* elements and multiplicity under SortedInsert and SortedRemove.          *)
(***************************************************************************)
EXTENDS List, SequenceTheorems, FiniteSetTheorems, WellFoundedInduction, TLAPS

\* Every set of naturals that is not empty has a least element.
LEMMA LeastNatural ==
  ASSUME NEW S \in SUBSET Nat, S # {}
  PROVE  \E m \in S : \A n \in S : m <= n
<1> DEFINE R == OpToRel(<, Nat)
<1>1. \A a, b \in Nat : <<a, b>> \in R <=> a < b
  BY DEF OpToRel
<1>2. IsWellFoundedOn(R, Nat)
  BY NatLessThanWellFounded
<1> HIDE DEF R
<1>3. PICK m \in S : \A n \in S : ~(<<n, m>> \in R)
  BY <1>2, WFMin
<1>4. m \in Nat /\ \A n \in S : n \in Nat /\ ~(n < m)
  BY <1>1, <1>3
<1> QED BY <1>4

---------------------------------------------------------------------------
(* Lists with keys *)

\* The elements of a list are records of a set E with integer keys.
Keyed(E) == \A e \in E : e.key \in Int

\* The list is in the order of its keys.
InOrder(list) == \A i, j \in 1..Len(list) : i <= j => list[i].key <= list[j].key

\* The list new is list with element e at place i.
Inserted(new, list, i, e) ==
  /\ Len(new) = Len(list) + 1
  /\ new[i] = e
  /\ \A j \in 1..(i - 1) : new[j] = list[j]
  /\ \A j \in i..Len(list) : new[j + 1] = list[j]

\* SortedInsert puts the element between those that are not bigger and the
\* first bigger one.
LEMMA SortedInsertPlace ==
  ASSUME NEW E, Keyed(E), NEW list \in Seq(E), NEW item, NEW key \in Int,
         ListElement(item, key) \in E
  PROVE  /\ SortedInsert(list, item, key) \in Seq(E)
         /\ \E i \in 1..(Len(list) + 1) :
              /\ Inserted(SortedInsert(list, item, key), list, i, ListElement(item, key))
              /\ \A j \in 1..(i - 1) : list[j].key <= key
              /\ i <= Len(list) => key < list[i].key
<1> DEFINE n == Len(list)
           e == ListElement(item, key)
           bigger == {i \in 1..n : key < list[i].key}
           place == IF bigger = {} THEN n + 1 ELSE CHOOSE i \in bigger : \A j \in bigger : i <= j
           before == SubSeq(list, 1, place - 1)
           after == SubSeq(list, place, n)
<1>1. n \in Nat
  OBVIOUS
<1>2. /\ place \in 1..(n + 1)
      /\ \A j \in 1..(place - 1) : ~(key < list[j].key)
      /\ place <= n => key < list[place].key
  <2>1. CASE bigger = {}
    BY <1>1, <2>1
  <2>2. CASE bigger # {}
    <3>1. bigger \in SUBSET Nat
      OBVIOUS
    <3>2. \E i \in bigger : \A j \in bigger : i <= j
      BY <2>2, <3>1, LeastNatural
    <3>3. place \in bigger /\ \A j \in bigger : place <= j
      BY <2>2, <3>2
    <3> HIDE DEF place
    <3> QED BY <1>1, <3>3
  <2> QED BY <2>1, <2>2
<1>3. SortedInsert(list, item, key) = before \o <<e>> \o after
  BY DEF SortedInsert
<1> HIDE DEF place, e
<1>4. /\ before \in Seq(E) /\ Len(before) = place - 1
      /\ \A j \in 1..(place - 1) : before[j] = list[j]
  BY <1>1, <1>2
<1>5. /\ after \in Seq(E) /\ Len(after) = n + 1 - place
      /\ \A j \in 1..(n + 1 - place) : after[j] = list[place - 1 + j]
  BY <1>1, <1>2
<1> HIDE DEF before, after, n
<1>6. e \in E
  BY DEF e
<1>7. <<e>> \in Seq(E) /\ Len(<<e>>) = 1 /\ <<e>>[1] = e
  BY <1>6
<1> DEFINE front == before \o <<e>>
           new == front \o after
<1>8. /\ front \in Seq(E) /\ Len(front) = place
      /\ \A j \in 1..place : front[j] = IF j <= place - 1 THEN before[j] ELSE <<e>>[j - (place - 1)]
  BY <1>2, <1>4, <1>7, ConcatProperties
<1> HIDE DEF front
<1>9. /\ new \in Seq(E) /\ Len(new) = n + 1
      /\ \A j \in 1..(n + 1) : new[j] = IF j <= place THEN front[j] ELSE after[j - place]
  <2>1. Len(front) + Len(after) = n + 1
    BY <1>1, <1>2, <1>5, <1>8
  <2>2. /\ new \in Seq(E)
        /\ Len(new) = Len(front) + Len(after)
        /\ \A j \in 1..(Len(front) + Len(after)) :
             new[j] = IF j <= Len(front) THEN front[j] ELSE after[j - Len(front)]
    BY <1>5, <1>8, ConcatProperties
  <2> QED BY <1>8, <2>1, <2>2
<1> HIDE DEF new
<1>10. Inserted(new, list, place, e)
  <2>1. new[place] = e
    BY <1>1, <1>2, <1>7, <1>8, <1>9
  <2>2. \A j \in 1..(place - 1) : new[j] = list[j]
    BY <1>1, <1>2, <1>4, <1>8, <1>9
  <2>3. ASSUME NEW j \in place..n
        PROVE  new[j + 1] = list[j]
    <3>1. /\ j + 1 \in 1..(n + 1) /\ ~(j + 1 <= place)
          /\ j + 1 - place \in 1..(n + 1 - place)
          /\ place - 1 + (j + 1 - place) = j
      BY <1>1, <1>2
    <3>2. new[j + 1] = after[j + 1 - place]
      <4>1. PICK k \in 1..(n + 1) : k = j + 1
        BY <3>1
      <4>2. new[k] = after[k - place]
        BY <1>9, <3>1, <4>1
      <4> QED BY <1>1, <1>2, <4>1, <4>2
    <3>3. after[j + 1 - place] = list[place - 1 + (j + 1 - place)]
      BY <1>5, <3>1
    <3> QED BY <3>1, <3>2, <3>3
  <2> QED BY <1>9, <2>1, <2>2, <2>3 DEF Inserted, n
<1>11. \A j \in 1..(place - 1) : list[j].key <= key
  <2>1. ASSUME NEW j \in 1..(place - 1)
        PROVE  list[j].key <= key
    <3>1. j \in 1..Len(list)
      BY <1>1, <1>2 DEF n
    <3>2. list[j].key \in Int
      BY <3>1 DEF Keyed
    <3> QED BY <1>2, <3>2
  <2> QED BY <2>1
<1>12. new = SortedInsert(list, item, key)
  BY <1>3 DEF new, front
<1>13. new \in Seq(E)
  BY <1>9
<1> QED BY <1>2, <1>10, <1>11, <1>12, <1>13 DEF e, n

\* The elements of a list, whether one has a given item, and whether at most
\* one has.
Members(list) == {list[i] : i \in 1..Len(list)}
Occurs(list, x) == \E i \in 1..Len(list) : list[i].item = x
Single(list, x) ==
  \A i, j \in 1..Len(list) : list[i].item = x /\ list[j].item = x => i = j

\* Where the elements of a list are after an insertion.
LEMMA InsertedPlaces ==
  ASSUME NEW E, NEW list \in Seq(E), NEW new, NEW e,
         NEW i \in 1..(Len(list) + 1), Inserted(new, list, i, e)
  PROVE  \A k \in 1..Len(new) :
           \/ k < i /\ k \in 1..Len(list) /\ new[k] = list[k]
           \/ k = i /\ new[k] = e
           \/ k > i /\ k - 1 \in i..Len(list) /\ new[k] = list[k - 1]
<1>1. Len(list) \in Nat /\ Len(new) = Len(list) + 1
  BY DEF Inserted
<1>2. ASSUME NEW k \in 1..Len(new)
      PROVE  \/ k < i /\ k \in 1..Len(list) /\ new[k] = list[k]
             \/ k = i /\ new[k] = e
             \/ k > i /\ k - 1 \in i..Len(list) /\ new[k] = list[k - 1]
  <2>1. CASE k < i
    BY <1>1, <2>1 DEF Inserted
  <2>2. CASE k = i
    BY <2>2 DEF Inserted
  <2>3. CASE k > i
    <3>1. PICK j \in i..Len(list) : j = k - 1 /\ k = j + 1
      BY <1>1, <2>3
    <3>2. new[j + 1] = list[j]
      BY DEF Inserted
    <3> QED BY <2>3, <3>1, <3>2
  <2> QED BY <1>1, <2>1, <2>2, <2>3
<1> QED BY <1>2

\* An insertion adds its element and keeps the others.
LEMMA InsertedMembers ==
  ASSUME NEW E, NEW list \in Seq(E), NEW new, NEW e,
         NEW i \in 1..(Len(list) + 1), Inserted(new, list, i, e)
  PROVE  Members(new) = Members(list) \cup {e}
<1>1. Len(list) \in Nat /\ Len(new) = Len(list) + 1
  BY DEF Inserted
<1>2. \A x \in Members(new) : x \in Members(list) \cup {e}
  <2>1. \A k \in 1..Len(list) : list[k] \in Members(list)
    BY DEF Members
  <2>2. \A k \in i..Len(list) : list[k] \in Members(list)
    BY <1>1, <2>1
  <2>3. \A k \in 1..Len(new) : new[k] \in Members(list) \cup {e}
    BY <2>1, <2>2, InsertedPlaces
  <2> QED BY <2>3 DEF Members
<1>3. \A k \in 1..Len(new) : new[k] \in Members(new)
  BY DEF Members
<1>4. e \in Members(new)
  BY <1>1, <1>3 DEF Inserted
<1>5. ASSUME NEW k \in 1..Len(list)
      PROVE  list[k] \in Members(new)
  <2>1. CASE k < i
    <3>1. k \in 1..Len(new) /\ new[k] = list[k]
      BY <1>1, <2>1 DEF Inserted
    <3> QED BY <1>3, <3>1
  <2>2. CASE k >= i
    <3>1. k + 1 \in 1..Len(new) /\ new[k + 1] = list[k]
      BY <1>1, <2>2 DEF Inserted
    <3> QED BY <1>3, <3>1
  <2> QED BY <1>1, <2>1, <2>2
<1>6. \A x \in Members(list) : x \in Members(new)
  BY <1>5 DEF Members
<1> QED BY <1>2, <1>4, <1>6

\* SortedInsert keeps the order of the list.
LEMMA SortedInsertInOrder ==
  ASSUME NEW E, Keyed(E), NEW list \in Seq(E), NEW item, NEW key \in Int,
         ListElement(item, key) \in E, InOrder(list)
  PROVE  InOrder(SortedInsert(list, item, key))
<1> DEFINE new == SortedInsert(list, item, key)
           e == ListElement(item, key)
<1>1. new \in Seq(E)
  BY SortedInsertPlace
<1>2. PICK i \in 1..(Len(list) + 1) :
        /\ Inserted(new, list, i, e)
        /\ \A j \in 1..(i - 1) : list[j].key <= key
        /\ i <= Len(list) => key < list[i].key
  BY SortedInsertPlace
<1>3. e.key = key
  BY DEF ListElement
<1> HIDE DEF new, e
<1>4. Len(list) \in Nat /\ Len(new) = Len(list) + 1
  BY <1>2 DEF Inserted
<1>5. \A k \in 1..Len(list) : list[k].key \in Int
  BY DEF Keyed
<1>6. \A k \in i..Len(list) : key <= list[k].key
  BY <1>2, <1>4, <1>5 DEF InOrder
<1>7. ASSUME NEW a \in 1..Len(new), NEW b \in 1..Len(new), a <= b
      PROVE  new[a].key <= new[b].key
  <2>1. \A k \in 1..Len(new) :
          \/ k < i /\ k \in 1..Len(list) /\ new[k] = list[k]
          \/ k = i /\ new[k] = e
          \/ k > i /\ k - 1 \in i..Len(list) /\ new[k] = list[k - 1]
    BY <1>2, InsertedPlaces
  <2>2. CASE b < i
    <3>1. /\ a \in 1..Len(list) /\ new[a] = list[a]
          /\ b \in 1..Len(list) /\ new[b] = list[b]
      BY <1>7, <2>1, <2>2
    <3> QED BY <1>7, <3>1 DEF InOrder
  <2>3. CASE b = i
    <3>1. new[b].key = key
      BY <1>3, <2>1, <2>3
    <3>2. a = i \/ (a \in 1..(i - 1) /\ new[a] = list[a])
      BY <1>7, <2>1, <2>3
    <3> QED BY <1>2, <1>3, <2>1, <2>3, <3>1, <3>2
  <2>4. CASE b > i
    <3>1. b - 1 \in i..Len(list) /\ b - 1 \in 1..Len(list) /\ new[b] = list[b - 1]
      BY <1>4, <2>1, <2>4
    <3>2. key <= list[b - 1].key /\ list[b - 1].key \in Int
      BY <1>5, <1>6, <3>1
    <3>3. CASE a < i
      <4>1. a \in 1..(i - 1) /\ a \in 1..Len(list) /\ new[a] = list[a]
        BY <2>1, <3>3
      <4>2. list[a].key <= key /\ list[a].key \in Int
        BY <1>2, <1>5, <4>1
      <4> QED BY <3>1, <3>2, <4>1, <4>2
    <3>4. CASE a = i
      BY <1>3, <2>1, <3>1, <3>2, <3>4
    <3>5. CASE a > i
      <4>1. a - 1 \in 1..Len(list) /\ a - 1 <= b - 1 /\ new[a] = list[a - 1]
        BY <1>4, <1>7, <2>1, <3>5
      <4> QED BY <3>1, <4>1 DEF InOrder
    <3> QED BY <3>3, <3>4, <3>5
  <2> QED BY <2>2, <2>3, <2>4
<1>8. InOrder(new)
  BY <1>7 DEF InOrder
<1> QED BY <1>8 DEF new

\* SortedInsert adds one element with the item, and keeps the others.
LEMMA SortedInsertItems ==
  ASSUME NEW E, Keyed(E), NEW list \in Seq(E), NEW item, NEW key \in Int,
         ListElement(item, key) \in E
  PROVE  LET new == SortedInsert(list, item, key) IN
         /\ new \in Seq(E)
         /\ new # <<>>
         /\ Members(new) = Members(list) \cup {ListElement(item, key)}
         /\ \A x : Occurs(new, x) <=> Occurs(list, x) \/ x = item
         /\ \A x : Single(list, x) /\ (x = item => ~Occurs(list, x)) => Single(new, x)
<1> DEFINE new == SortedInsert(list, item, key)
           e == ListElement(item, key)
<1>1. new \in Seq(E)
  BY SortedInsertPlace
<1>2. PICK i \in 1..(Len(list) + 1) : Inserted(new, list, i, e)
  BY SortedInsertPlace
<1>3. e.item = item
  BY DEF ListElement
<1> HIDE DEF new, e
<1>4. Len(list) \in Nat /\ Len(new) = Len(list) + 1 /\ new # <<>>
  BY <1>1, <1>2 DEF Inserted
<1>5. Members(new) = Members(list) \cup {e}
  BY <1>2, InsertedMembers
<1>6. \A x : Occurs(new, x) <=> \E m \in Members(new) : m.item = x
  BY DEF Occurs, Members
<1>7. \A x : Occurs(list, x) <=> \E m \in Members(list) : m.item = x
  BY DEF Occurs, Members
<1>8. \A x : Occurs(new, x) <=> Occurs(list, x) \/ x = item
  BY <1>3, <1>5, <1>6, <1>7
<1>9. ASSUME NEW x, Single(list, x), x = item => ~Occurs(list, x)
      PROVE  Single(new, x)
  <2>1. \A k \in 1..Len(new) :
          \/ k < i /\ k \in 1..Len(list) /\ new[k] = list[k]
          \/ k = i /\ new[k] = e
          \/ k > i /\ k - 1 \in i..Len(list) /\ new[k] = list[k - 1]
    BY <1>2, InsertedPlaces
  <2>2. \A k \in i..Len(list) : k \in 1..Len(list)
    BY <1>4
  <2>3. ASSUME x = item
        PROVE  \A k \in 1..Len(new) : new[k].item = x => k = i
    BY <1>9, <2>1, <2>2, <2>3 DEF Occurs
  <2>4. ASSUME x # item
        PROVE  \A k, j \in 1..Len(new) : new[k].item = x /\ new[j].item = x => k = j
    <3> SUFFICES ASSUME NEW k \in 1..Len(new), NEW j \in 1..Len(new),
                        new[k].item = x, new[j].item = x
                 PROVE  k = j
      OBVIOUS
    <3>1. \/ k < i /\ k \in 1..Len(list) /\ list[k].item = x
          \/ k > i /\ k - 1 \in i..Len(list) /\ list[k - 1].item = x
      BY <1>3, <2>1, <2>4
    <3>2. \/ j < i /\ j \in 1..Len(list) /\ list[j].item = x
          \/ j > i /\ j - 1 \in i..Len(list) /\ list[j - 1].item = x
      BY <1>3, <2>1, <2>4
    <3>3. \A a, b \in 1..Len(list) : list[a].item = x /\ list[b].item = x => a = b
      BY <1>9 DEF Single
    <3>4. \A a \in i..Len(list) : a \in 1..Len(list) /\ a >= i
      BY <1>4
    <3> QED BY <1>4, <3>1, <3>2, <3>3, <3>4
  <2> QED BY <2>3, <2>4 DEF Single
<1> QED BY <1>1, <1>4, <1>5, <1>8, <1>9 DEF new, e

\* The list without its first element.
LEMMA LeftItems ==
  ASSUME NEW E, NEW list \in Seq(E), list # <<>>
  PROVE  /\ SortedRemove(list) \in E
         /\ SortedRemove(list) = list[1]
         /\ Left(list) \in Seq(E)
         /\ Members(list) = Members(Left(list)) \cup {SortedRemove(list)}
         /\ \A x : Occurs(list, x) <=> Occurs(Left(list), x) \/ x = SortedRemove(list).item
         /\ \A x : Single(list, x) =>
              Single(Left(list), x) /\ (x = SortedRemove(list).item => ~Occurs(Left(list), x))
         /\ InOrder(list) => /\ InOrder(Left(list))
                             /\ \A m \in Members(list) : SortedRemove(list).key <= m.key
<1> DEFINE rest == Tail(list)
           first == Head(list)
<1>1. /\ first \in E /\ first = list[1]
      /\ rest \in Seq(E) /\ Len(rest) = Len(list) - 1
      /\ Len(list) \in Nat /\ Len(list) >= 1
      /\ \A i \in 1..Len(rest) : rest[i] = list[i + 1]
  OBVIOUS
<1> HIDE DEF rest, first
<1>2. \A i \in 1..Len(rest) : i + 1 \in 1..Len(list)
  BY <1>1
<1>3. \A i \in 1..Len(list) : i = 1 \/ \E j \in 1..Len(rest) : i = j + 1
  <2>1. \A i \in 1..Len(list) : i # 1 => i - 1 \in 1..Len(rest) /\ i = (i - 1) + 1
    BY <1>1
  <2> QED BY <2>1
<1>4. 1 \in 1..Len(list)
  BY <1>1
<1>5. Members(list) = Members(rest) \cup {first}
  <2>1. \A i \in 1..Len(list) : list[i] \in Members(list)
    BY DEF Members
  <2>2. \A i \in 1..Len(rest) : rest[i] \in Members(rest)
    BY DEF Members
  <2>3. \A i \in 1..Len(list) : list[i] \in Members(rest) \cup {first}
    BY <1>1, <1>3, <2>2
  <2>4. \A i \in 1..Len(rest) : rest[i] \in Members(list)
    BY <1>1, <1>2, <2>1
  <2>5. first \in Members(list)
    BY <1>1, <1>4, <2>1
  <2>6. Members(list) \subseteq Members(rest) \cup {first}
    BY <2>3 DEF Members
  <2>7. Members(rest) \subseteq Members(list)
    BY <2>4 DEF Members
  <2> QED BY <2>5, <2>6, <2>7
<1>6. /\ \A x : Occurs(list, x) <=> \E m \in Members(list) : m.item = x
      /\ \A x : Occurs(rest, x) <=> \E m \in Members(rest) : m.item = x
  BY DEF Occurs, Members
<1>7. \A x : Occurs(list, x) <=> Occurs(rest, x) \/ x = first.item
  BY <1>5, <1>6
<1>8. ASSUME NEW x, Single(list, x)
      PROVE  Single(rest, x) /\ (x = first.item => ~Occurs(rest, x))
  <2>1. \A a, b \in 1..Len(list) : list[a].item = x /\ list[b].item = x => a = b
    BY <1>8 DEF Single
  <2>2. ASSUME NEW i \in 1..Len(rest), NEW j \in 1..Len(rest),
               rest[i].item = x, rest[j].item = x
        PROVE  i = j
    <3>1. i + 1 = j + 1
      BY <1>1, <1>2, <2>1, <2>2
    <3> QED BY <3>1
  <2>3. ASSUME NEW i \in 1..Len(rest), rest[i].item = x, x = first.item
        PROVE  FALSE
    <3>1. i + 1 = 1
      BY <1>1, <1>2, <1>4, <2>1, <2>3
    <3> QED BY <3>1
  <2> QED BY <2>2, <2>3 DEF Single, Occurs
<1>9. ASSUME InOrder(list)
      PROVE  InOrder(rest) /\ \A m \in Members(list) : first.key <= m.key
  <2>1. \A a, b \in 1..Len(list) : a <= b => list[a].key <= list[b].key
    BY <1>9 DEF InOrder
  <2>2. \A b \in 1..Len(list) : first.key <= list[b].key
    BY <1>1, <1>4, <2>1
  <2>3. \A i, j \in 1..Len(rest) : i <= j => rest[i].key <= rest[j].key
    BY <1>1, <1>2, <2>1
  <2> QED BY <2>2, <2>3 DEF InOrder, Members
<1> QED BY <1>1, <1>5, <1>7, <1>8, <1>9 DEF SortedRemove, Left, rest, first

\* The elements with a given item are one or none.
LEMMA ItemCount ==
  ASSUME NEW list, NEW x, Single(list, x)
  PROVE  Cardinality({i \in 1..Len(list) : list[i].item = x}) = IF Occurs(list, x) THEN 1 ELSE 0
<1> DEFINE places == {i \in 1..Len(list) : list[i].item = x}
<1>1. CASE ~Occurs(list, x)
  <2>1. places = {}
    BY <1>1 DEF Occurs
  <2> QED BY <1>1, <2>1, FS_EmptySet
<1>2. CASE Occurs(list, x)
  <2>1. PICK i \in 1..Len(list) : list[i].item = x
    BY <1>2 DEF Occurs
  <2>2. places = {i}
    BY <2>1 DEF Single
  <2> QED BY <1>2, <2>2, FS_Singleton
<1> QED BY <1>1, <1>2

=============================================================================
