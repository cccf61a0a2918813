--------------------------- MODULE FileSystemProofs ---------------------------
(***************************************************************************)
(* The safety properties of the file system, for every size of the disk,   *)
(* of the table of open files and of the directories, any names and any    *)
(* number of open files, as long as a file has one spelling and its header *)
(* fits in one sector.                                                     *)
(***************************************************************************)
EXTENDS FileSystem, FiniteSetTheorems, SequenceTheorems, WellFoundedInduction, TLAPS

\* Every set of naturals that is not empty has a least element.
LEMMA LeastNatural ==
  ASSUME NEW S \in SUBSET Nat, S # {}
  PROVE  \E m \in S : \A n \in S : m <= n
<1> DEFINE R == OpToRel(<, Nat)
<1>1. \A a, b \in Nat : <<a, b>> \in R <=> a < b
  BY DEF OpToRel
<1>2. IsWellFoundedOn(R, Nat)
  BY NatLessThanWellFounded
<1> HIDE DEF R
<1>3. PICK m \in S : \A n \in S : ~(<<n, m>> \in R)
  BY <1>2, WFMin
<1>4. m \in Nat /\ \A n \in S : n \in Nat /\ ~(n < m)
  BY <1>1, <1>3
<1> QED BY <1>4

\* The constants, one fact per constant.
LEMMA Constants ==
  /\ NumSectors \in Nat /\ SectorSize \in Nat /\ SectorSize > 0
  /\ DatasInFirstSector \in Nat /\ DatasInSector \in Nat /\ DatasInSector > 0
  /\ DirectoryFileSize \in Nat /\ FreeMapFileSize \in Nat
  /\ MaxFileSize \in Nat /\ IsFiniteSet(Handles)
  /\ Sectors \subseteq Nat /\ IsFiniteSet(Sectors)
  /\ FreeMapSector \in Sectors /\ DirectorySector \in Sectors
  /\ FreeMapSector # DirectorySector
  /\ None \notin Sectors /\ Uninit \notin Sectors /\ DirectorySector # None
  /\ Slots \subseteq Nat /\ 0 \in Slots /\ ERROR \notin Slots /\ 0 # ERROR
  /\ \A name \in Spellings : PathOf[name] \in Seq(Names) \ {<<>>}
<1>1. /\ NumSectors \in Nat /\ SectorSize \in Nat /\ SectorSize > 0
      /\ DatasInFirstSector \in Nat /\ DatasInSector \in Nat /\ DatasInSector > 0
      /\ DirectoryFileSize \in Nat /\ FreeMapFileSize \in Nat
      /\ MaxFileSize \in Nat /\ IsFiniteSet(Handles)
      /\ NBOFTENTRY \in Nat /\ NBOFTENTRY > 0 /\ NumSectors > 2 /\ None \notin Sectors
      /\ \A name \in Spellings : PathOf[name] \in Seq(Names) \ {<<>>}
  BY HeaderAssumption, FileSystemAssumption
<1>2. Sectors \subseteq Nat /\ FreeMapSector \in Sectors /\ DirectorySector \in Sectors
  BY <1>1 DEF Sectors, FreeMapSector, DirectorySector
<1>3. Uninit \notin Sectors /\ FreeMapSector # DirectorySector
  BY <1>1 DEF Sectors, Uninit, FreeMapSector, DirectorySector
<1>4. Slots \subseteq Nat /\ 0 \in Slots /\ ERROR \notin Slots /\ 0 # ERROR
  BY <1>1 DEF Slots, ERROR
<1>5. IsFiniteSet(Sectors)
  <2>1. NumSectors - 1 \in Int /\ 0 \in Int
    BY <1>1
  <2> QED BY <2>1, FS_Interval DEF Sectors
<1> QED BY <1>1, <1>2, <1>3, <1>4, <1>5

---------------------------------------------------------------------------
(* Paths *)

\* Paths of a file, and those of a directory: the empty one is the root.
DirPaths == Seq(Names)
Paths == Seq(Names) \ {<<>>}

\* The path of the directory a path is in.
Parent(p) == SubSeq(p, 1, Len(p) - 1)

\* The path p is q or goes through q.
Under(p, q) == Len(q) <= Len(p) /\ \A i \in 1..Len(q) : p[i] = q[i]

\* What Parent is.
LEMMA ParentOf ==
  ASSUME NEW p \in Paths
  PROVE  /\ Len(p) \in Nat \ {0} /\ Len(p) - 1 \in Nat
         /\ Parent(p) \in DirPaths /\ Len(Parent(p)) = Len(p) - 1
         /\ \A i \in 1..(Len(p) - 1) : Parent(p)[i] = p[i]
         /\ FileName(p) \in Names
<1>1. p \in Seq(Names) /\ p # <<>> /\ Len(p) \in Nat /\ Len(p) # 0
  BY EmptySeq DEF Paths
<1>2. Len(p) - 1 \in Nat /\ Len(p) \in 1..Len(p)
  BY <1>1
<1>3. PICK q : q = SubSeq(p, 1, Len(p) - 1)
  OBVIOUS
<1>4. q \in Seq(Names) /\ Len(q) = Len(p) - 1 /\ \A i \in 1..(Len(p) - 1) : q[i] = p[i]
  <2>1. PICK k \in Nat : k = Len(p) - 1
    BY <1>2
  <2>2. \A i \in 1..k : p[i] \in Names
    BY <1>1, <2>1
  <2>3. /\ SubSeq(p, 1, k) \in Seq(Names)
        /\ Len(SubSeq(p, 1, k)) = IF 1 <= k THEN k - 1 + 1 ELSE 0
        /\ \A i \in 1..(k - 1 + 1) : SubSeq(p, 1, k)[i] = p[1 + i - 1]
    BY <2>2, SubSeqProperties
  <2>4. k - 1 + 1 = k /\ \A i \in 1..k : 1 + i - 1 = i
    OBVIOUS
  <2> QED BY <1>3, <2>1, <2>3, <2>4
<1> QED BY <1>1, <1>2, <1>3, <1>4 DEF Parent, FileName, DirPaths

\* The same with the length of the parent.
LEMMA ParentLength ==
  ASSUME NEW p \in Paths
  PROVE  \E n \in Nat : /\ Len(p) = n + 1 /\ Len(p) - 1 = n /\ Len(Parent(p)) = n
                        /\ \A i \in 1..n : Parent(p)[i] = p[i]
<1>1. PICK n \in Nat : n = Len(p) - 1
  BY ParentOf
<1>2. Len(p) \in Nat /\ Len(Parent(p)) = n /\ \A i \in 1..n : Parent(p)[i] = p[i]
  BY <1>1, ParentOf
<1>3. Len(p) = n + 1
  BY <1>1, <1>2
<1> QED BY <1>1, <1>2, <1>3

\* A path is known by its parent and its last name.
LEMMA PathParts ==
  ASSUME NEW p \in Paths, NEW q \in Paths, Parent(p) = Parent(q), FileName(p) = FileName(q)
  PROVE  p = q
<1>1. PICK n \in Nat : n = Len(p) - 1 /\ Len(p) = n + 1 /\ Len(q) = n + 1
  BY ParentOf
<1>2. \A i \in 1..(n + 1) : i = n + 1 \/ i \in 1..n
  BY <1>1
<1>3. \A i \in 1..n : p[i] = q[i]
  <2>1. Len(p) - 1 = n /\ Len(q) - 1 = n
    BY <1>1
  <2>2. \A i \in 1..n : Parent(p)[i] = p[i] /\ Parent(q)[i] = q[i]
    BY <2>1, ParentOf
  <2> QED BY <2>2
<1>4. p[n + 1] = q[n + 1]
  BY <1>1 DEF FileName
<1>5. \A i \in 1..Len(p) : p[i] = q[i]
  BY <1>1, <1>2, <1>3, <1>4
<1>6. p \in Seq(Names) /\ q \in Seq(Names) /\ Len(p) = Len(q)
  BY <1>1 DEF Paths
<1> QED BY <1>5, <1>6, SeqEqual

\* A path goes through q when its parent does, or when it is q.
LEMMA UnderParent ==
  ASSUME NEW p \in Paths, NEW q \in Paths
  PROVE  Under(p, q) <=> p = q \/ Under(Parent(p), q)
<1>1. PICK n \in Nat : Len(p) = n + 1 /\ Len(Parent(p)) = n /\ \A i \in 1..n : Parent(p)[i] = p[i]
  BY ParentLength
<1>2. PICK m \in Nat : Len(q) = m
  BY ParentOf
<1>3. CASE m <= n
  <2>1. \A i \in 1..m : i \in 1..n
    BY <1>3
  <2>2. p # q
    BY <1>1, <1>2, <1>3
  <2>3. m <= n + 1
    BY <1>3
  <2> QED BY <1>1, <1>2, <1>3, <2>1, <2>2, <2>3 DEF Under
<1>4. CASE m > n
  <2>1. ~Under(Parent(p), q)
    BY <1>1, <1>2, <1>4 DEF Under
  <2>2. Under(p, q) => p = q
    <3>1. SUFFICES ASSUME Under(p, q) PROVE p = q
      OBVIOUS
    <3>2. Len(p) = Len(q) /\ \A i \in 1..Len(p) : p[i] = q[i]
      BY <1>1, <1>2, <1>4, <3>1 DEF Under
    <3> QED BY <3>2, SeqEqual DEF Paths
  <2>3. p = q => Under(p, q)
    BY <1>1, <1>2 DEF Under
  <2> QED BY <2>1, <2>2, <2>3
<1> QED BY <1>3, <1>4

\* What holds of a path when it holds of its parent holds of every path.
LEMMA PathInduction ==
  ASSUME NEW S, <<>> \in S, \A p \in Paths : Parent(p) \in S => p \in S
  PROVE  DirPaths \subseteq S
<1> DEFINE bad == {n \in Nat : \E p \in DirPaths : Len(p) = n /\ p \notin S}
<1>1. ASSUME bad # {}
      PROVE  FALSE
  <2>1. bad \in SUBSET Nat
    OBVIOUS
  <2> HIDE DEF bad
  <2>2. PICK n \in bad : \A m \in bad : n <= m
    BY <1>1, <2>1, LeastNatural
  <2>3. PICK p \in DirPaths : Len(p) = n /\ p \notin S
    BY <2>2 DEF bad
  <2>4. p \in Paths
    BY <2>3 DEF DirPaths, Paths
  <2>5. Parent(p) \in DirPaths /\ Len(Parent(p)) = n - 1 /\ n - 1 \in Nat /\ n \in Nat
    BY <2>3, <2>4, ParentOf
  <2>6. n - 1 \notin bad
    BY <2>2, <2>5
  <2>7. Parent(p) \in S
    BY <2>5, <2>6 DEF bad
  <2> QED BY <2>3, <2>4, <2>7
<1>2. SUFFICES ASSUME NEW p \in DirPaths PROVE p \in S
  OBVIOUS
<1>3. Len(p) \in Nat
  BY DEF DirPaths
<1>4. Len(p) \notin bad
  <2> HIDE DEF bad
  <2> QED BY <1>1
<1> QED BY <1>3, <1>4

---------------------------------------------------------------------------
(* Walking down the directories *)

\* The entries ds and the headers im give the directory, if it is one.
AsDir(im, s) == IF s # None /\ im[s] # None /\ im[s].isdir THEN s ELSE None
Entry(ds, d, x) == IF d = None THEN None ELSE ds[d][x]

\* w is the way along the first n names of p.
IsWalk(ds, im, p, n, w) ==
  w = [i \in 0..n |-> IF i = 0 THEN DirectorySector
                      ELSE AsDir(im, Entry(ds, w[i - 1], p[i]))]

\* The directory at a path, and the entry of a path, or None.
Dir(ds, im, p) == (CHOOSE w : IsWalk(ds, im, p, Len(p), w))[Len(p)]
Look(ds, im, p) == Entry(ds, Dir(ds, im, Parent(p)), FileName(p))

\* There is a way.
LEMMA WalkExists ==
  ASSUME NEW ds, NEW im, NEW p, NEW n \in Nat
  PROVE  \E w : IsWalk(ds, im, p, n, w)
<1> DEFINE bad == {m \in Nat : ~\E w : IsWalk(ds, im, p, m, w)}
<1>1. ASSUME bad # {}
      PROVE  FALSE
  <2>1. bad \in SUBSET Nat
    OBVIOUS
  <2> HIDE DEF bad
  <2>2. PICK m \in bad : \A k \in bad : m <= k
    BY <1>1, <2>1, LeastNatural
  <2>3. m \in Nat /\ ~\E w : IsWalk(ds, im, p, m, w)
    BY <2>2 DEF bad
  <2>4. m # 0
    <3>1. SUFFICES ASSUME m = 0 PROVE FALSE
      OBVIOUS
    <3>2. PICK w : w = [i \in 0..0 |-> DirectorySector]
      OBVIOUS
    <3>3. \A i \in 0..0 : i = 0
      OBVIOUS
    <3>4. w = [i \in 0..0 |-> IF i = 0 THEN DirectorySector
                              ELSE AsDir(im, Entry(ds, w[i - 1], p[i]))]
      BY <3>2, <3>3
    <3> QED BY <2>3, <3>1, <3>4 DEF IsWalk
  <2>5. m - 1 \in Nat /\ ~(m <= m - 1)
    BY <2>3, <2>4
  <2>6. PICK v : IsWalk(ds, im, p, m - 1, v)
    BY <2>2, <2>5 DEF bad
  <2>7. PICK last : last = AsDir(im, Entry(ds, v[m - 1], p[m]))
    OBVIOUS
  <2>8. PICK w : w = [i \in 0..m |-> IF i = m THEN last ELSE v[i]]
    OBVIOUS
  <2>9. \A i \in 0..m : i = m \/ i \in 0..(m - 1)
    BY <2>3
  <2>10. /\ w[m] = last
         /\ \A i \in 0..(m - 1) : w[i] = v[i]
    <3>1. m \in 0..m /\ \A i \in 0..(m - 1) : i \in 0..m /\ i # m
      BY <2>3
    <3> QED BY <2>8, <3>1
  <2>11. /\ 0 \in 0..(m - 1) /\ v[0] = DirectorySector
         /\ \A i \in 0..(m - 1) : i # 0 =>
              i - 1 \in 0..(m - 1) /\ v[i] = AsDir(im, Entry(ds, v[i - 1], p[i]))
    <3>1. 0 \in 0..(m - 1) /\ \A i \in 0..(m - 1) : i # 0 => i - 1 \in 0..(m - 1)
      BY <2>5
    <3> QED BY <2>6, <3>1 DEF IsWalk
  <2>12. ASSUME NEW i \in 0..m
         PROVE  w[i] = IF i = 0 THEN DirectorySector
                       ELSE AsDir(im, Entry(ds, w[i - 1], p[i]))
    <3>1. CASE i = m
      <4>1. m - 1 \in 0..(m - 1)
        BY <2>5
      <4> QED BY <2>4, <2>7, <2>10, <3>1, <4>1
    <3>2. CASE i # m
      <4>1. i \in 0..(m - 1)
        BY <2>9, <3>2
      <4> QED BY <2>10, <2>11, <4>1
    <3> QED BY <3>1, <3>2
  <2>13. w = [i \in 0..m |-> IF i = 0 THEN DirectorySector
                             ELSE AsDir(im, Entry(ds, w[i - 1], p[i]))]
    BY <2>8, <2>12
  <2> QED BY <2>3, <2>13 DEF IsWalk
<1> QED
  <2> HIDE DEF bad
  <2>1. n \notin bad
    BY <1>1
  <2> QED BY <2>1 DEF bad

\* What a way is, step by step.
LEMMA WalkSteps ==
  ASSUME NEW ds, NEW im, NEW p, NEW n \in Nat, NEW w, IsWalk(ds, im, p, n, w)
  PROVE  /\ w[0] = DirectorySector
         /\ \A i \in 1..n : w[i] = AsDir(im, Entry(ds, w[i - 1], p[i]))
<1>1. 0 \in 0..n /\ \A i \in 1..n : i \in 0..n /\ i # 0
  OBVIOUS
<1> QED BY <1>1 DEF IsWalk

\* The way along the first names does not depend on the others.
LEMMA WalkPrefix ==
  ASSUME NEW ds, NEW im, NEW p, NEW q, NEW n \in Nat, NEW m \in Nat, n <= m,
         NEW w, NEW v, IsWalk(ds, im, p, n, w), IsWalk(ds, im, q, m, v),
         \A i \in 1..n : p[i] = q[i]
  PROVE  w[n] = v[n]
<1> DEFINE bad == {k \in 0..n : w[k] # v[k]}
<1>1. ASSUME bad # {}
      PROVE  FALSE
  <2>1. bad \in SUBSET Nat
    OBVIOUS
  <2> HIDE DEF bad
  <2>2. PICK k \in bad : \A l \in bad : k <= l
    BY <1>1, <2>1, LeastNatural
  <2>3. k \in 0..n /\ w[k] # v[k]
    BY <2>2 DEF bad
  <2>4. k # 0
    BY <2>3, WalkSteps
  <2>5. k - 1 \in 0..n /\ ~(k <= k - 1) /\ k \in 1..n /\ k \in 1..m
    BY <2>3, <2>4
  <2>6. w[k - 1] = v[k - 1]
    BY <2>2, <2>5 DEF bad
  <2>7. /\ w[k] = AsDir(im, Entry(ds, w[k - 1], p[k]))
        /\ v[k] = AsDir(im, Entry(ds, v[k - 1], q[k]))
    BY <2>5, WalkSteps
  <2> QED BY <2>3, <2>5, <2>6, <2>7
<1>2. n \in 0..n
  OBVIOUS
<1>3. n \notin bad
  <2> HIDE DEF bad
  <2> QED BY <1>1
<1> QED BY <1>2, <1>3

\* Directories are found from the root, name by name.
LEMMA DirSteps ==
  ASSUME NEW ds, NEW im
  PROVE  /\ Dir(ds, im, <<>>) = DirectorySector
         /\ \A p \in Paths : Dir(ds, im, p) = AsDir(im, Look(ds, im, p))
<1>1. ASSUME NEW p \in DirPaths
      PROVE  Len(p) \in Nat /\ \E w : IsWalk(ds, im, p, Len(p), w) /\ Dir(ds, im, p) = w[Len(p)]
  <2>1. Len(p) \in Nat
    BY DEF DirPaths
  <2>2. \E w : IsWalk(ds, im, p, Len(p), w)
    BY <2>1, WalkExists
  <2>3. PICK w : w = CHOOSE v : IsWalk(ds, im, p, Len(p), v)
    OBVIOUS
  <2>4. IsWalk(ds, im, p, Len(p), w)
    BY <2>2, <2>3
  <2> QED BY <2>1, <2>3, <2>4 DEF Dir
<1>2. <<>> \in DirPaths /\ Len(<<>>) = 0
  BY DEF DirPaths
<1>3. Dir(ds, im, <<>>) = DirectorySector
  <2>1. PICK w : IsWalk(ds, im, <<>>, 0, w) /\ Dir(ds, im, <<>>) = w[0]
    BY <1>1, <1>2
  <2>2. 0 \in Nat
    OBVIOUS
  <2> QED BY <2>1, <2>2, WalkSteps
<1>4. ASSUME NEW p \in Paths
      PROVE  Dir(ds, im, p) = AsDir(im, Look(ds, im, p))
  <2>1. PICK n \in Nat : /\ Len(p) = n + 1 /\ Len(Parent(p)) = n /\ Parent(p) \in DirPaths
                         /\ \A i \in 1..n : Parent(p)[i] = p[i]
    BY ParentOf, ParentLength
  <2>2. p \in DirPaths
    BY DEF Paths, DirPaths
  <2>3. PICK w : IsWalk(ds, im, p, n + 1, w) /\ Dir(ds, im, p) = w[n + 1]
    BY <1>1, <2>1, <2>2
  <2>4. PICK v : IsWalk(ds, im, Parent(p), n, v) /\ Dir(ds, im, Parent(p)) = v[n]
    BY <1>1, <2>1
  <2>5. v[n] = w[n]
    <3>1. n <= n + 1 /\ n + 1 \in Nat
      OBVIOUS
    <3> QED BY <2>1, <2>3, <2>4, <3>1, WalkPrefix
  <2>6. w[n + 1] = AsDir(im, Entry(ds, w[n], p[n + 1]))
    <3>1. PICK k \in Nat : k = n + 1
      OBVIOUS
    <3>2. k \in 1..k /\ k - 1 = n
      BY <3>1
    <3>3. \A i \in 1..k : w[i] = AsDir(im, Entry(ds, w[i - 1], p[i]))
      <4>1. IsWalk(ds, im, p, k, w)
        BY <2>3, <3>1
      <4> QED BY ONLY <4>1, k \in Nat, WalkSteps
    <3>4. w[k] = AsDir(im, Entry(ds, w[k - 1], p[k]))
      BY <3>2, <3>3
    <3> QED BY <3>1, <3>2, <3>4
  <2> QED BY <2>1, <2>3, <2>4, <2>5, <2>6 DEF Look, FileName
<1> QED BY <1>3, <1>4

\* FindDir is the directory of the parent, and Lookup the entry in it.
LEMMA LookupIs ==
  ASSUME NEW p \in Paths
  PROVE  /\ FindDir(p) = Dir(dirs, image, Parent(p))
         /\ Lookup(p) = Look(dirs, image, p)
         /\ FindDir(p)' = Dir(dirs', image', Parent(p))
         /\ Lookup(p)' = Look(dirs', image', p)
<1>1. PICK n \in Nat : /\ Len(p) = n + 1 /\ Len(p) - 1 = n /\ Len(Parent(p)) = n
                       /\ \A i \in 1..n : Parent(p)[i] = p[i]
  BY ParentLength
<1>2. ASSUME NEW ds, NEW im
      PROVE  (CHOOSE w : IsWalk(ds, im, p, n, w))[n] = Dir(ds, im, Parent(p))
  <2>1. PICK w : w = CHOOSE v : IsWalk(ds, im, p, n, v)
    OBVIOUS
  <2>2. PICK v : v = CHOOSE u : IsWalk(ds, im, Parent(p), n, u)
    OBVIOUS
  <2>3. IsWalk(ds, im, p, n, w) /\ IsWalk(ds, im, Parent(p), n, v)
    BY <2>1, <2>2, WalkExists
  <2>4. v[n] = w[n]
    BY <1>1, <2>3, WalkPrefix
  <2> QED BY <1>1, <2>1, <2>2, <2>4 DEF Dir
<1>3. FindDir(p) = (CHOOSE w : IsWalk(dirs, image, p, n, w))[n]
  BY <1>1 DEF FindDir, IsWalk, AsDir, Entry, DirFind, IsDir
<1>4. FindDir(p)' = (CHOOSE w : IsWalk(dirs', image', p, n, w))[n]
  BY <1>1 DEF FindDir, IsWalk, AsDir, Entry, DirFind, IsDir
<1>5. /\ FindDir(p) = Dir(dirs, image, Parent(p))
      /\ FindDir(p)' = Dir(dirs', image', Parent(p))
  BY <1>2, <1>3, <1>4
<1>6. Lookup(p) = Look(dirs, image, p)
  BY <1>5 DEF Lookup, Look, Entry, DirFind
<1>7. Lookup(p)' = Look(dirs', image', p)
  BY <1>5 DEF Lookup, Look, Entry, DirFind
<1> QED BY <1>5, <1>6, <1>7

---------------------------------------------------------------------------
(* The tree of directories *)

\* Directories that a path leads to have entries, and two paths never lead to
\* the same header, nor to that of the root.
Tree(ds, im) ==
  /\ \A p \in DirPaths : Dir(ds, im, p) # None =>
       Dir(ds, im, p) \in Sectors /\ ds[Dir(ds, im, p)] \in Directories
  /\ \A p, q \in Paths : Look(ds, im, p) # None /\ Look(ds, im, p) = Look(ds, im, q) => p = q
  /\ \A p \in Paths : Look(ds, im, p) # DirectorySector

\* A path is that of the root or of an entry.
LEMMA RootOrPath == \A p \in DirPaths : p = <<>> \/ p \in Paths
BY DEF DirPaths, Paths

\* Lookup gives a sector or None.
LEMMA LookType ==
  ASSUME NEW ds, NEW im, Tree(ds, im), NEW p \in Paths
  PROVE  Look(ds, im, p) \in Sectors \cup {None}
<1>1. Parent(p) \in DirPaths /\ FileName(p) \in Names
  BY ParentOf
<1>2. CASE Dir(ds, im, Parent(p)) = None
  BY <1>2 DEF Look, Entry
<1>3. CASE Dir(ds, im, Parent(p)) # None
  <2>1. ds[Dir(ds, im, Parent(p))] \in Directories
    BY <1>1, <1>3 DEF Tree
  <2> QED BY <1>1, <1>3, <2>1 DEF Look, Entry, Directories
<1> QED BY <1>2, <1>3

\* Two paths never lead to the same directory.
LEMMA DirUnique ==
  ASSUME NEW ds, NEW im, Tree(ds, im), NEW p \in DirPaths, NEW q \in DirPaths,
         Dir(ds, im, p) # None, Dir(ds, im, p) = Dir(ds, im, q)
  PROVE  p = q
<1>1. \A r \in Paths : Dir(ds, im, r) # None =>
        Dir(ds, im, r) = Look(ds, im, r) /\ Dir(ds, im, r) # DirectorySector
  BY DirSteps DEF AsDir, Tree
<1>2. Dir(ds, im, <<>>) = DirectorySector
  BY DirSteps
<1>3. CASE p = <<>> \/ q = <<>>
  BY <1>1, <1>2, <1>3, RootOrPath
<1>4. CASE p \in Paths /\ q \in Paths
  <2>1. Look(ds, im, p) # None /\ Look(ds, im, p) = Look(ds, im, q)
    BY <1>1, <1>4
  <2> QED BY <1>4, <2>1 DEF Tree
<1> QED BY <1>3, <1>4, RootOrPath

\* The entry of path q becomes v, and nothing else changes that a path leads to.
Edited(ds, im, ds2, im2, q, v) ==
  /\ Dir(ds, im, Parent(q)) # None
  /\ \A p \in DirPaths : Dir(ds, im, p) # None /\ p # Parent(q) =>
       ds2[Dir(ds, im, p)] = ds[Dir(ds, im, p)]
  /\ ds2[Dir(ds, im, Parent(q))][FileName(q)] = v
  /\ \A y \in Names : y # FileName(q) =>
       ds2[Dir(ds, im, Parent(q))][y] = ds[Dir(ds, im, Parent(q))][y]
  /\ \A p \in Paths : Look(ds, im, p) # None /\ p # q =>
       AsDir(im2, Look(ds, im, p)) = AsDir(im, Look(ds, im, p))
  /\ AsDir(im2, v) # None => \A y \in Names : ds2[v][y] = None

\* What paths lead to after the change: q to v, what is under it to nothing.
LEMMA EditedPaths ==
  ASSUME NEW ds, NEW im, NEW ds2, NEW im2, NEW q \in Paths, NEW v,
         Tree(ds, im), Edited(ds, im, ds2, im2, q, v)
  PROVE  /\ \A p \in Paths : Look(ds2, im2, p) =
              IF p = q THEN v ELSE IF Under(p, q) THEN None ELSE Look(ds, im, p)
         /\ \A p \in DirPaths : Dir(ds2, im2, p) =
              IF p = q THEN AsDir(im2, v) ELSE IF Under(p, q) THEN None ELSE Dir(ds, im, p)
<1> DEFINE NewLook(p) == IF p = q THEN v ELSE IF Under(p, q) THEN None ELSE Look(ds, im, p)
           NewDir(p) == IF p = q THEN AsDir(im2, v)
                        ELSE IF Under(p, q) THEN None ELSE Dir(ds, im, p)
           good == {p \in DirPaths : Dir(ds2, im2, p) = NewDir(p)}
<1>1. ~Under(<<>>, q) /\ <<>> # q /\ <<>> \in DirPaths
  <2>1. Len(q) \in Nat \ {0} /\ Len(<<>>) = 0
    BY ParentOf
  <2> QED BY <2>1 DEF Under, DirPaths, Paths
<1>2. <<>> \in good
  BY <1>1, DirSteps
<1>3. ASSUME NEW p \in Paths, Dir(ds2, im2, Parent(p)) = NewDir(Parent(p))
      PROVE  Look(ds2, im2, p) = NewLook(p)
  <2>1. Parent(p) \in DirPaths /\ Parent(q) \in DirPaths /\ FileName(p) \in Names
    BY ParentOf
  <2>2. ~Under(Parent(q), q) /\ Parent(q) # q
    <3>1. PICK n \in Nat : Len(q) = n + 1 /\ Len(Parent(q)) = n
      BY ParentLength
    <3> QED BY <3>1 DEF Under
  <2>3. Look(ds2, im2, p) = Entry(ds2, NewDir(Parent(p)), FileName(p))
    BY <1>3 DEF Look
  <2>4. CASE p = q
    <3>1. NewDir(Parent(p)) = Dir(ds, im, Parent(q))
      BY <2>2, <2>4
    <3> QED BY <2>3, <2>4, <3>1 DEF Edited, Entry
  <2>5. CASE p # q /\ Under(p, q)
    <3>1. Under(Parent(p), q)
      BY <2>5, UnderParent
    <3>2. CASE Parent(p) = q
      <4>1. NewDir(Parent(p)) = AsDir(im2, v)
        BY <3>2
      <4>2. AsDir(im2, v) # None => AsDir(im2, v) = v /\ ds2[v][FileName(p)] = None
        BY <2>1 DEF Edited, AsDir
      <4> QED BY <2>3, <2>5, <4>1, <4>2 DEF Entry
    <3>3. CASE Parent(p) # q
      BY <2>3, <2>5, <3>1, <3>3 DEF Entry
    <3> QED BY <3>2, <3>3
  <2>6. CASE ~Under(p, q)
    <3>1. p # q /\ ~Under(Parent(p), q)
      BY <2>6, UnderParent
    <3>2. Parent(p) # q
      <4>1. Under(q, q)
        BY UnderParent
      <4> QED BY <3>1, <4>1
    <3>3. NewDir(Parent(p)) = Dir(ds, im, Parent(p))
      BY <3>1, <3>2
    <3>4. CASE Dir(ds, im, Parent(p)) = None
      BY <2>3, <2>6, <3>1, <3>3, <3>4 DEF Entry, Look
    <3>5. CASE Dir(ds, im, Parent(p)) # None
      <4>1. ds2[Dir(ds, im, Parent(p))][FileName(p)] = ds[Dir(ds, im, Parent(p))][FileName(p)]
        <5>1. CASE Parent(p) = Parent(q)
          <6>1. FileName(p) # FileName(q)
            BY <3>1, <5>1, PathParts
          <6> QED BY <2>1, <5>1, <6>1 DEF Edited
        <5>2. CASE Parent(p) # Parent(q)
          BY <2>1, <3>5, <5>2 DEF Edited
        <5> QED BY <5>1, <5>2
      <4> QED BY <2>3, <2>6, <3>1, <3>3, <3>5, <4>1 DEF Entry, Look
    <3> QED BY <3>4, <3>5
  <2> QED BY <2>4, <2>5, <2>6
<1>4. ASSUME NEW p \in Paths, Parent(p) \in good
      PROVE  p \in good
  <2>1. Look(ds2, im2, p) = NewLook(p)
    BY <1>3, <1>4
  <2>2. Dir(ds2, im2, p) = AsDir(im2, NewLook(p))
    BY <2>1, DirSteps
  <2>3. AsDir(im2, NewLook(p)) = NewDir(p)
    <3>1. Dir(ds, im, p) = AsDir(im, Look(ds, im, p))
      BY DirSteps
    <3>2. AsDir(im, None) = None /\ AsDir(im2, None) = None
      BY DEF AsDir
    <3>3. Look(ds, im, p) # None /\ p # q => AsDir(im2, Look(ds, im, p)) = AsDir(im, Look(ds, im, p))
      BY DEF Edited
    <3> QED BY <3>1, <3>2, <3>3
  <2>4. p \in DirPaths
    BY DEF Paths, DirPaths
  <2> QED BY <2>2, <2>3, <2>4
<1>5. DirPaths \subseteq good
  <2> HIDE DEF good
  <2> QED BY <1>2, <1>4, PathInduction
<1>6. \A p \in DirPaths : Dir(ds2, im2, p) = NewDir(p)
  BY <1>5
<1>7. \A p \in Paths : Look(ds2, im2, p) = NewLook(p)
  BY <1>3, <1>6, ParentOf
<1> QED BY <1>6, <1>7

\* The sectors of the headers that paths lead to.
Reached(ds, im) == {Look(ds, im, p) : p \in Paths} \ {None}

\* The directories are still a tree when an entry is cleared, or given a new
\* header, whose directory is empty if it is one.
LEMMA TreeEdited ==
  ASSUME NEW ds, NEW im, NEW ds2, NEW im2, NEW q \in Paths, NEW v,
         Tree(ds, im), Edited(ds, im, ds2, im2, q, v),
         ds2[Dir(ds, im, Parent(q))] \in Directories,
         v # None => /\ v \in Sectors /\ v # DirectorySector /\ v \notin Reached(ds, im)
                     /\ AsDir(im2, v) # None => ds2[v] \in Directories
  PROVE  Tree(ds2, im2)
<1>1. \A p \in Paths : Look(ds2, im2, p) =
        IF p = q THEN v ELSE IF Under(p, q) THEN None ELSE Look(ds, im, p)
  BY EditedPaths
<1>2. \A p \in DirPaths : Dir(ds2, im2, p) =
        IF p = q THEN AsDir(im2, v) ELSE IF Under(p, q) THEN None ELSE Dir(ds, im, p)
  BY EditedPaths
<1>3. \A p \in Paths : Look(ds, im, p) # v \/ v = None
  BY DEF Reached
<1>4. ASSUME NEW p \in DirPaths, Dir(ds2, im2, p) # None
      PROVE  Dir(ds2, im2, p) \in Sectors /\ ds2[Dir(ds2, im2, p)] \in Directories
  <2>1. CASE p = q
    <3>1. Dir(ds2, im2, p) = AsDir(im2, v) /\ AsDir(im2, v) # None
      BY <1>2, <1>4, <2>1
    <3>2. v # None /\ AsDir(im2, v) = v
      BY <3>1 DEF AsDir
    <3> QED BY <3>1, <3>2
  <2>2. CASE p # q
    <3>1. Dir(ds2, im2, p) = Dir(ds, im, p) /\ Dir(ds, im, p) # None
      BY <1>2, <1>4, <2>2
    <3>2. Dir(ds, im, p) \in Sectors /\ ds[Dir(ds, im, p)] \in Directories
      BY <3>1 DEF Tree
    <3>3. CASE p = Parent(q)
      BY <3>1, <3>2, <3>3
    <3>4. CASE p # Parent(q)
      <4>1. ds2[Dir(ds, im, p)] = ds[Dir(ds, im, p)]
        BY <3>1, <3>4 DEF Edited
      <4> QED BY <3>1, <3>2, <4>1
    <3> QED BY <3>3, <3>4
  <2> QED BY <2>1, <2>2
<1>5. ASSUME NEW p \in Paths, NEW r \in Paths,
             Look(ds2, im2, p) # None, Look(ds2, im2, p) = Look(ds2, im2, r)
      PROVE  p = r
  <2>1. CASE p = q \/ r = q
    BY <1>1, <1>3, <1>5, <2>1
  <2>2. CASE p # q /\ r # q
    <3>1. Look(ds, im, p) # None /\ Look(ds, im, p) = Look(ds, im, r)
      BY <1>1, <1>5, <2>2
    <3> QED BY <3>1 DEF Tree
  <2> QED BY <2>1, <2>2
<1>6. DirectorySector # None
  BY Constants
<1>7. \A p \in Paths : Look(ds2, im2, p) # DirectorySector
  BY <1>1, <1>6 DEF Tree
<1> QED BY <1>4, <1>5, <1>7 DEF Tree

\* Paths lead where they did when the entries stay and the headers stay those
\* of files and of directories.
LEMMA SamePaths ==
  ASSUME NEW ds, NEW im, NEW im2,
         \A p \in Paths : Look(ds, im, p) # None =>
           AsDir(im2, Look(ds, im, p)) = AsDir(im, Look(ds, im, p))
  PROVE  /\ \A p \in Paths : Look(ds, im2, p) = Look(ds, im, p)
         /\ \A p \in DirPaths : Dir(ds, im2, p) = Dir(ds, im, p)
         /\ Reached(ds, im2) = Reached(ds, im)
         /\ Tree(ds, im) => Tree(ds, im2)
<1> DEFINE good == {p \in DirPaths : Dir(ds, im2, p) = Dir(ds, im, p)}
<1>1. <<>> \in good
  BY DirSteps DEF DirPaths
<1>2. ASSUME NEW p \in Paths, Parent(p) \in good
      PROVE  p \in good
  <2>1. Look(ds, im2, p) = Look(ds, im, p)
    BY <1>2 DEF Look
  <2>2. /\ Dir(ds, im2, p) = AsDir(im2, Look(ds, im2, p))
        /\ Dir(ds, im, p) = AsDir(im, Look(ds, im, p))
    BY DirSteps
  <2>3. AsDir(im, None) = None /\ AsDir(im2, None) = None
    BY DEF AsDir
  <2>4. p \in DirPaths
    BY DEF Paths, DirPaths
  <2>5. Dir(ds, im2, p) = Dir(ds, im, p)
    BY <2>1, <2>2, <2>3
  <2> QED BY <2>4, <2>5
<1>3. DirPaths \subseteq good
  <2> HIDE DEF good
  <2> QED BY <1>1, <1>2, PathInduction
<1>4. \A p \in DirPaths : Dir(ds, im2, p) = Dir(ds, im, p)
  BY <1>3
<1>5. \A p \in Paths : Look(ds, im2, p) = Look(ds, im, p)
  BY <1>4, ParentOf DEF Look
<1>6. Reached(ds, im2) = Reached(ds, im)
  BY <1>5 DEF Reached
<1>7. Tree(ds, im) => Tree(ds, im2)
  BY <1>4, <1>5 DEF Tree
<1> QED BY <1>4, <1>5, <1>6, <1>7

---------------------------------------------------------------------------
(* The bitmap *)

Below(S, s) == {r \in S : r < s}

\* In a finite set of naturals there is an element with k below it for every k
\* less than the number of elements.
LEMMA Ranked ==
  ASSUME NEW S \in SUBSET Nat, IsFiniteSet(S), NEW k \in Nat, k < Cardinality(S)
  PROVE  \E s \in S : Cardinality(Below(S, s)) = k
<1> DEFINE bad == {j \in 0..k : ~\E s \in S : Cardinality(Below(S, s)) = j}
<1>1. Cardinality(S) \in Nat
  BY FS_CardinalityType
<1>2. ASSUME bad # {}
      PROVE  FALSE
  <2>1. bad \in SUBSET Nat
    OBVIOUS
  <2> HIDE DEF bad
  <2>2. PICK j \in bad : \A i \in bad : j <= i
    BY <1>2, <2>1, LeastNatural
  <2>3. j \in 0..k /\ ~\E s \in S : Cardinality(Below(S, s)) = j
    BY <2>2 DEF bad
  <2>4. PICK T : /\ T \in SUBSET S
                 /\ IsFiniteSet(T) /\ Cardinality(T) = j
                 /\ \A s \in S, t \in T : s < t => s \in T
    <3>1. CASE j = 0
      <4>1. IsFiniteSet({}) /\ Cardinality({}) = 0
        BY FS_EmptySet
      <4> QED BY <3>1, <4>1
    <3>2. CASE j # 0
      <4>1. j - 1 \in 0..k /\ ~(j <= j - 1)
        BY <2>3, <3>2
      <4>2. PICK t \in S : Cardinality(Below(S, t)) = j - 1
        BY <2>2, <4>1 DEF bad
      <4>3. PICK B : B = Below(S, t)
        OBVIOUS
      <4>4. IsFiniteSet(B) /\ t \notin B /\ B \subseteq S
        <5>1. B \subseteq S /\ t \notin B
          BY <4>3 DEF Below
        <5> QED BY <5>1, FS_Subset
      <4>5. IsFiniteSet(B \cup {t}) /\ Cardinality(B \cup {t}) = j
        <5>1. IsFiniteSet(B \cup {t}) /\ Cardinality(B \cup {t}) = Cardinality(B) + 1
          BY <4>4, FS_AddElement
        <5>2. Cardinality(B) + 1 = j
          BY <2>3, <4>2, <4>3
        <5> QED BY <5>1, <5>2
      <4>6. \A s \in S, u \in B \cup {t} : s < u => s \in B \cup {t}
        BY <4>3 DEF Below
      <4> QED BY <4>4, <4>5, <4>6
    <3> QED BY <3>1, <3>2
  <2>5. S \ T # {}
    <3>1. SUFFICES ASSUME S \ T = {} PROVE FALSE
      OBVIOUS
    <3>2. S = T
      BY <2>4, <3>1
    <3> QED BY <1>1, <2>3, <2>4, <3>2
  <2>6. PICK s \in S \ T : \A r \in S \ T : s <= r
    <3>1. S \ T \in SUBSET Nat
      OBVIOUS
    <3> QED BY <2>5, <3>1, LeastNatural
  <2>7. Below(S, s) = T
    <3>1. \A r \in S : r < s => r \in T
      BY <2>6
    <3>2. \A r \in T : r < s
      BY <2>4, <2>6
    <3> QED BY <2>4, <3>1, <3>2 DEF Below
  <2> QED BY <2>3, <2>4, <2>6, <2>7
<1>3. k \in 0..k
  OBVIOUS
<1>4. k \notin bad
  <2> HIDE DEF bad
  <2> QED BY <1>2
<1> QED BY <1>3, <1>4

\* The clear sectors are finitely many.
LEMMA NumClearType ==
  ASSUME NEW map
  PROVE  IsFiniteSet(Sectors \ map) /\ NumClear(map) \in Nat
<1>1. IsFiniteSet(Sectors) /\ Sectors \ map \in SUBSET Sectors
  BY Constants
<1>2. IsFiniteSet(Sectors \ map)
  BY <1>1, FS_Subset
<1> QED BY <1>2, FS_CardinalityType DEF NumClear

\* BitMap::Find gives clear sectors as long as there are any.
LEMMA FindClear ==
  ASSUME NEW map, NEW n \in Nat, n <= NumClear(map)
  PROVE  Find(map, n) \in Seq(Sectors \ map) /\ Len(Find(map, n)) = n
<1>1. PICK C \in SUBSET Nat : C = Sectors \ map /\ IsFiniteSet(C)
  <2>1. Sectors \ map \in SUBSET Nat
    BY Constants
  <2> QED BY <2>1, NumClearType
<1>2. n <= Cardinality(C) /\ Cardinality(C) \in Nat
  BY <1>1, FS_CardinalityType DEF NumClear
<1>3. ASSUME NEW i \in 1..n
      PROVE  (CHOOSE s \in C : Cardinality(Below(C, s)) = i - 1) \in C
  <2>1. i - 1 \in Nat /\ i - 1 < Cardinality(C)
    BY <1>2
  <2>2. \E s \in C : Cardinality(Below(C, s)) = i - 1
    BY <1>1, <2>1, Ranked
  <2> QED BY <2>2
<1>4. Find(map, n) = [i \in 1..n |-> CHOOSE s \in C : Cardinality(Below(C, s)) = i - 1]
  BY <1>1 DEF Find, Below
<1>5. Find(map, n) \in [1..n -> C]
  BY <1>3, <1>4
<1> QED BY <1>1, <1>5

---------------------------------------------------------------------------
(* Headers *)

\* A size whose sectors the first header sector has room for.
FitsFirst(size) == DataSectorsFor(size) <= DatasInFirstSector

\* A header with all data sectors assigned and room for their numbers; that of a
\* file, which may grow, has it in the first sector.
Whole(hdr) ==
  /\ hdr \in Headers /\ hdr.dataSectors \in Seq(Sectors)
  /\ Len(hdr.dataSectors) <= DatasInFirstSector + Len(hdr.headerSectors) * DatasInSector
  /\ ~hdr.isdir => hdr.headerSectors = <<>>

\* The numbers of sectors are natural numbers.
LEMMA SectorCounts ==
  /\ \A size \in Nat : DataSectorsFor(size) \in Nat
  /\ \A n \in Nat : HeaderSectorsFor(n) \in Nat
  /\ \A n \in Nat : n <= DatasInFirstSector => HeaderSectorsFor(n) = 0
  /\ \A x \in Nat : x \div SectorSize \in Nat
<1>1. \A x, s \in Nat : s > 0 => x \div s \in Nat
  OBVIOUS
<1>2. ASSUME NEW x \in Int, NEW s \in Nat, s > 0
      PROVE  divRoundUp(x, s) \in Nat
  <2>1. CASE x > 0
    <3>1. x + s - 1 \in Nat
      BY <1>2, <2>1
    <3>2. (x + s - 1) \div s \in Nat
      BY <1>1, <1>2, <3>1
    <3> QED BY <2>1, <3>2 DEF divRoundUp
  <2>2. CASE ~(x > 0)
    BY <2>2 DEF divRoundUp
  <2> QED BY <2>1, <2>2
<1>3. \A size \in Nat : DataSectorsFor(size) \in Nat
  BY <1>2, Constants DEF DataSectorsFor
<1>4. ASSUME NEW n \in Nat
      PROVE  /\ HeaderSectorsFor(n) \in Nat
             /\ n <= DatasInFirstSector => HeaderSectorsFor(n) = 0
  <2>1. n - DatasInFirstSector \in Int
    BY Constants
  <2>2. HeaderSectorsFor(n) \in Nat
    BY <1>2, <2>1, Constants DEF HeaderSectorsFor
  <2>3. n <= DatasInFirstSector => ~(n - DatasInFirstSector > 0)
    BY Constants
  <2> QED BY <2>2, <2>3 DEF HeaderSectorsFor, divRoundUp
<1> QED BY <1>1, <1>3, <1>4, Constants

\* The header sectors of FileHeader::Allocate have room for the sector numbers.
LEMMA RoomForAll ==
  ASSUME NEW n \in Nat
  PROVE  n <= DatasInFirstSector + HeaderSectorsFor(n) * DatasInSector
<1>1. PICK f \in Nat : f = DatasInFirstSector
  BY Constants
<1>2. PICK s \in Nat \ {0} : s = DatasInSector
  BY Constants
<1>3. PICK x \in Int : x = n - f
  OBVIOUS
<1>4. HeaderSectorsFor(n) = divRoundUp(x, s)
  BY <1>1, <1>2, <1>3 DEF HeaderSectorsFor
<1>5. CASE x > 0
  <2>1. PICK a \in Nat : a = x + s - 1
    BY <1>5
  <2>2. PICK q \in Nat : q = a \div s
    OBVIOUS
  <2>3. a = s * q + (a % s) /\ a % s \in 0..(s - 1)
    <3>1. \A b, c \in Int : c > 0 => b = c * (b \div c) + (b % c)
      OBVIOUS
    <3> QED BY <2>2, <3>1
  <2>4. divRoundUp(x, s) = q
    BY <1>5, <2>1, <2>2 DEF divRoundUp
  <2>5. PICK p \in Nat : p = s * q /\ p = q * s
    OBVIOUS
  <2>6. x <= p
    BY <2>1, <2>3, <2>5
  <2> QED BY <1>1, <1>2, <1>3, <1>4, <2>4, <2>5, <2>6
<1>6. CASE ~(x > 0)
  <2>1. HeaderSectorsFor(n) = 0 /\ 0 * s = 0
    BY <1>4, <1>6 DEF divRoundUp
  <2> QED BY <1>1, <1>2, <1>3, <1>6, <2>1
<1> QED BY <1>5, <1>6

\* A part of a sequence of sectors.
LEMMA PartOf ==
  ASSUME NEW S, NEW s \in Seq(S), NEW a \in Nat \ {0}, NEW b \in Nat, b <= Len(s)
  PROVE  /\ SubSeq(s, a, b) \in Seq(S)
         /\ Len(SubSeq(s, a, b)) = IF a <= b THEN b - a + 1 ELSE 0
         /\ \A i \in 1..Len(SubSeq(s, a, b)) : SubSeq(s, a, b)[i] = s[a + i - 1]
<1>1. \A i \in a..b : i \in 1..Len(s)
  OBVIOUS
<1>2. \A i \in a..b : s[i] \in S
  BY <1>1
<1>3. a \in Int /\ b \in Int
  OBVIOUS
<1>4. /\ SubSeq(s, a, b) \in Seq(S)
      /\ Len(SubSeq(s, a, b)) = IF a <= b THEN b - a + 1 ELSE 0
      /\ \A i \in 1..(b - a + 1) : SubSeq(s, a, b)[i] = s[a + i - 1]
  BY <1>2, <1>3, SubSeqProperties
<1>5. \A i \in 1..(IF a <= b THEN b - a + 1 ELSE 0) : i \in 1..(b - a + 1)
  OBVIOUS
<1> QED BY <1>4, <1>5

\* The elements of a sequence are in its set.
LEMMA SectorsOfIn ==
  ASSUME NEW hdr, NEW S, hdr.dataSectors \in Seq(S), hdr.headerSectors \in Seq(S)
  PROVE  SectorsOf(hdr) \subseteq S
BY DEF SectorsOf

\* FileHeader::Allocate takes clear sectors.
LEMMA Allocated ==
  ASSUME NEW map, NEW dir \in BOOLEAN, NEW size \in Nat, CanAllocate(map, size)
  PROVE  /\ Allocate(map, dir, size) \in Headers
         /\ Allocate(map, dir, size).isdir = dir
         /\ SectorsOf(Allocate(map, dir, size)) \subseteq Sectors \ map
         /\ dir \/ FitsFirst(size) => Whole(Allocate(map, dir, size))
<1>1. PICK n \in Nat : n = DataSectorsFor(size)
  BY SectorCounts
<1>2. PICK m \in Nat : m = HeaderSectorsFor(n) /\ (n <= DatasInFirstSector => m = 0)
  BY SectorCounts
<1>3. PICK found : found = Find(map, m + n)
  OBVIOUS
<1>4. found \in Seq(Sectors \ map) /\ Len(found) = m + n
  <2>1. m + n \in Nat /\ m + n <= NumClear(map)
    <3>1. NumClear(map) >= n + m /\ m + n = n + m
      BY <1>1, <1>2 DEF CanAllocate
    <3> QED BY <3>1
  <2> QED BY <1>3, <2>1, FindClear
<1>5. PICK hs : hs = SubSeq(found, 1, m)
  OBVIOUS
<1>6. PICK data : data = SubSeq(found, m + 1, m + n)
  OBVIOUS
<1>7. hs \in Seq(Sectors \ map) /\ Len(hs) = m
  <2>1. 1 \in Nat \ {0} /\ m <= Len(found)
    BY <1>4
  <2>2. Len(hs) = IF 1 <= m THEN m - 1 + 1 ELSE 0
    BY <1>4, <1>5, <2>1, PartOf
  <2>3. hs \in Seq(Sectors \ map)
    BY <1>4, <1>5, <2>1, PartOf
  <2> QED BY <2>2, <2>3
<1>8. data \in Seq(Sectors \ map) /\ Len(data) = n
  <2>1. PICK a \in Nat \ {0} : a = m + 1
    OBVIOUS
  <2>2. PICK b \in Nat : b = m + n
    OBVIOUS
  <2>3. data = SubSeq(found, a, b) /\ b <= Len(found)
    BY <1>4, <1>6, <2>1, <2>2
  <2>4. data \in Seq(Sectors \ map) /\ Len(data) = IF a <= b THEN b - a + 1 ELSE 0
    BY ONLY <1>4, <2>3, PartOf, a \in Nat \ {0}, b \in Nat
  <2> QED BY <2>1, <2>2, <2>4
<1>9. PICK h : h = [isdir |-> dir, numBytes |-> size, headerSectors |-> hs, dataSectors |-> data]
  OBVIOUS
<1>10. Allocate(map, dir, size) = h
  BY <1>1, <1>2, <1>3, <1>5, <1>6, <1>9 DEF Allocate
<1>11. h.isdir = dir /\ h.headerSectors = hs /\ h.dataSectors = data
  BY <1>9
<1>12. hs \in Seq(Sectors) /\ data \in Seq(Sectors)
  <2>1. Sectors \ map \subseteq Sectors
    OBVIOUS
  <2> QED BY <1>7, <1>8, <2>1
<1>13. h \in Headers
  <2>1. data \in Seq(Sectors \cup {Uninit})
    BY <1>12
  <2> QED BY <1>9, <1>12, <2>1 DEF Headers
<1>14. SectorsOf(h) \subseteq Sectors \ map
  BY <1>7, <1>8, <1>11, SectorsOfIn
<1>15. dir \/ FitsFirst(size) => Whole(h)
  <2>1. SUFFICES ASSUME dir \/ n <= DatasInFirstSector PROVE Whole(h)
    BY <1>1 DEF FitsFirst
  <2>2. ~dir => hs = <<>>
    BY <1>2, <1>7, <2>1
  <2>3. Len(data) <= DatasInFirstSector + Len(hs) * DatasInSector
    BY <1>2, <1>7, <1>8, RoomForAll
  <2> QED BY <1>11, <1>12, <1>13, <2>2, <2>3 DEF Whole
<1> QED BY <1>10, <1>11, <1>13, <1>14, <1>15

\* What FileHeader::WriteBack stores has the type of a header on disk.
LEMMA Written ==
  ASSUME NEW hdr \in Headers
  PROVE  WriteBack(hdr) \in Images /\ WriteBack(hdr).isdir = hdr.isdir /\ WriteBack(hdr) # None
<1>1. /\ hdr.isdir \in BOOLEAN /\ hdr.numBytes \in Nat /\ hdr.headerSectors \in Seq(Sectors)
      /\ hdr.dataSectors \in Seq(Sectors \cup {Uninit})
  BY DEF Headers
<1>2. PICK n \in Nat : n = Len(hdr.dataSectors)
  BY <1>1
<1>3. PICK room \in Nat : room = DatasInFirstSector + Len(hdr.headerSectors) * DatasInSector
  <2>1. Len(hdr.headerSectors) \in Nat /\ DatasInFirstSector \in Nat /\ DatasInSector \in Nat
    BY <1>1, Constants
  <2>2. \A a, b, c \in Nat : a + b * c \in Nat
    OBVIOUS
  <2> QED BY <2>1, <2>2
<1>4. PICK k \in Nat : k = (IF n < room THEN n ELSE room) /\ k <= n
  OBVIOUS
<1>5. PICK stored : stored = SubSeq(hdr.dataSectors, 1, k)
  OBVIOUS
<1>6. stored \in Seq(Sectors \cup {Uninit})
  <2>1. 1 \in Nat \ {0} /\ k <= Len(hdr.dataSectors)
    BY <1>2, <1>4
  <2> QED BY <1>1, <1>5, <2>1, PartOf
<1>7. PICK img : img = [isdir |-> hdr.isdir, numBytes |-> hdr.numBytes, numSectors |-> n,
                        headerSectors |-> hdr.headerSectors, stored |-> stored]
  OBVIOUS
<1>8. WriteBack(hdr) = img
  BY <1>2, <1>3, <1>4, <1>5, <1>7 DEF WriteBack
<1>9. img \in Images /\ img.isdir = hdr.isdir
  BY <1>1, <1>6, <1>7 DEF Images
<1> QED BY <1>8, <1>9, NoneAssumption

\* What FileHeader::FetchFrom reads has the type of a header in memory.
LEMMA Fetched ==
  ASSUME NEW img \in Images
  PROVE  FetchFrom(img) \in Headers /\ FetchFrom(img).isdir = img.isdir
<1>1. /\ img.isdir \in BOOLEAN /\ img.numBytes \in Nat /\ img.numSectors \in Nat
      /\ img.headerSectors \in Seq(Sectors) /\ img.stored \in Seq(Sectors \cup {Uninit})
  BY DEF Images
<1>2. PICK data : data = [i \in 1..img.numSectors |->
                            IF i <= Len(img.stored) THEN img.stored[i] ELSE Uninit]
  OBVIOUS
<1>3. \A i \in 1..img.numSectors : i <= Len(img.stored) => img.stored[i] \in Sectors \cup {Uninit}
  <2>1. \A i \in 1..img.numSectors : i <= Len(img.stored) => i \in 1..Len(img.stored)
    BY <1>1
  <2> QED BY <1>1, <2>1
<1>4. data \in [1..img.numSectors -> Sectors \cup {Uninit}]
  BY <1>2, <1>3
<1>5. data \in Seq(Sectors \cup {Uninit})
  BY <1>1, <1>4
<1>6. FetchFrom(img) = [isdir |-> img.isdir, numBytes |-> img.numBytes,
                        headerSectors |-> img.headerSectors, dataSectors |-> data]
  BY <1>2 DEF FetchFrom
<1> QED BY <1>1, <1>5, <1>6 DEF Headers

\* A header that fits in its sectors is read back as it was written.
LEMMA ReadBack ==
  ASSUME NEW hdr, Whole(hdr)
  PROVE  FetchFrom(WriteBack(hdr)) = hdr
<1>1. /\ hdr \in Headers /\ hdr.dataSectors \in Seq(Sectors)
      /\ Len(hdr.dataSectors) <= DatasInFirstSector + Len(hdr.headerSectors) * DatasInSector
  BY DEF Whole
<1>2. PICK data \in Seq(Sectors) : data = hdr.dataSectors
  BY <1>1
<1>3. PICK n \in Nat : n = Len(data)
  OBVIOUS
<1>4. PICK room \in Nat : room = DatasInFirstSector + Len(hdr.headerSectors) * DatasInSector
  <2>1. Len(hdr.headerSectors) \in Nat /\ DatasInFirstSector \in Nat /\ DatasInSector \in Nat
    BY <1>1, Constants DEF Headers
  <2>2. \A a, b, c \in Nat : a + b * c \in Nat
    OBVIOUS
  <2> QED BY <2>1, <2>2
<1>5. (IF n < room THEN n ELSE room) = n
  BY <1>1, <1>2, <1>3, <1>4
<1>6. SubSeq(data, 1, n) = data
  <2>1. PICK part : part = SubSeq(data, 1, n)
    OBVIOUS
  <2>2. 1 \in Nat \ {0} /\ n <= Len(data)
    BY <1>3
  <2>3. /\ part \in Seq(Sectors) /\ Len(part) = (IF 1 <= n THEN n - 1 + 1 ELSE 0)
        /\ \A i \in 1..Len(part) : part[i] = data[1 + i - 1]
    BY <2>1, <2>2, PartOf
  <2>4. Len(part) = n /\ \A i \in 1..n : 1 + i - 1 = i
    BY <2>3
  <2>5. Len(part) = Len(data) /\ \A i \in 1..Len(part) : part[i] = data[i]
    BY <1>3, <2>3, <2>4
  <2> QED BY <2>1, <2>3, <2>5, SeqEqual
<1>7. PICK img : img = [isdir |-> hdr.isdir, numBytes |-> hdr.numBytes, numSectors |-> n,
                        headerSectors |-> hdr.headerSectors, stored |-> data]
  OBVIOUS
<1>8. WriteBack(hdr) = img
  BY <1>2, <1>3, <1>4, <1>5, <1>6, <1>7 DEF WriteBack
<1>9. /\ img.isdir = hdr.isdir /\ img.numBytes = hdr.numBytes /\ img.numSectors = n
      /\ img.headerSectors = hdr.headerSectors /\ img.stored = data
  BY <1>7
<1>10. [i \in 1..n |-> IF i <= Len(data) THEN data[i] ELSE Uninit] = data
  <2>1. PICK d : d = [i \in 1..n |-> IF i <= Len(data) THEN data[i] ELSE Uninit]
    OBVIOUS
  <2>2. \A i \in 1..n : i <= Len(data) /\ d[i] = data[i]
    BY <1>3, <2>1
  <2>3. d \in Seq(Sectors) /\ Len(d) = n
    <3>1. d = [i \in 1..n |-> data[i]] /\ \A i \in 1..n : data[i] \in Sectors
      BY <1>3, <2>1, <2>2
    <3> QED BY <3>1
  <2>4. Len(d) = Len(data) /\ \A i \in 1..Len(d) : d[i] = data[i]
    BY <1>3, <2>2, <2>3
  <2> QED BY <2>1, <2>3, <2>4, SeqEqual
<1>11. FetchFrom(img) = [isdir |-> hdr.isdir, numBytes |-> hdr.numBytes,
                         headerSectors |-> hdr.headerSectors, dataSectors |-> hdr.dataSectors]
  BY <1>2, <1>9, <1>10 DEF FetchFrom
<1>12. hdr = [isdir |-> hdr.isdir, numBytes |-> hdr.numBytes,
              headerSectors |-> hdr.headerSectors, dataSectors |-> hdr.dataSectors]
  BY <1>1 DEF Headers
<1> QED BY <1>8, <1>11, <1>12

\* The length of a file is no part of where it lies.
LEMMA Resized ==
  ASSUME NEW hdr, Whole(hdr), NEW size \in Nat
  PROVE  LET new == [hdr EXCEPT !.numBytes = size] IN
         /\ Whole(new) /\ new.isdir = hdr.isdir
         /\ SectorsOf(new) = SectorsOf(hdr)
<1>1. hdr \in Headers
  BY DEF Whole
<1>2. PICK new : new = [hdr EXCEPT !.numBytes = size]
  OBVIOUS
<1>3. /\ new \in Headers /\ new.isdir = hdr.isdir
      /\ new.dataSectors = hdr.dataSectors /\ new.headerSectors = hdr.headerSectors
  BY <1>1, <1>2 DEF Headers
<1>4. Whole(new) /\ SectorsOf(new) = SectorsOf(hdr)
  BY <1>3 DEF Whole, SectorsOf
<1> QED BY <1>2, <1>3, <1>4

\* The header of a file is in its first sector.
LEMMA OneSector ==
  ASSUME NEW hdr, Whole(hdr), ~hdr.isdir
  PROVE  hdr.headerSectors = <<>> /\ Len(hdr.dataSectors) <= DatasInFirstSector
<1>1. hdr.headerSectors = <<>>
  BY DEF Whole
<1>2. Len(hdr.headerSectors) = 0 /\ 0 * DatasInSector = 0
  BY <1>1, Constants
<1>3. Len(hdr.dataSectors) <= DatasInFirstSector + 0
  BY <1>2 DEF Whole
<1> QED BY <1>1, <1>3, Constants

\* FileHeader::reAllocate keeps the sectors and adds clear ones.
LEMMA Grown ==
  ASSUME NEW map, NEW hdr, Whole(hdr), ~hdr.isdir, NEW size \in Nat, FitsFirst(size),
         CanReAllocate(map, hdr, size)
  PROVE  LET new == reAllocate(map, hdr, size) IN
         /\ Whole(new) /\ new.isdir = hdr.isdir
         /\ SectorsOf(hdr) \subseteq SectorsOf(new)
         /\ SectorsOf(new) \subseteq SectorsOf(hdr) \cup (Sectors \ map)
<1>1. /\ hdr \in Headers /\ hdr.headerSectors = <<>> /\ hdr.dataSectors \in Seq(Sectors)
      /\ Len(hdr.dataSectors) <= DatasInFirstSector
  BY OneSector DEF Whole
<1>2. PICK data \in Seq(Sectors) : data = hdr.dataSectors
  BY <1>1
<1>3. PICK k \in Nat : k = Len(data) /\ k <= DatasInFirstSector
  BY <1>1, <1>2
<1>4. PICK d \in Nat : d = DataSectorsFor(size) /\ d <= DatasInFirstSector
  BY SectorCounts DEF FitsFirst
<1>5. PICK n \in Int : n = NewSectors(hdr, size) /\ n = d - k
  BY <1>2, <1>3, <1>4 DEF NewSectors
<1>6. NewHeaderSectors(hdr, size) = 0
  <2>1. HeaderSectorsFor(k) = 0
    BY <1>3, SectorCounts
  <2>2. Len(hdr.dataSectors) = k /\ Len(hdr.headerSectors) = 0
    BY <1>1, <1>2, <1>3
  <2>3. NewHeaderSectors(hdr, size) = HeaderSectorsFor(k) - 0
    BY <2>2 DEF NewHeaderSectors
  <2> QED BY <2>1, <2>3
<1>7. PICK found : found = Find(map, n)
  OBVIOUS
<1>8. PICK more : more = SubSeq(found, 1, n)
  OBVIOUS
<1>9. more \in Seq(Sectors \ map) /\ Len(more) = IF n > 0 THEN n ELSE 0
  <2>1. CASE n > 0
    <3>1. n \in Nat /\ n <= NumClear(map)
      <4>1. NumClear(map) >= NewSectors(hdr, size) + NewHeaderSectors(hdr, size)
        BY DEF CanReAllocate
      <4>2. NumClear(map) \in Nat
        BY NumClearType
      <4> QED BY <1>5, <1>6, <2>1, <4>1, <4>2
    <3>2. found \in Seq(Sectors \ map) /\ Len(found) = n
      BY <1>7, <3>1, FindClear
    <3>3. 1 \in Nat \ {0} /\ n <= Len(found)
      BY <3>1, <3>2
    <3>4. more \in Seq(Sectors \ map) /\ Len(more) = IF 1 <= n THEN n - 1 + 1 ELSE 0
      BY <1>8, <3>1, <3>2, <3>3, PartOf
    <3> QED BY <2>1, <3>4
  <2>2. CASE ~(n > 0)
    <3>1. /\ SubSeq(found, 1, n) \in Seq(Sectors \ map)
          /\ Len(SubSeq(found, 1, n)) = IF 1 <= n THEN n - 1 + 1 ELSE 0
      <4>1. 1 \in Int /\ \A i \in 1..n : found[i] \in Sectors \ map
        BY <2>2
      <4> QED BY <4>1, SubSeqProperties
    <3> QED BY <1>8, <2>2, <3>1
  <2> QED BY <2>1, <2>2
<1>10. SubSeq(found, 1, 0) = <<>>
  <2>1. 1 \in Int /\ 0 \in Int /\ \A i \in 1..0 : found[i] \in Sectors
    OBVIOUS
  <2>2. /\ SubSeq(found, 1, 0) \in Seq(Sectors)
        /\ Len(SubSeq(found, 1, 0)) = IF 1 <= 0 THEN 0 - 1 + 1 ELSE 0
    BY <2>1, SubSeqProperties
  <2> QED BY <2>2, EmptySeq
<1>11. more \in Seq(Sectors)
  <2>1. Sectors \ map \subseteq Sectors
    OBVIOUS
  <2> QED BY <1>9, <2>1
<1>12. PICK all : all = data \o more
  OBVIOUS
<1>13. /\ all \in Seq(Sectors) /\ Len(all) = Len(data) + Len(more)
       /\ \A i \in 1..Len(all) : all[i] = IF i <= Len(data) THEN data[i] ELSE more[i - Len(data)]
  BY <1>11, <1>12, ConcatProperties
<1>14. PICK new : new = [hdr EXCEPT !.numBytes = size, !.headerSectors = <<>>, !.dataSectors = all]
  OBVIOUS
<1>15. reAllocate(map, hdr, size) = new
  <2>1. 0 + n = n /\ 0 + 1 = 1
    OBVIOUS
  <2>2. hdr.headerSectors \o SubSeq(found, 1, 0) = <<>>
    BY <1>1, <1>10
  <2>3. Find(map, 0 + n) = found /\ SubSeq(found, 0 + 1, 0 + n) = more
    BY <1>7, <1>8, <2>1
  <2> QED BY <1>2, <1>5, <1>6, <1>12, <1>14, <2>2, <2>3 DEF reAllocate
<1>16. /\ new \in Headers /\ new.isdir = hdr.isdir
       /\ new.headerSectors = <<>> /\ new.dataSectors = all
  <2>1. all \in Seq(Sectors \cup {Uninit}) /\ <<>> \in Seq(Sectors)
    BY <1>13
  <2> QED BY <1>1, <1>14, <2>1 DEF Headers
<1>17. Whole(new)
  <2>1. Len(all) <= DatasInFirstSector
    BY <1>3, <1>4, <1>5, <1>9, <1>13, Constants
  <2>2. Len(new.headerSectors) = 0 /\ 0 * DatasInSector = 0
    BY <1>16, Constants
  <2>3. Len(new.dataSectors) <= DatasInFirstSector + Len(new.headerSectors) * DatasInSector
    BY <1>16, <2>1, <2>2, Constants
  <2> QED BY <1>13, <1>16, <2>3 DEF Whole
<1>18. SectorsOf(new) = {all[i] : i \in 1..Len(all)} /\ SectorsOf(hdr) = {data[i] : i \in 1..Len(data)}
  BY <1>1, <1>2, <1>16 DEF SectorsOf
<1>19. PICK l \in Nat : l = Len(more)
  BY <1>9, <1>11
<1>20. ASSUME NEW i \in 1..Len(all)
       PROVE  all[i] \in SectorsOf(hdr) \cup (Sectors \ map)
  <2>1. i \in Nat /\ i >= 1 /\ i <= k + l /\ all[i] = IF i <= k THEN data[i] ELSE more[i - k]
    BY <1>3, <1>13, <1>19
  <2>2. CASE i <= k
    BY <1>3, <1>18, <2>1, <2>2
  <2>3. CASE ~(i <= k)
    <3>1. i - k \in 1..l
      BY <2>1, <2>3
    <3> QED BY <1>9, <1>19, <2>1, <2>3, <3>1
  <2> QED BY <2>2, <2>3
<1>21. ASSUME NEW i \in 1..Len(data)
       PROVE  data[i] \in SectorsOf(new)
  <2>1. i \in 1..Len(all) /\ all[i] = data[i]
    BY <1>3, <1>13, <1>19
  <2> QED BY <1>18, <2>1
<1> QED BY <1>15, <1>16, <1>17, <1>18, <1>20, <1>21

---------------------------------------------------------------------------
(* Owners of sectors *)

\* The sectors of the copies in C are marked in map and not reserved, and copies of
\* different files have no sector in common.
Own(C, map) ==
  /\ Reserved \subseteq map
  /\ \A c \in C : /\ Whole(c.hdr) /\ c.sector \notin SectorsOf(c.hdr)
                  /\ Owned(c) \subseteq map \ Reserved
  /\ \A c, e \in C : c.sector # e.sector => Owned(c) \cap Owned(e) = {}

\* Fewer copies.
LEMMA OwnFewer ==
  ASSUME NEW C, NEW map, Own(C, map), NEW D, D \subseteq C
  PROVE  Own(D, map)
BY DEF Own

\* The sectors of a file are freed with its last copy.
LEMMA OwnFreed ==
  ASSUME NEW C, NEW map, Own(C, map), NEW c \in C,
         NEW D, D \subseteq C, \A e \in D : e.sector # c.sector
  PROVE  Own(D, map \ Owned(c)) /\ Owned(c) \subseteq map
<1>1. Owned(c) \subseteq map \ Reserved
  BY DEF Own
<1>2. Reserved \subseteq map \ Owned(c)
  BY <1>1 DEF Own
<1>3. ASSUME NEW e \in D
      PROVE  /\ Whole(e.hdr) /\ e.sector \notin SectorsOf(e.hdr)
             /\ Owned(e) \subseteq (map \ Owned(c)) \ Reserved
  <2>1. e \in C /\ e.sector # c.sector
    OBVIOUS
  <2>2. Owned(e) \cap Owned(c) = {} /\ Owned(e) \subseteq map \ Reserved
    BY <2>1 DEF Own
  <2> QED BY <2>1, <2>2 DEF Own
<1>4. \A a, e \in D : a.sector # e.sector => Owned(a) \cap Owned(e) = {}
  BY DEF Own
<1>5. Owned(c) \subseteq map
  BY <1>1
<1> QED BY <1>2, <1>3, <1>4, <1>5 DEF Own

\* A copy takes only clear sectors and those of an older copy.
LEMMA OwnAdded ==
  ASSUME NEW C, NEW map, Own(C, map), NEW c,
         Whole(c.hdr), c.sector \notin SectorsOf(c.hdr),
         \A x \in Owned(c) : \/ x \in Sectors \ map
                             \/ \E o \in C : o.sector = c.sector /\ x \in Owned(o),
         NEW D, D \subseteq C \cup {c}
  PROVE  Own(D, map \cup Owned(c))
<1>1. Reserved \subseteq map \cup Owned(c)
  BY DEF Own
<1>2. \A e \in C : /\ Whole(e.hdr) /\ e.sector \notin SectorsOf(e.hdr)
                   /\ Owned(e) \subseteq map \ Reserved
  BY DEF Own
<1>3. Owned(c) \subseteq (map \cup Owned(c)) \ Reserved
  <2>1. SUFFICES ASSUME NEW x \in Owned(c) PROVE x \notin Reserved
    OBVIOUS
  <2>2. CASE x \in Sectors \ map
    BY <2>2 DEF Own
  <2>3. CASE \E o \in C : o.sector = c.sector /\ x \in Owned(o)
    BY <1>2, <2>3
  <2> QED BY <2>2, <2>3
<1>4. ASSUME NEW e \in C, e.sector # c.sector
      PROVE  Owned(e) \cap Owned(c) = {}
  <2>1. SUFFICES ASSUME NEW x \in Owned(c) PROVE x \notin Owned(e)
    OBVIOUS
  <2>2. CASE x \in Sectors \ map
    BY <1>2, <2>2
  <2>3. CASE \E o \in C : o.sector = c.sector /\ x \in Owned(o)
    <3>1. PICK o \in C : o.sector = c.sector /\ x \in Owned(o)
      BY <2>3
    <3>2. Owned(o) \cap Owned(e) = {}
      BY <1>4, <3>1 DEF Own
    <3> QED BY <3>1, <3>2
  <2> QED BY <2>2, <2>3
<1>5. \A e \in D : /\ Whole(e.hdr) /\ e.sector \notin SectorsOf(e.hdr)
                   /\ Owned(e) \subseteq (map \cup Owned(c)) \ Reserved
  BY <1>2, <1>3
<1>6. ASSUME NEW a \in D, NEW e \in D, a.sector # e.sector
      PROVE  Owned(a) \cap Owned(e) = {}
  <2>1. CASE a \in C /\ e \in C
    BY <1>6, <2>1 DEF Own
  <2>2. CASE a = c /\ e \in C
    BY <1>4, <1>6, <2>2
  <2>3. CASE a \in C /\ e = c
    BY <1>4, <1>6, <2>3
  <2> QED BY <1>6, <2>1, <2>2, <2>3
<1> QED BY <1>1, <1>5, <1>6 DEF Own

---------------------------------------------------------------------------
(* The inductive invariant *)

\* A file is always named by the same string (see the run remove_alias), and the
\* first header sector has room for the sector numbers of a file (see header_growth).
SpelledOnce == \A a, b \in Spellings : PathOf[a] = PathOf[b] => a = b
HeadersFit == \A size \in 0..MaxFileSize : FitsFirst(size)
Limits == SpelledOnce /\ HeadersFit

Used(tab) == {i \in Slots : tab[i] # None}
Opened(fs) == {h \in Handles : fs[h] # None}

\* The sectors of the headers in use: a path leads to them, or the table has them.
Held(ds, im, tab) == Reached(ds, im) \cup {tab[i].sector : i \in Used(tab)}

\* The copies of headers: those on disk, in the table and in open files.
DiskCopy(im, s) == [sector |-> s, hdr |-> FetchFrom(im[s])]
EntryCopy(e) == [sector |-> e.sector, hdr |-> e.file]
FileCopy(f) == [sector |-> f.fSector, hdr |-> f.hdr]

AllCopies(ds, im, tab, fs) ==
  {DiskCopy(im, s) : s \in Held(ds, im, tab)} \cup
  {EntryCopy(tab[i]) : i \in Used(tab)} \cup
  {FileCopy(fs[h]) : h \in Opened(fs)}

\* Headers in use are on disk, and only files are open.
Imaged(ds, im, tab, fs) ==
  /\ \A s \in Held(ds, im, tab) : im[s] # None
  /\ \A i \in Used(tab) : ~im[tab[i].sector].isdir
  /\ \A h \in Opened(fs) : ~fs[h].hdr.isdir

\* A removed file is not reached; another one in the table is reached under its
\* own name or, when the directory it is in was cut off, not at all.
Named(ds, im, tab) ==
  /\ \A i \in Used(tab) : tab[i].ToBeDeleted => tab[i].sector \notin Reached(ds, im)
  /\ \A i \in Used(tab) : \/ tab[i].sector \notin Reached(ds, im)
                          \/ Look(ds, im, PathOf[tab[i].name]) = tab[i].sector
  /\ \A i, j \in Used(tab) : tab[i].sector = tab[j].sector => i = j

IInv ==
  /\ Limits
  /\ TypeOK
  /\ Tree(dirs, image)
  /\ Own(AllCopies(dirs, image, table, files), freeMap)
  /\ Imaged(dirs, image, table, files)
  /\ Named(dirs, image, table)
  /\ TableCounts
  /\ NextSlotFree
  /\ NoAssertFails

---------------------------------------------------------------------------
(* Entries that come and go *)

DirsType == dirs \in [Sectors -> Directories \cup {None}]

\* The entry of a path is in the directory that FindDir finds.
LEMMA EntryPlace ==
  ASSUME DirsType, Tree(dirs, image), NEW q \in Paths, FindDir(q) # None
  PROVE  /\ FindDir(q) = Dir(dirs, image, Parent(q)) /\ Parent(q) \in DirPaths
         /\ FindDir(q) \in Sectors /\ dirs[FindDir(q)] \in Directories
         /\ FileName(q) \in Names
         /\ Look(dirs, image, q) = dirs[FindDir(q)][FileName(q)]
<1>1. FindDir(q) = Dir(dirs, image, Parent(q))
  BY LookupIs
<1>2. Parent(q) \in DirPaths /\ FileName(q) \in Names
  BY ParentOf
<1> QED BY <1>1, <1>2 DEF Tree, Look, Entry

\* Directory::Remove: the path leads nowhere, the others lead where they did or,
\* when they went through it, nowhere.
LEMMA Unlinked ==
  ASSUME DirsType, Tree(dirs, image), NEW q \in Paths, Lookup(q) # None,
         dirs' = RemoveEntry(FindDir(q), FileName(q)), image' = image
  PROVE  /\ DirsType' /\ Tree(dirs', image')
         /\ \A p \in Paths : Look(dirs', image', p) \in {Look(dirs, image, p), None}
         /\ Look(dirs', image', q) = None
         /\ Reached(dirs', image') \subseteq Reached(dirs, image) \ {Lookup(q)}
<1>1. Lookup(q) = Look(dirs, image, q) /\ FindDir(q) # None
  BY LookupIs DEF Lookup
<1>2. PICK d : d = FindDir(q)
  OBVIOUS
<1>3. PICK x : x = FileName(q)
  OBVIOUS
<1>4. /\ d = Dir(dirs, image, Parent(q)) /\ d # None /\ Parent(q) \in DirPaths
      /\ d \in Sectors /\ dirs[d] \in Directories /\ x \in Names
  BY <1>1, <1>2, <1>3, EntryPlace
<1>5. PICK e : e = [dirs[d] EXCEPT ![x] = None]
  OBVIOUS
<1>6. e \in Directories /\ e[x] = None /\ \A y \in Names : y # x => e[y] = dirs[d][y]
  BY <1>4, <1>5 DEF Directories
<1>7. dirs' = [dirs EXCEPT ![d] = e]
  BY <1>2, <1>3, <1>5 DEF RemoveEntry
<1>8. DirsType' /\ dirs'[d] = e /\ \A s \in Sectors : s # d => dirs'[s] = dirs[s]
  BY <1>4, <1>6, <1>7 DEF DirsType
<1>9. Edited(dirs, image, dirs', image', q, None)
  <2>1. ASSUME NEW p \in DirPaths, Dir(dirs, image, p) # None, p # Parent(q)
        PROVE  dirs'[Dir(dirs, image, p)] = dirs[Dir(dirs, image, p)]
    <3>1. Dir(dirs, image, p) # d
      BY <1>4, <2>1, DirUnique
    <3>2. Dir(dirs, image, p) \in Sectors
      BY <2>1 DEF Tree
    <3> QED BY <1>8, <3>1, <3>2
  <2>2. AsDir(image', None) = None
    BY DEF AsDir
  <2> QED BY <1>3, <1>4, <1>6, <1>8, <2>1, <2>2 DEF Edited
<1>10. Tree(dirs', image')
  BY <1>4, <1>6, <1>8, <1>9, TreeEdited
<1>11. \A p \in Paths : Look(dirs', image', p) =
         IF p = q THEN None ELSE IF Under(p, q) THEN None ELSE Look(dirs, image, p)
  BY <1>9, EditedPaths
<1>12. \A p \in Paths : Look(dirs', image', p) \in {Look(dirs, image, p), None}
  BY <1>11
<1>13. Reached(dirs', image') \subseteq Reached(dirs, image) \ {Lookup(q)}
  <2>1. SUFFICES ASSUME NEW p \in Paths, Look(dirs', image', p) # None
                 PROVE  Look(dirs', image', p) \in Reached(dirs, image) \ {Lookup(q)}
    BY DEF Reached
  <2>2. p # q /\ Look(dirs', image', p) = Look(dirs, image, p)
    BY <1>11, <2>1
  <2>3. Look(dirs, image, p) # Lookup(q)
    BY <1>1, <2>1, <2>2 DEF Tree
  <2> QED BY <2>1, <2>2, <2>3 DEF Reached
<1> QED BY <1>8, <1>10, <1>11, <1>12, <1>13

\* Nothing is under a path that leads nowhere.
LEMMA NothingUnder ==
  ASSUME Tree(dirs, image), NEW q \in Paths, FindDir(q) # None, Look(dirs, image, q) = None,
         NEW p \in Paths, Under(p, q)
  PROVE  Look(dirs, image, p) = None
<1>1. FindDir(q) = Dir(dirs, image, Parent(q))
  BY LookupIs
<1>2. dirs[Dir(dirs, image, Parent(q))][FileName(q)] = None
  BY <1>1 DEF Look, Entry
<1>3. AsDir(image, None) = None
  BY DEF AsDir
<1>4. Edited(dirs, image, dirs, image, q, None)
  BY <1>1, <1>2, <1>3 DEF Edited
<1> QED BY <1>4, EditedPaths

\* Directory::Add: the path leads to the new header, the others where they did.
LEMMA Linked ==
  ASSUME DirsType, Tree(dirs, image), image \in [Sectors -> Images \cup {None}],
         NEW q \in Paths, FindDir(q) # None, Look(dirs, image, q) = None,
         NEW sector \in Sectors, sector # DirectorySector, sector \notin Reached(dirs, image),
         NEW dir \in BOOLEAN, NEW img \in Images, img.isdir = dir,
         dirs' = [AddEntry(FindDir(q), FileName(q), sector) EXCEPT
                    ![sector] = IF dir THEN EmptyDir ELSE None],
         image'[sector] = img, \A s \in Reached(dirs, image) : image'[s] = image[s]
  PROVE  /\ DirsType' /\ Tree(dirs', image')
         /\ \A p \in Paths : Look(dirs', image', p) = IF p = q THEN sector ELSE Look(dirs, image, p)
         /\ Reached(dirs', image') = Reached(dirs, image) \cup {sector}
<1>1. PICK d : d = FindDir(q)
  OBVIOUS
<1>2. PICK x : x = FileName(q)
  OBVIOUS
<1>3. /\ d = Dir(dirs, image, Parent(q)) /\ d # None /\ Parent(q) \in DirPaths
      /\ d \in Sectors /\ dirs[d] \in Directories /\ x \in Names
  BY <1>1, <1>2, EntryPlace
<1>4. \A p \in DirPaths : Dir(dirs, image, p) # None => Dir(dirs, image, p) # sector
  <2>1. \A p \in Paths : Dir(dirs, image, p) # None => Dir(dirs, image, p) \in Reached(dirs, image)
    BY ONLY DirSteps DEF AsDir, Reached
  <2>2. Dir(dirs, image, <<>>) = DirectorySector
    BY DirSteps
  <2> QED BY <2>1, <2>2, RootOrPath
<1>5. d # sector
  BY <1>3, <1>4
<1>6. PICK e : e = [dirs[d] EXCEPT ![x] = sector]
  OBVIOUS
<1>7. e \in Directories /\ e[x] = sector /\ \A y \in Names : y # x => e[y] = dirs[d][y]
  BY <1>3, <1>6 DEF Directories
<1>8. PICK new : new = IF dir THEN EmptyDir ELSE None
  OBVIOUS
<1>9. EmptyDir \in Directories /\ \A y \in Names : EmptyDir[y] = None
  BY DEF EmptyDir, Directories
<1>10. PICK added : added = AddEntry(d, x, sector)
  OBVIOUS
<1>11. added = [dirs EXCEPT ![d] = e]
  BY <1>6, <1>10 DEF AddEntry
<1>12. dirs' = [added EXCEPT ![sector] = new]
  BY <1>1, <1>2, <1>8, <1>10
<1>13. /\ added \in [Sectors -> Directories \cup {None}]
       /\ added[d] = e /\ \A s \in Sectors : s # d => added[s] = dirs[s]
  BY <1>3, <1>7, <1>11 DEF DirsType
<1>14. /\ DirsType' /\ dirs'[d] = e /\ dirs'[sector] = new
       /\ \A s \in Sectors : s # d /\ s # sector => dirs'[s] = dirs[s]
  <2>1. new \in Directories \cup {None}
    BY <1>8, <1>9
  <2>2. dirs' \in [Sectors -> Directories \cup {None}]
    BY <1>12, <1>13, <2>1
  <2>3. dirs'[sector] = new /\ \A s \in Sectors : s # sector => dirs'[s] = added[s]
    BY <1>12, <1>13
  <2> QED BY <1>3, <1>5, <1>13, <2>2, <2>3 DEF DirsType
<1>15. image'[sector] = img /\ \A s \in Reached(dirs, image) : image'[s] = image[s]
  OBVIOUS
<1>16. AsDir(image', sector) # None => dir
  <2>1. AsDir(image', sector) # None => image'[sector].isdir
    BY DEF AsDir
  <2> QED BY <1>15, <2>1
<1>17. Edited(dirs, image, dirs', image', q, sector)
  <2>1. ASSUME NEW p \in DirPaths, Dir(dirs, image, p) # None, p # Parent(q)
        PROVE  dirs'[Dir(dirs, image, p)] = dirs[Dir(dirs, image, p)]
    <3>1. Dir(dirs, image, p) # d
      BY <1>3, <2>1, DirUnique
    <3>2. Dir(dirs, image, p) \in Sectors /\ Dir(dirs, image, p) # sector
      BY <1>4, <2>1 DEF Tree
    <3> QED BY <1>14, <3>1, <3>2
  <2>2. ASSUME NEW p \in Paths, Look(dirs, image, p) # None
        PROVE  AsDir(image', Look(dirs, image, p)) = AsDir(image, Look(dirs, image, p))
    <3>1. Look(dirs, image, p) \in Reached(dirs, image)
      BY <2>2 DEF Reached
    <3> QED BY <1>15, <3>1 DEF AsDir
  <2>3. AsDir(image', sector) # None => \A y \in Names : dirs'[sector][y] = None
    BY <1>8, <1>9, <1>14, <1>16
  <2> QED BY <1>2, <1>3, <1>7, <1>14, <2>1, <2>2, <2>3 DEF Edited
<1>18. Tree(dirs', image')
  <2>1. dirs'[Dir(dirs, image, Parent(q))] \in Directories
    BY <1>3, <1>7, <1>14
  <2>2. AsDir(image', sector) # None => dirs'[sector] \in Directories
    BY <1>8, <1>9, <1>14, <1>16
  <2> QED BY <1>17, <2>1, <2>2, TreeEdited
<1>19. \A p \in Paths : Look(dirs', image', p) =
         IF p = q THEN sector ELSE IF Under(p, q) THEN None ELSE Look(dirs, image, p)
  BY ONLY <1>17, Tree(dirs, image), q \in Paths, EditedPaths
<1>20. \A p \in Paths : Look(dirs', image', p) = IF p = q THEN sector ELSE Look(dirs, image, p)
  BY <1>19, NothingUnder
<1>21. sector # None
  BY Constants
<1>22. Reached(dirs', image') = Reached(dirs, image) \cup {sector}
  BY <1>20, <1>21 DEF Reached
<1> QED BY <1>14, <1>18, <1>20, <1>22

---------------------------------------------------------------------------
(* The table of open files *)

\* The linear searches find an element or none.
LEMMA FirstFound ==
  ASSUME NEW slots \in SUBSET Slots
  PROVE  IF slots = {} THEN FirstOf(slots) = ERROR
         ELSE FirstOf(slots) \in slots /\ FirstOf(slots) # ERROR
<1>1. CASE slots = {}
  BY <1>1 DEF FirstOf
<1>2. CASE slots # {}
  <2>1. slots \in SUBSET Nat /\ ERROR \notin slots
    BY Constants
  <2>2. \E i \in slots : \A j \in slots : i <= j
    BY <1>2, <2>1, LeastNatural
  <2>3. FirstOf(slots) \in slots
    BY <1>2, <2>2 DEF FirstOf
  <2> QED BY <1>2, <2>1, <2>3
<1> QED BY <1>1, <1>2

\* OpenFileTable::findl finds the entry of a name, if there is one.
LEMMA FoundEntry ==
  ASSUME NEW name
  PROVE  /\ findl(name) # ERROR => /\ findl(name) \in Used(table) /\ findl(name) \in Slots
                                   /\ table[findl(name)] # None /\ table[findl(name)].name = name
         /\ findl(name) = ERROR => \A i \in Used(table) : table[i].name # name
<1>1. InTable(name) \in SUBSET Slots
  BY DEF InTable
<1>2. findl(name) = FirstOf(InTable(name))
  BY DEF findl
<1>3. CASE InTable(name) = {}
  <2>1. findl(name) = ERROR
    BY <1>1, <1>2, <1>3, FirstFound
  <2> QED BY <1>3, <2>1 DEF InTable, Used
<1>4. CASE InTable(name) # {}
  <2>1. findl(name) \in InTable(name) /\ findl(name) # ERROR
    BY <1>1, <1>2, <1>4, FirstFound
  <2> QED BY <2>1 DEF InTable, Used
<1> QED BY <1>3, <1>4

\* What the types say of the entries and of the open files.
LEMMA EntryTypes ==
  ASSUME TypeOK
  PROVE  /\ \A i \in Used(table) : /\ i \in Slots /\ table[i] \in TableEntries
                                   /\ table[i].name \in Spellings /\ table[i].sector \in Sectors
                                   /\ table[i].file \in Headers /\ table[i].numthread \in Nat
                                   /\ table[i].ToBeDeleted \in BOOLEAN
                                   /\ PathOf[table[i].name] \in Paths
         /\ \A h \in Opened(files) : /\ h \in Handles /\ files[h] \in OpenFiles
                                     /\ files[h].name \in Spellings
                                     /\ files[h].fSector \in Sectors /\ files[h].hdr \in Headers
<1>1. \A i \in Used(table) : i \in Slots /\ table[i] \in TableEntries
  BY DEF TypeOK, Used
<1>2. \A e \in TableEntries : /\ e.name \in Spellings /\ e.sector \in Sectors /\ e.file \in Headers
                              /\ e.numthread \in Nat /\ e.ToBeDeleted \in BOOLEAN
  BY DEF TableEntries
<1>3. \A h \in Opened(files) : h \in Handles /\ files[h] \in OpenFiles
  BY DEF TypeOK, Opened
<1>4. \A f \in OpenFiles : f.name \in Spellings /\ f.fSector \in Sectors /\ f.hdr \in Headers
  BY DEF OpenFiles
<1>5. \A name \in Spellings : PathOf[name] \in Paths
  BY Constants DEF Paths
<1> QED BY <1>1, <1>2, <1>3, <1>4, <1>5

\* Every open file has the entry of its name in the table.
LEMMA HasEntry ==
  ASSUME TypeOK, TableCounts, NEW h \in Opened(files)
  PROVE  /\ findl(files[h].name) \in Used(table) /\ findl(files[h].name) # ERROR
         /\ table[findl(files[h].name)].name = files[h].name
         /\ table[findl(files[h].name)].sector = files[h].fSector
<1>1. PICK i \in Used(table) : table[i].name = files[h].name /\ table[i].sector = files[h].fSector
  BY DEF TableCounts, Opened, Used
<1>2. findl(files[h].name) # ERROR
  BY <1>1, FoundEntry
<1>3. findl(files[h].name) \in Used(table) /\ table[findl(files[h].name)].name = files[h].name
  BY <1>2, FoundEntry
<1>4. findl(files[h].name) = i
  BY <1>1, <1>3 DEF TableCounts, Used
<1> QED BY <1>1, <1>2, <1>3, <1>4

\* The files in the table that a path leads to are those under their own name.
LEMMA ReachedEntry ==
  ASSUME TypeOK, Limits, Tree(dirs, image), Named(dirs, image, table),
         NEW name \in Spellings, Lookup(PathOf[name]) # None,
         NEW i \in Used(table), table[i].sector = Lookup(PathOf[name])
  PROVE  table[i].name = name /\ ~table[i].ToBeDeleted
<1>1. PathOf[name] \in Paths /\ PathOf[table[i].name] \in Paths /\ table[i].name \in Spellings
  BY EntryTypes, Constants DEF Paths
<1>2. Lookup(PathOf[name]) = Look(dirs, image, PathOf[name])
  BY <1>1, LookupIs
<1>3. table[i].sector \in Reached(dirs, image)
  BY <1>1, <1>2 DEF Reached
<1>4. ~table[i].ToBeDeleted /\ Look(dirs, image, PathOf[table[i].name]) = table[i].sector
  BY <1>3 DEF Named
<1>5. PathOf[table[i].name] = PathOf[name]
  BY <1>1, <1>2, <1>4 DEF Tree
<1> QED BY <1>1, <1>4, <1>5 DEF Limits, SpelledOnce

---------------------------------------------------------------------------
(* Steps: creating files, and the start of the simulator *)

\* The table counts its users.
Users(fs, name) == {h \in Handles : fs[h] # None /\ fs[h].name = name}

Counted(tab, fs) ==
  /\ \A i \in Used(tab) : tab[i].numthread > 0 /\ tab[i].numthread = Cardinality(Users(fs, tab[i].name))
  /\ \A h \in Opened(fs) : \E i \in Used(tab) : tab[i].name = fs[h].name /\ tab[i].sector = fs[h].fSector
  /\ \A i, j \in Used(tab) : tab[i].name = tab[j].name => i = j

\* Counted is TableCounts, over the entries in use.
LEMMA CountedIs ==
  (TableCounts <=> Counted(table, files)) /\ (TableCounts' <=> Counted(table', files'))
BY DEF TableCounts, Counted, Users, Used, Opened

\* All copies are in a set when those of each kind are.
LEMMA CopiesWithin ==
  ASSUME NEW ds, NEW im, NEW tab, NEW fs, NEW C,
         \A s \in Held(ds, im, tab) : DiskCopy(im, s) \in C,
         \A i \in Used(tab) : EntryCopy(tab[i]) \in C,
         \A h \in Opened(fs) : FileCopy(fs[h]) \in C
  PROVE  AllCopies(ds, im, tab, fs) \subseteq C
BY DEF AllCopies

\* What the copies are.
LEMMA CopiesAre ==
  ASSUME NEW ds, NEW im, NEW tab, NEW fs
  PROVE  /\ \A s \in Held(ds, im, tab) : DiskCopy(im, s) \in AllCopies(ds, im, tab, fs)
         /\ \A i \in Used(tab) : EntryCopy(tab[i]) \in AllCopies(ds, im, tab, fs)
         /\ \A h \in Opened(fs) : FileCopy(fs[h]) \in AllCopies(ds, im, tab, fs)
         /\ \A i \in Used(tab) : tab[i].sector \in Held(ds, im, tab)
BY DEF AllCopies, Held

\* The header sectors in use are marked, and their headers whole.
LEMMA HeldMarked ==
  ASSUME Own(AllCopies(dirs, image, table, files), freeMap),
         NEW s \in Held(dirs, image, table)
  PROVE  s \in freeMap /\ s \notin Reserved /\ Whole(FetchFrom(image[s]))
<1>1. PICK c : c = DiskCopy(image, s)
  OBVIOUS
<1>2. c \in AllCopies(dirs, image, table, files) /\ c.sector = s /\ c.hdr = FetchFrom(image[s])
  BY <1>1, CopiesAre DEF DiskCopy
<1>3. s \in Owned(c) /\ Owned(c) \subseteq freeMap \ Reserved /\ Whole(c.hdr)
  BY <1>2 DEF Own, Owned
<1> QED BY <1>2, <1>3

\* FileSystem(false): the disk stays, nothing is open.
LEMMA RestartStep ==
  ASSUME IInv, Restart
  PROVE  IInv'
<1>1. Used(table') = {} /\ Opened(files') = {} /\ \A i \in Slots : table'[i] = None
  BY DEF Restart, EmptyTable, NoFiles, Used, Opened
<1>2. dirs' = dirs /\ image' = image /\ freeMap' = freeMap
  BY DEF Restart, diskVars
<1>3. TypeOK'
  <2>1. table' \in [Slots -> TableEntries \cup {None}] /\ files' \in [Handles -> OpenFiles \cup {None}]
    BY DEF Restart, EmptyTable, NoFiles
  <2>2. nbentry' \in Slots /\ machine' = "on"
    BY Constants DEF Restart
  <2> QED BY <1>2, <2>1, <2>2 DEF IInv, TypeOK
<1>4. Reached(dirs', image') = Reached(dirs, image)
  BY <1>2
<1>5. Held(dirs', image', table') \subseteq Held(dirs, image, table)
  BY <1>1, <1>4 DEF Held
<1>6. AllCopies(dirs', image', table', files') \subseteq AllCopies(dirs, image, table, files)
  <2>1. PICK C : C = AllCopies(dirs, image, table, files)
    OBVIOUS
  <2>2. \A s \in Held(dirs', image', table') : DiskCopy(image', s) \in C
    BY <1>2, <1>5, <2>1, CopiesAre
  <2> QED BY <1>1, <2>1, <2>2, CopiesWithin
<1>7. Own(AllCopies(dirs', image', table', files'), freeMap')
  BY <1>2, <1>6, OwnFewer DEF IInv
<1>8. Imaged(dirs', image', table', files')
  BY <1>1, <1>2, <1>5 DEF IInv, Imaged
<1>9. Named(dirs', image', table')
  BY <1>1 DEF Named
<1>10. TableCounts'
  BY <1>1, CountedIs DEF Counted
<1>11. NextSlotFree' /\ NoAssertFails'
  BY <1>1, Constants DEF NextSlotFree, NoAssertFails, Restart
<1>12. Tree(dirs', image')
  BY <1>2 DEF IInv
<1> QED BY <1>3, <1>7, <1>8, <1>9, <1>10, <1>11, <1>12 DEF IInv

\* FileSystem::Create and FileSystem::Mkdir.
LEMMA NewFileStep ==
  ASSUME IInv, NEW q \in Paths, NEW dir \in BOOLEAN, NEW size \in Nat,
         dir \/ FitsFirst(size), NEW filled \in BOOLEAN, NewFile(q, dir, size, filled)
  PROVE  IInv'
<1>1. /\ TypeOK /\ Tree(dirs, image) /\ Own(AllCopies(dirs, image, table, files), freeMap)
      /\ Imaged(dirs, image, table, files) /\ Named(dirs, image, table)
  BY DEF IInv
<1>2. PICK sector : sector = Find(freeMap, 1)[1]
  OBVIOUS
<1>3. PICK hdr : hdr = Allocate(freeMap \cup {sector}, dir, size)
  OBVIOUS
<1>4. /\ machine = "on" /\ FindDir(q) # None /\ DirFind(FindDir(q), FileName(q)) = None
      /\ NumClear(freeMap) > 0 /\ CanAllocate(freeMap \cup {sector}, size)
      /\ image' = [s \in Sectors |->
                     IF s = sector THEN WriteBack(hdr)
                     ELSE IF s \in (IF filled THEN SectorsOf(hdr) ELSE FurtherHeaders(hdr)) THEN None
                     ELSE image[s]]
      /\ dirs' = [AddEntry(FindDir(q), FileName(q), sector) EXCEPT
                    ![sector] = IF dir THEN EmptyDir ELSE None]
      /\ freeMap' = freeMap \cup {sector} \cup SectorsOf(hdr)
      /\ table' = table /\ nbentry' = nbentry /\ files' = files /\ machine' = machine
  BY <1>2, <1>3 DEF NewFile, MapWritten, tableVars
<1>5. sector \in Sectors /\ sector \notin freeMap
  <2>1. 1 \in Nat /\ 1 <= NumClear(freeMap)
    <3>1. NumClear(freeMap) \in Nat
      BY NumClearType
    <3> QED BY <1>4, <3>1
  <2>2. Find(freeMap, 1) \in Seq(Sectors \ freeMap) /\ Len(Find(freeMap, 1)) = 1
    BY <2>1, FindClear
  <2>3. 1 \in 1..Len(Find(freeMap, 1))
    BY <2>2
  <2> QED BY <1>2, <2>2, <2>3
<1>6. /\ Whole(hdr) /\ hdr.isdir = dir /\ hdr \in Headers
      /\ SectorsOf(hdr) \subseteq Sectors \ (freeMap \cup {sector})
  BY <1>3, <1>4, Allocated
<1>7. PICK img \in Images : img = WriteBack(hdr) /\ img.isdir = dir /\ img # None
  BY <1>6, Written
<1>8. /\ sector # DirectorySector /\ sector \notin Held(dirs, image, table)
      /\ sector \notin Reached(dirs, image)
  <2>1. DirectorySector \in Reserved /\ Reserved \subseteq freeMap
    BY <1>1 DEF Reserved, FormatMap, Own
  <2>2. \A s \in Held(dirs, image, table) : s \in freeMap
    BY <1>1, HeldMarked
  <2> QED BY <1>5, <2>1, <2>2 DEF Held
<1>9. Look(dirs, image, q) = None
  <2>1. FindDir(q) = Dir(dirs, image, Parent(q))
    BY LookupIs
  <2> QED BY <1>4, <2>1 DEF Look, Entry, DirFind
<1>10. DirsType /\ image \in [Sectors -> Images \cup {None}] /\ freeMap \subseteq Sectors
  BY <1>1 DEF TypeOK, DirsType
<1>11. /\ image' \in [Sectors -> Images \cup {None}]
       /\ image'[sector] = img
       /\ \A s \in Held(dirs, image, table) : s # sector /\ image'[s] = image[s]
  <2>1. PICK w : w = IF filled THEN SectorsOf(hdr) ELSE FurtherHeaders(hdr)
    OBVIOUS
  <2>2. w \subseteq SectorsOf(hdr)
    BY <2>1 DEF SectorsOf, FurtherHeaders
  <2>3. image' = [s \in Sectors |-> IF s = sector THEN img ELSE IF s \in w THEN None ELSE image[s]]
    BY <1>4, <1>7, <2>1
  <2>4. \A s \in Held(dirs, image, table) : s \in Sectors /\ s \in freeMap
    BY <1>1, <1>10, HeldMarked
  <2> QED BY <1>5, <1>6, <1>7, <1>10, <2>2, <2>3, <2>4
<1>12. /\ DirsType' /\ Tree(dirs', image')
       /\ \A p \in Paths : Look(dirs', image', p) = IF p = q THEN sector ELSE Look(dirs, image, p)
       /\ Reached(dirs', image') = Reached(dirs, image) \cup {sector}
  <2>1. \A s \in Reached(dirs, image) : image'[s] = image[s]
    BY <1>11 DEF Held
  <2> QED BY <1>1, <1>4, <1>5, <1>7, <1>8, <1>9, <1>10, <1>11, <2>1, Linked
<1>13. image' \in [Sectors -> Images \cup {None}] /\ image'[sector] = img
  BY <1>11
<1>14. TypeOK'
  <2>1. freeMap' \subseteq Sectors
    BY <1>4, <1>5, <1>6, <1>10
  <2> QED BY <1>1, <1>4, <1>12, <1>13, <2>1 DEF TypeOK, DirsType
<1>15. Held(dirs', image', table') = Held(dirs, image, table) \cup {sector}
  BY <1>4, <1>12 DEF Held
<1>17. \A s \in Held(dirs, image, table) : s # sector /\ image'[s] = image[s]
  BY <1>11
<1>18. Own(AllCopies(dirs', image', table', files'), freeMap')
  <2>1. PICK c : c = [sector |-> sector, hdr |-> hdr]
    OBVIOUS
  <2>2. c.sector = sector /\ c.hdr = hdr /\ Owned(c) = {sector} \cup SectorsOf(hdr)
    BY <2>1 DEF Owned
  <2>3. PICK C : C = AllCopies(dirs, image, table, files)
    OBVIOUS
  <2>4. AllCopies(dirs', image', table', files') \subseteq C \cup {c}
    <3>1. DiskCopy(image', sector) = c
      BY <1>6, <1>7, <1>13, <2>1, ReadBack DEF DiskCopy
    <3>2. \A s \in Held(dirs, image, table) : DiskCopy(image', s) = DiskCopy(image, s)
      BY <1>17 DEF DiskCopy
    <3>3. \A s \in Held(dirs', image', table') : DiskCopy(image', s) \in C \cup {c}
      BY <1>15, <2>3, <3>1, <3>2, CopiesAre
    <3>4. /\ \A i \in Used(table') : EntryCopy(table'[i]) \in C \cup {c}
          /\ \A h \in Opened(files') : FileCopy(files'[h]) \in C \cup {c}
      BY <1>4, <2>3, CopiesAre
    <3> QED BY <3>3, <3>4, CopiesWithin
  <2>5. freeMap' = freeMap \cup Owned(c)
    BY <1>4, <2>2
  <2>6. Whole(c.hdr) /\ c.sector \notin SectorsOf(c.hdr) /\ Own(C, freeMap)
    BY <1>1, <1>6, <2>2, <2>3
  <2>7. \A x \in Owned(c) : x \in Sectors \ freeMap
    BY <1>5, <1>6, <2>2
  <2> QED BY <2>4, <2>5, <2>6, <2>7, OwnAdded
<1>19. Imaged(dirs', image', table', files')
  <2>1. \A s \in Held(dirs', image', table') : image'[s] # None
    BY <1>1, <1>7, <1>13, <1>15, <1>17 DEF Imaged
  <2>2. \A i \in Used(table) : table[i].sector \in Held(dirs, image, table)
    BY CopiesAre
  <2>3. \A i \in Used(table') : ~image'[table'[i].sector].isdir
    BY <1>1, <1>4, <1>17, <2>2 DEF Imaged
  <2>4. \A h \in Opened(files') : ~files'[h].hdr.isdir
    BY <1>1, <1>4 DEF Imaged
  <2> QED BY <2>1, <2>3, <2>4 DEF Imaged
<1>20. Named(dirs', image', table')
  <2>1. \A i \in Used(table) : table[i].sector # sector /\ PathOf[table[i].name] \in Paths
                               /\ table[i].sector \in Sectors
    BY <1>1, <1>8, CopiesAre, EntryTypes
  <2>2. \A i \in Used(table) :
          table[i].sector \in Reached(dirs', image') <=> table[i].sector \in Reached(dirs, image)
    BY <1>12, <2>1
  <2>3. ASSUME NEW i \in Used(table), Look(dirs, image, PathOf[table[i].name]) = table[i].sector
        PROVE  Look(dirs', image', PathOf[table[i].name]) = table[i].sector
    <3>1. PathOf[table[i].name] # q
      BY <1>9, <2>1, <2>3, Constants
    <3> QED BY <1>12, <2>1, <2>3, <3>1
  <2> QED BY <1>1, <1>4, <2>2, <2>3 DEF Named
<1>21. TableCounts' /\ NextSlotFree' /\ NoAssertFails'
  <2>1. TableCounts'
    BY <1>4, CountedIs DEF IInv
  <2> QED BY <1>4, <2>1 DEF IInv, NextSlotFree, NoAssertFails
<1> QED BY <1>12, <1>14, <1>18, <1>19, <1>20, <1>21 DEF IInv

---------------------------------------------------------------------------
(* Steps: removing files *)

\* Names in the table when entries were removed.
LEMMA StillNamed ==
  ASSUME TypeOK, Tree(dirs, image), Named(dirs, image, table),
         \A p \in Paths : Look(dirs', image', p) \in {Look(dirs, image, p), None},
         Reached(dirs', image') \subseteq Reached(dirs, image)
  PROVE  Named(dirs', image', table)
<1>1. ASSUME NEW i \in Used(table), table[i].sector \in Reached(dirs', image')
      PROVE  Look(dirs', image', PathOf[table[i].name]) = table[i].sector
  <2>1. PathOf[table[i].name] \in Paths
    BY EntryTypes
  <2>2. Look(dirs, image, PathOf[table[i].name]) = table[i].sector
    BY <1>1 DEF Named
  <2>3. PICK p \in Paths : Look(dirs', image', p) = table[i].sector /\ table[i].sector # None
    BY <1>1 DEF Reached
  <2>4. Look(dirs, image, p) = table[i].sector
    BY <2>3
  <2>5. p = PathOf[table[i].name]
    BY <2>1, <2>2, <2>3, <2>4 DEF Tree
  <2> QED BY <2>3, <2>5
<1> QED BY <1>1 DEF Named

\* FileSystem::Remove and FileSystem::Rmdir of what is not in the table.
LEMMA FreeFileStep ==
  ASSUME IInv, NEW q \in Paths, machine = "on", Lookup(q) # None,
         \A i \in Used(table) : table[i].sector # Lookup(q),
         FreeFile(q, Lookup(q))
  PROVE  IInv'
<1>1. /\ TypeOK /\ Tree(dirs, image) /\ Own(AllCopies(dirs, image, table, files), freeMap)
      /\ Imaged(dirs, image, table, files) /\ Named(dirs, image, table) /\ TableCounts
  BY DEF IInv
<1>2. PICK sector : sector = Lookup(q)
  OBVIOUS
<1>3. sector = Look(dirs, image, q) /\ sector # None /\ sector \in Held(dirs, image, table)
  <2>1. Lookup(q) = Look(dirs, image, q)
    BY LookupIs
  <2> QED BY <1>2, <2>1 DEF Held, Reached
<1>4. PICK c : c = DiskCopy(image, sector)
  OBVIOUS
<1>5. PICK C : C = AllCopies(dirs, image, table, files)
  OBVIOUS
<1>6. c \in C /\ c.sector = sector /\ c.hdr = FetchFrom(image[sector]) /\ Own(C, freeMap)
  BY <1>1, <1>3, <1>4, <1>5, CopiesAre DEF DiskCopy
<1>7. Owned(c) = SectorsOf(c.hdr) \cup {sector} /\ Owned(c) \subseteq freeMap
  BY <1>6 DEF Own, Owned
<1>8. CanDeallocate(FetchFrom(image[sector]))
  BY <1>6, <1>7 DEF CanDeallocate
<1>9. /\ freeMap' = freeMap \ Owned(c)
      /\ dirs' = RemoveEntry(FindDir(q), FileName(q))
      /\ image' = image /\ table' = table /\ nbentry' = nbentry /\ files' = files
      /\ machine' = machine
  <2>1. /\ freeMap' = Deallocated(FetchFrom(image[sector]), sector)
        /\ dirs' = RemoveEntry(FindDir(q), FileName(q))
        /\ UNCHANGED <<image, tableVars, files, machine>>
    BY <1>2, <1>8 DEF FreeFile
  <2> QED BY <1>6, <1>7, <2>1 DEF Deallocated, tableVars
<1>10. DirsType
  BY <1>1 DEF TypeOK, DirsType
<1>11. /\ DirsType' /\ Tree(dirs', image')
       /\ \A p \in Paths : Look(dirs', image', p) \in {Look(dirs, image, p), None}
       /\ Reached(dirs', image') \subseteq Reached(dirs, image) \ {sector}
  BY <1>1, <1>2, <1>9, <1>10, Unlinked
<1>12. TypeOK'
  BY <1>1, <1>9, <1>11 DEF TypeOK, DirsType
<1>13. Held(dirs', image', table') \subseteq Held(dirs, image, table) \ {sector}
  BY <1>2, <1>9, <1>11 DEF Held
<1>14. \A h \in Opened(files) : files[h].fSector # sector
  BY <1>1, <1>2, HasEntry
<1>15. AllCopies(dirs', image', table', files') \subseteq {e \in C : e.sector # sector}
  <2>1. ASSUME NEW s \in Held(dirs', image', table')
        PROVE  DiskCopy(image', s) \in C /\ DiskCopy(image', s).sector # sector
    BY <1>5, <1>9, <1>13, CopiesAre DEF DiskCopy
  <2>2. ASSUME NEW i \in Used(table')
        PROVE  EntryCopy(table'[i]) \in C /\ EntryCopy(table'[i]).sector # sector
    BY <1>2, <1>5, <1>9, CopiesAre DEF EntryCopy
  <2>3. ASSUME NEW h \in Opened(files')
        PROVE  FileCopy(files'[h]) \in C /\ FileCopy(files'[h]).sector # sector
    BY <1>5, <1>9, <1>14, CopiesAre DEF FileCopy
  <2>4. PICK D : D = {e \in C : e.sector # sector}
    OBVIOUS
  <2>5. /\ \A s \in Held(dirs', image', table') : DiskCopy(image', s) \in D
        /\ \A i \in Used(table') : EntryCopy(table'[i]) \in D
        /\ \A h \in Opened(files') : FileCopy(files'[h]) \in D
    BY <2>1, <2>2, <2>3, <2>4
  <2> QED BY <2>4, <2>5, CopiesWithin
<1>16. Own(AllCopies(dirs', image', table', files'), freeMap')
  <2>1. PICK D : D = AllCopies(dirs', image', table', files')
    OBVIOUS
  <2>2. D \subseteq C /\ \A e \in D : e.sector # c.sector
    BY <1>6, <1>15, <2>1
  <2>3. Own(D, freeMap \ Owned(c))
    BY <1>6, <2>2, OwnFreed
  <2> QED BY <1>9, <2>1, <2>3
<1>17. Imaged(dirs', image', table', files')
  BY <1>1, <1>9, <1>13 DEF Imaged
<1>18. Named(dirs', image', table')
  <2>1. Reached(dirs', image') \subseteq Reached(dirs, image)
    BY <1>11
  <2>2. Named(dirs', image', table)
    BY <1>1, <1>11, <2>1, StillNamed
  <2> QED BY <1>9, <2>2
<1>19. TableCounts' /\ NextSlotFree' /\ NoAssertFails'
  <2>1. TableCounts'
    BY <1>1, <1>9, CountedIs
  <2> QED BY <1>9, <2>1 DEF IInv, NextSlotFree, NoAssertFails
<1> QED BY <1>11, <1>12, <1>16, <1>17, <1>18, <1>19 DEF IInv

\* Entry i of the table becomes e, which has the same name, sector and header.
Touched(i, e) ==
  /\ i \in Used(table) /\ e \in TableEntries
  /\ e.name = table[i].name /\ e.sector = table[i].sector /\ e.file = table[i].file
  /\ table' = [table EXCEPT ![i] = e]

\* The other entries stay.
LEMMA TouchedTable ==
  ASSUME TypeOK, NEW i, NEW e, Touched(i, e)
  PROVE  /\ table' \in [Slots -> TableEntries \cup {None}]
         /\ i \in Slots /\ table'[i] = e /\ \A j \in Slots : j # i => table'[j] = table[j]
         /\ Used(table') = Used(table)
         /\ \A j \in Used(table) : /\ table'[j].name = table[j].name
                                   /\ table'[j].sector = table[j].sector
                                   /\ table'[j].file = table[j].file
                                   /\ EntryCopy(table'[j]) = EntryCopy(table[j])
         /\ {table'[j].sector : j \in Used(table')} = {table[j].sector : j \in Used(table)}
<1>1. table \in [Slots -> TableEntries \cup {None}] /\ i \in Slots
  BY DEF TypeOK, Touched, Used
<1>2. /\ table' \in [Slots -> TableEntries \cup {None}]
      /\ table'[i] = e /\ \A j \in Slots : j # i => table'[j] = table[j]
  BY <1>1 DEF Touched
<1>3. e # None
  BY NoneAssumption DEF Touched
<1>4. Used(table') = Used(table)
  BY <1>2, <1>3 DEF Used, Touched
<1>5. \A j \in Used(table) : /\ table'[j].name = table[j].name
                             /\ table'[j].sector = table[j].sector
                             /\ table'[j].file = table[j].file
  BY <1>2 DEF Touched, Used
<1> QED BY <1>1, <1>2, <1>4, <1>5 DEF EntryCopy

\* OpenFileTable::Remove of a file in the table.
LEMMA RemoveOpenStep ==
  ASSUME IInv, NEW name \in Spellings, RemoveOpen(name)
  PROVE  IInv'
<1>1. /\ TypeOK /\ Tree(dirs, image) /\ Own(AllCopies(dirs, image, table, files), freeMap)
      /\ Imaged(dirs, image, table, files) /\ Named(dirs, image, table) /\ TableCounts
  BY DEF IInv
<1>2. PICK q \in Paths : q = PathOf[name]
  BY Constants DEF Paths
<1>3. PICK i : i = findl(name)
  OBVIOUS
<1>4. /\ machine = "on" /\ Lookup(q) # None /\ i # ERROR
      /\ table' = [table EXCEPT ![i].ToBeDeleted = TRUE]
      /\ dirs' = RemoveEntry(FindDir(q), FileName(q))
      /\ freeMap' = freeMap /\ image' = image /\ nbentry' = nbentry /\ files' = files
      /\ machine' = machine
  BY <1>2, <1>3 DEF RemoveOpen
<1>5. i \in Used(table) /\ table[i] \in TableEntries /\ table[i].name = name
  BY <1>1, <1>3, <1>4, FoundEntry, EntryTypes
<1>6. PICK e : e = [table[i] EXCEPT !.ToBeDeleted = TRUE]
  OBVIOUS
<1>7. /\ e \in TableEntries /\ e.name = table[i].name /\ e.sector = table[i].sector
      /\ e.file = table[i].file /\ e.numthread = table[i].numthread
  BY <1>5, <1>6 DEF TableEntries
<1>8. Touched(i, e)
  BY <1>4, <1>5, <1>6, <1>7 DEF Touched
<1>9. /\ table' \in [Slots -> TableEntries \cup {None}]
      /\ table'[i] = e /\ \A j \in Slots : j # i => table'[j] = table[j]
      /\ Used(table') = Used(table)
      /\ \A j \in Used(table) : /\ table'[j].name = table[j].name
                                /\ table'[j].sector = table[j].sector
                                /\ EntryCopy(table'[j]) = EntryCopy(table[j])
      /\ {table'[j].sector : j \in Used(table')} = {table[j].sector : j \in Used(table)}
  BY <1>1, <1>8, TouchedTable
<1>10. DirsType
  BY <1>1 DEF TypeOK, DirsType
<1>11. /\ DirsType' /\ Tree(dirs', image')
       /\ \A p \in Paths : Look(dirs', image', p) \in {Look(dirs, image, p), None}
       /\ Look(dirs', image', q) = None
       /\ Reached(dirs', image') \subseteq Reached(dirs, image) \ {Lookup(q)}
  BY <1>1, <1>4, <1>10, Unlinked
<1>12. TypeOK'
  BY <1>1, <1>4, <1>9, <1>11 DEF TypeOK, DirsType
<1>13. Held(dirs', image', table') \subseteq Held(dirs, image, table)
  BY <1>9, <1>11 DEF Held
<1>14. AllCopies(dirs', image', table', files') \subseteq AllCopies(dirs, image, table, files)
  <2>1. PICK C : C = AllCopies(dirs, image, table, files)
    OBVIOUS
  <2>2. \A s \in Held(dirs', image', table') : DiskCopy(image', s) \in C
    BY <1>4, <1>13, <2>1, CopiesAre
  <2>3. \A j \in Used(table') : EntryCopy(table'[j]) \in C
    BY <1>9, <2>1, CopiesAre
  <2>4. \A h \in Opened(files') : FileCopy(files'[h]) \in C
    BY <1>4, <2>1, CopiesAre
  <2> QED BY <2>1, <2>2, <2>3, <2>4, CopiesWithin
<1>15. Own(AllCopies(dirs', image', table', files'), freeMap')
  BY <1>1, <1>4, <1>14, OwnFewer
<1>16. Imaged(dirs', image', table', files')
  BY <1>1, <1>4, <1>9, <1>13 DEF Imaged
<1>17. Named(dirs', image', table')
  <2>1. Reached(dirs', image') \subseteq Reached(dirs, image)
    BY <1>11
  <2>2. Named(dirs', image', table)
    BY <1>1, <1>11, <2>1, StillNamed
  <2>3. table[i].sector \notin Reached(dirs', image')
    <3>1. SUFFICES ASSUME table[i].sector \in Reached(dirs', image') PROVE FALSE
      OBVIOUS
    <3>2. Look(dirs', image', PathOf[name]) = table[i].sector
      BY <1>5, <2>2, <3>1 DEF Named
    <3>3. table[i].sector # None
      BY <3>1 DEF Reached
    <3> QED BY <1>2, <1>11, <3>2, <3>3
  <2>4. ASSUME NEW j \in Used(table'), table'[j].ToBeDeleted
        PROVE  table'[j].sector \notin Reached(dirs', image')
    <3>1. CASE j = i
      BY <1>7, <1>9, <2>3, <3>1
    <3>2. CASE j # i
      BY <1>9, <2>2, <2>4, <3>2 DEF Named, Used
    <3> QED BY <3>1, <3>2
  <2>5. \A j \in Used(table') : \/ table'[j].sector \notin Reached(dirs', image')
                                \/ Look(dirs', image', PathOf[table'[j].name]) = table'[j].sector
    BY <1>9, <2>2 DEF Named
  <2>6. \A j, k \in Used(table') : table'[j].sector = table'[k].sector => j = k
    BY <1>9, <2>2 DEF Named
  <2> QED BY <2>4, <2>5, <2>6 DEF Named
<1>18. TableCounts'
  <2>1. Counted(table, files)
    BY <1>1, CountedIs
  <2>2. \A j \in Used(table) : table'[j].numthread = table[j].numthread
    BY <1>7, <1>9 DEF Used
  <2>3. \A j \in Used(table') : /\ table'[j].numthread > 0
                                /\ table'[j].numthread = Cardinality(Users(files', table'[j].name))
    BY <1>4, <1>9, <2>1, <2>2 DEF Counted
  <2>4. ASSUME NEW h \in Opened(files')
        PROVE  \E j \in Used(table') : /\ table'[j].name = files'[h].name
                                       /\ table'[j].sector = files'[h].fSector
    <3>1. PICK j \in Used(table) : table[j].name = files[h].name /\ table[j].sector = files[h].fSector
      BY <1>4, <2>1 DEF Counted
    <3> QED BY <1>4, <1>9, <3>1
  <2>5. \A j, k \in Used(table') : table'[j].name = table'[k].name => j = k
    BY <1>9, <2>1 DEF Counted
  <2>6. Counted(table', files')
    BY <2>3, <2>4, <2>5 DEF Counted
  <2> QED BY <2>6, CountedIs
<1>19. NextSlotFree'
  <2>1. nbentry # ERROR => nbentry \in Slots /\ table[nbentry] = None
    BY <1>1 DEF IInv, NextSlotFree, TypeOK
  <2>2. nbentry # ERROR => nbentry # i
    BY <1>5, <2>1 DEF Used
  <2> QED BY <1>4, <1>9, <2>1, <2>2 DEF NextSlotFree
<1>20. NoAssertFails'
  BY <1>4 DEF NoAssertFails
<1> QED BY <1>11, <1>12, <1>15, <1>16, <1>17, <1>18, <1>19, <1>20 DEF IInv

\* OpenFileTable::Remove of a file that is not in the table.
LEMMA RemoveClosedStep ==
  ASSUME IInv, NEW name \in Spellings, RemoveClosed(name)
  PROVE  IInv'
<1>1. PICK q \in Paths : q = PathOf[name]
  BY Constants DEF Paths
<1>2. machine = "on" /\ Lookup(q) # None /\ findl(name) = ERROR /\ FreeFile(q, Lookup(q))
  BY <1>1 DEF RemoveClosed
<1>3. \A i \in Used(table) : table[i].sector # Lookup(q)
  <2>1. SUFFICES ASSUME NEW i \in Used(table), table[i].sector = Lookup(q) PROVE FALSE
    OBVIOUS
  <2>2. table[i].name = name
    BY <1>1, <1>2, <2>1, ReachedEntry DEF IInv
  <2> QED BY <1>2, <2>2, FoundEntry
<1> QED BY <1>2, <1>3, FreeFileStep

\* FileSystem::Rmdir: directories are not in the table.
LEMMA RemoveDirectoryStep ==
  ASSUME IInv, NEW q \in Paths, RemoveDirectory(q)
  PROVE  IInv'
<1>1. machine = "on" /\ Lookup(q) # None /\ IsDir(Lookup(q)) /\ FreeFile(q, Lookup(q))
  BY DEF RemoveDirectory
<1>2. image[Lookup(q)].isdir
  BY <1>1 DEF IsDir
<1>3. \A i \in Used(table) : ~image[table[i].sector].isdir
  BY DEF IInv, Imaged
<1>4. \A i \in Used(table) : table[i].sector # Lookup(q)
  BY <1>2, <1>3
<1> QED BY <1>1, <1>4, FreeFileStep

---------------------------------------------------------------------------
(* Steps: opening files *)

\* A file that OpenFileTable::Open opens is not a directory, and its header is on
\* disk.
LEMMA NewOpenFile ==
  ASSUME IInv, NEW h \in Handles, NEW name \in Spellings,
         NEW sector \in Held(dirs, image, table), ~IsDir(sector), NewHandle(h, name, sector)
  PROVE  /\ files[h] = None /\ files' \in [Handles -> OpenFiles \cup {None}]
         /\ files'[h] # None /\ files'[h].name = name /\ files'[h].fSector = sector
         /\ files'[h].hdr = FetchFrom(image[sector])
         /\ FileCopy(files'[h]) = DiskCopy(image, sector)
         /\ \A g \in Handles : g # h => files'[g] = files[g]
         /\ ~files'[h].hdr.isdir /\ FetchFrom(image[sector]) \in Headers
         /\ sector \in Sectors
         /\ h \in Opened(files') /\ \A g \in Opened(files') : g = h \/ g \in Opened(files)
<1>1. /\ TypeOK /\ Own(AllCopies(dirs, image, table, files), freeMap)
      /\ Imaged(dirs, image, table, files)
  BY DEF IInv
<1>2. sector \in Sectors
  BY <1>1, HeldMarked DEF TypeOK
<1>3. image[sector] \in Images /\ ~image[sector].isdir
  BY <1>1, <1>2 DEF TypeOK, Imaged, IsDir
<1>4. FetchFrom(image[sector]) \in Headers /\ FetchFrom(image[sector]).isdir = image[sector].isdir
  BY <1>3, Fetched
<1>5. PICK f : f = [name |-> name, fSector |-> sector, hdr |-> FetchFrom(image[sector])]
  OBVIOUS
<1>6. /\ f \in OpenFiles /\ f.name = name /\ f.fSector = sector
      /\ f.hdr = FetchFrom(image[sector])
  BY <1>2, <1>4, <1>5 DEF OpenFiles
<1>7. f # None
  BY <1>6, NoneAssumption
<1>8. files[h] = None /\ files' = [files EXCEPT ![h] = f]
  BY <1>5 DEF NewHandle
<1>9. files \in [Handles -> OpenFiles \cup {None}]
  BY <1>1 DEF TypeOK
<1>10. /\ files' \in [Handles -> OpenFiles \cup {None}]
       /\ files'[h] = f /\ \A g \in Handles : g # h => files'[g] = files[g]
  BY <1>6, <1>8, <1>9
<1>11. ~f.hdr.isdir
  BY <1>3, <1>4, <1>6
<1>12. FileCopy(f) = DiskCopy(image, sector)
  BY <1>6 DEF FileCopy, DiskCopy
<1>13. h \in Opened(files') /\ \A g \in Opened(files') : g = h \/ g \in Opened(files)
  BY <1>7, <1>10 DEF Opened
<1> QED BY <1>2, <1>4, <1>6, <1>7, <1>8, <1>10, <1>11, <1>12, <1>13

\* A new OpenFile object is one more user of its name.
LEMMA OneMoreUser ==
  ASSUME TypeOK, NEW h \in Handles, files[h] = None, files'[h] # None,
         \A g \in Handles : g # h => files'[g] = files[g]
  PROVE  /\ Cardinality(Users(files', files'[h].name)) = Cardinality(Users(files, files'[h].name)) + 1
         /\ \A name : name # files'[h].name => Users(files', name) = Users(files, name)
<1>1. PICK name : name = files'[h].name
  OBVIOUS
<1>2. PICK U : U = Users(files, name)
  OBVIOUS
<1>3. h \notin U /\ Users(files', name) = U \cup {h}
  BY <1>1, <1>2 DEF Users
<1>4. IsFiniteSet(U)
  <2>1. U \subseteq Handles
    BY <1>2 DEF Users
  <2> QED BY <2>1, Constants, FS_Subset
<1>5. Cardinality(U \cup {h}) = Cardinality(U) + 1
  BY <1>3, <1>4, FS_AddElement
<1>6. \A n : n # name => Users(files', n) = Users(files, n)
  BY <1>1 DEF Users
<1> QED BY <1>1, <1>2, <1>3, <1>5, <1>6

\* OpenFileTable::Open of a file in the table.
LEMMA OpenAgainStep ==
  ASSUME IInv, NEW h \in Handles, NEW name \in Spellings, OpenAgain(h, name)
  PROVE  IInv'
<1>1. /\ TypeOK /\ Tree(dirs, image) /\ Own(AllCopies(dirs, image, table, files), freeMap)
      /\ Imaged(dirs, image, table, files) /\ Named(dirs, image, table)
      /\ Counted(table, files)
  BY CountedIs DEF IInv
<1>2. PICK i : i = findl(name)
  OBVIOUS
<1>3. /\ machine = "on" /\ i # ERROR
      /\ table' = [table EXCEPT ![i].numthread = @ + 1]
      /\ NewHandle(h, name, table[i].sector)
      /\ dirs' = dirs /\ freeMap' = freeMap /\ image' = image /\ nbentry' = nbentry
      /\ machine' = machine
  BY <1>2 DEF OpenAgain, diskVars
<1>4. i \in Used(table) /\ table[i] \in TableEntries /\ table[i].name = name /\ table[i].numthread \in Nat
  BY <1>1, <1>2, <1>3, FoundEntry, EntryTypes
<1>5. PICK e : e = [table[i] EXCEPT !.numthread = @ + 1]
  OBVIOUS
<1>6. /\ e \in TableEntries /\ e.name = table[i].name /\ e.sector = table[i].sector
      /\ e.file = table[i].file /\ e.numthread = table[i].numthread + 1
      /\ e.ToBeDeleted = table[i].ToBeDeleted
  BY <1>4, <1>5 DEF TableEntries
<1>7. Touched(i, e)
  BY <1>3, <1>4, <1>5, <1>6 DEF Touched
<1>8. /\ table' \in [Slots -> TableEntries \cup {None}]
      /\ table'[i] = e /\ \A j \in Slots : j # i => table'[j] = table[j]
      /\ Used(table') = Used(table)
      /\ \A j \in Used(table) : /\ table'[j].name = table[j].name
                                /\ table'[j].sector = table[j].sector
                                /\ EntryCopy(table'[j]) = EntryCopy(table[j])
      /\ {table'[j].sector : j \in Used(table')} = {table[j].sector : j \in Used(table)}
  BY <1>1, <1>7, TouchedTable
<1>9. PICK sector : sector = table[i].sector
  OBVIOUS
<1>10. sector \in Held(dirs, image, table) /\ ~IsDir(sector) /\ NewHandle(h, name, sector)
  BY <1>1, <1>3, <1>4, <1>9, CopiesAre DEF Imaged, IsDir
<1>11. /\ files[h] = None /\ files' \in [Handles -> OpenFiles \cup {None}]
       /\ files'[h] # None /\ files'[h].name = name /\ files'[h].fSector = sector
       /\ FileCopy(files'[h]) = DiskCopy(image, sector)
       /\ \A g \in Handles : g # h => files'[g] = files[g]
       /\ ~files'[h].hdr.isdir
       /\ h \in Opened(files') /\ \A g \in Opened(files') : g = h \/ g \in Opened(files)
  BY <1>10, NewOpenFile
<1>12. TypeOK'
  BY <1>1, <1>3, <1>8, <1>11 DEF TypeOK
<1>13. Held(dirs', image', table') = Held(dirs, image, table)
  BY <1>3, <1>8 DEF Held
<1>14. \A g \in Opened(files') : g # h => g \in Opened(files) /\ files'[g] = files[g]
  BY <1>11 DEF Opened
<1>15. AllCopies(dirs', image', table', files') \subseteq AllCopies(dirs, image, table, files)
  <2>1. PICK C : C = AllCopies(dirs, image, table, files)
    OBVIOUS
  <2>2. \A s \in Held(dirs', image', table') : DiskCopy(image', s) \in C
    BY <1>3, <1>13, <2>1, CopiesAre
  <2>3. \A j \in Used(table') : EntryCopy(table'[j]) \in C
    BY <1>8, <2>1, CopiesAre
  <2>4. FileCopy(files'[h]) \in C
    BY <1>10, <1>11, <2>1, CopiesAre
  <2>5. \A g \in Opened(files') : FileCopy(files'[g]) \in C
    BY <1>14, <2>1, <2>4, CopiesAre
  <2> QED BY <2>1, <2>2, <2>3, <2>5, CopiesWithin
<1>16. Own(AllCopies(dirs', image', table', files'), freeMap')
  BY <1>1, <1>3, <1>15, OwnFewer
<1>17. Imaged(dirs', image', table', files')
  BY <1>1, <1>3, <1>8, <1>11, <1>13, <1>14 DEF Imaged
<1>18. Named(dirs', image', table')
  <2>1. \A j \in Used(table) : table'[j].ToBeDeleted = table[j].ToBeDeleted
    BY <1>6, <1>8 DEF Used
  <2>2. \A j \in Used(table') : table'[j].ToBeDeleted => table'[j].sector \notin Reached(dirs', image')
    BY <1>1, <1>3, <1>8, <2>1 DEF Named
  <2>3. \A j \in Used(table') : \/ table'[j].sector \notin Reached(dirs', image')
                                \/ Look(dirs', image', PathOf[table'[j].name]) = table'[j].sector
    BY <1>1, <1>3, <1>8 DEF Named
  <2>4. \A j, k \in Used(table') : table'[j].sector = table'[k].sector => j = k
    BY <1>1, <1>8 DEF Named
  <2> QED BY <2>2, <2>3, <2>4 DEF Named
<1>19. TableCounts'
  <2>1. /\ Cardinality(Users(files', name)) = Cardinality(Users(files, name)) + 1
        /\ \A n : n # name => Users(files', n) = Users(files, n)
    BY <1>1, <1>11, OneMoreUser
  <2>2. ASSUME NEW j \in Used(table')
        PROVE  /\ table'[j].numthread > 0
               /\ table'[j].numthread = Cardinality(Users(files', table'[j].name))
    <3>1. CASE j = i
      <4>1. table[i].numthread = Cardinality(Users(files, name))
        BY <1>1, <1>4 DEF Counted
      <4> QED BY <1>4, <1>6, <1>8, <2>1, <3>1, <4>1
    <3>2. CASE j # i
      <4>1. table[j].name # name
        BY <1>1, <1>4, <1>8, <3>2 DEF Counted
      <4> QED BY <1>1, <1>8, <2>1, <3>2, <4>1 DEF Counted, Used
    <3> QED BY <3>1, <3>2
  <2>3. ASSUME NEW g \in Opened(files')
        PROVE  \E j \in Used(table') : /\ table'[j].name = files'[g].name
                                       /\ table'[j].sector = files'[g].fSector
    <3>1. CASE g = h
      BY <1>4, <1>6, <1>8, <1>9, <1>11, <3>1
    <3>2. CASE g # h
      <4>1. PICK j \in Used(table) : table[j].name = files[g].name /\ table[j].sector = files[g].fSector
        BY <1>1, <1>14, <3>2 DEF Counted
      <4> QED BY <1>8, <1>14, <3>2, <4>1
    <3> QED BY <3>1, <3>2
  <2>4. \A j, k \in Used(table') : table'[j].name = table'[k].name => j = k
    BY <1>1, <1>8 DEF Counted
  <2>5. Counted(table', files')
    BY <2>2, <2>3, <2>4 DEF Counted
  <2> QED BY <2>5, CountedIs
<1>20. NextSlotFree'
  <2>1. nbentry # ERROR => nbentry \in Slots /\ table[nbentry] = None
    BY <1>1 DEF IInv, NextSlotFree, TypeOK
  <2>2. nbentry # ERROR => nbentry # i
    BY <1>4, <2>1 DEF Used
  <2> QED BY <1>3, <1>8, <2>1, <2>2 DEF NextSlotFree
<1>21. NoAssertFails' /\ Tree(dirs', image')
  BY <1>1, <1>3 DEF NoAssertFails
<1> QED BY <1>12, <1>16, <1>17, <1>18, <1>19, <1>20, <1>21 DEF IInv

\* OpenFileTable::Open of a file that is not in the table: it gets the free entry.
LEMMA OpenFirstStep ==
  ASSUME IInv, NEW h \in Handles, NEW name \in Spellings, OpenFirst(h, name)
  PROVE  IInv'
<1>1. /\ TypeOK /\ Tree(dirs, image) /\ Own(AllCopies(dirs, image, table, files), freeMap)
      /\ Imaged(dirs, image, table, files) /\ Named(dirs, image, table)
      /\ Counted(table, files) /\ NextSlotFree
  BY CountedIs DEF IInv
<1>2. PICK q \in Paths : q = PathOf[name]
  BY Constants DEF Paths
<1>3. PICK sector : sector = Lookup(q)
  OBVIOUS
<1>4. PICK e : e = OpenFileTableEntry(name, sector)
  OBVIOUS
<1>5. PICK i : i = nbentry
  OBVIOUS
<1>6. /\ machine = "on" /\ findl(name) = ERROR /\ i # ERROR /\ sector # None /\ ~IsDir(sector)
      /\ table' = [table EXCEPT ![i] = e] /\ nbentry' = next_entry(table')
      /\ NewHandle(h, name, sector)
      /\ dirs' = dirs /\ freeMap' = freeMap /\ image' = image /\ machine' = machine
  BY <1>2, <1>3, <1>4, <1>5 DEF OpenFirst, diskVars
<1>7. i \in Slots /\ table[i] = None /\ i \notin Used(table)
  BY <1>1, <1>5, <1>6 DEF TypeOK, NextSlotFree, Used
<1>8. sector = Look(dirs, image, q) /\ sector \in Reached(dirs, image)
  <2>1. Lookup(q) = Look(dirs, image, q)
    BY LookupIs
  <2> QED BY <1>3, <1>6, <2>1 DEF Reached
<1>9. sector \in Held(dirs, image, table)
  BY <1>8 DEF Held
<1>10. /\ files[h] = None /\ files' \in [Handles -> OpenFiles \cup {None}]
       /\ files'[h] # None /\ files'[h].name = name /\ files'[h].fSector = sector
       /\ FileCopy(files'[h]) = DiskCopy(image, sector)
       /\ \A g \in Handles : g # h => files'[g] = files[g]
       /\ ~files'[h].hdr.isdir /\ FetchFrom(image[sector]) \in Headers /\ sector \in Sectors
       /\ h \in Opened(files') /\ \A g \in Opened(files') : g = h \/ g \in Opened(files)
  BY <1>6, <1>9, NewOpenFile
<1>11. /\ e \in TableEntries /\ e.name = name /\ e.sector = sector
       /\ e.file = FetchFrom(image[sector]) /\ e.numthread = 1 /\ ~e.ToBeDeleted
  BY <1>4, <1>10 DEF OpenFileTableEntry, TableEntries
<1>12. e # None
  BY <1>11, NoneAssumption
<1>13. /\ table' \in [Slots -> TableEntries \cup {None}]
       /\ table'[i] = e /\ \A j \in Slots : j # i => table'[j] = table[j]
  <2>1. table \in [Slots -> TableEntries \cup {None}]
    BY <1>1 DEF TypeOK
  <2> QED BY <1>6, <1>7, <1>11, <2>1
<1>14. /\ Used(table') = Used(table) \cup {i}
       /\ \A j \in Used(table) : j # i /\ table'[j] = table[j]
  BY <1>7, <1>12, <1>13 DEF Used
<1>15. nbentry' \in Slots \cup {ERROR} /\ (nbentry' # ERROR => table'[nbentry'] = None)
  <2>1. PICK free \in SUBSET Slots : free = FreeSlots(table')
    BY DEF FreeSlots
  <2>2. nbentry' = FirstOf(free)
    BY <1>6, <2>1 DEF next_entry
  <2>3. nbentry' = ERROR \/ nbentry' \in free
    BY <2>2, FirstFound
  <2> QED BY <2>1, <2>3 DEF FreeSlots
<1>16. TypeOK'
  BY <1>1, <1>6, <1>10, <1>13, <1>15 DEF TypeOK
<1>17. Held(dirs', image', table') = Held(dirs, image, table)
  <2>1. {table'[j].sector : j \in Used(table')} = {table[j].sector : j \in Used(table)} \cup {sector}
    BY <1>11, <1>13, <1>14
  <2> QED BY <1>6, <1>8, <2>1 DEF Held
<1>18. \A g \in Opened(files') : g # h => g \in Opened(files) /\ files'[g] = files[g]
  BY <1>10 DEF Opened
<1>19. AllCopies(dirs', image', table', files') \subseteq AllCopies(dirs, image, table, files)
  <2>1. PICK C : C = AllCopies(dirs, image, table, files)
    OBVIOUS
  <2>2. \A s \in Held(dirs', image', table') : DiskCopy(image', s) \in C
    BY <1>6, <1>17, <2>1, CopiesAre
  <2>3. EntryCopy(e) = DiskCopy(image, sector) /\ DiskCopy(image, sector) \in C
    BY <1>9, <1>11, <2>1, CopiesAre DEF EntryCopy, DiskCopy
  <2>4. \A j \in Used(table') : EntryCopy(table'[j]) \in C
    BY <1>13, <1>14, <2>1, <2>3, CopiesAre
  <2>5. \A g \in Opened(files') : FileCopy(files'[g]) \in C
    BY <1>10, <1>18, <2>1, <2>3, CopiesAre
  <2> QED BY <2>1, <2>2, <2>4, <2>5, CopiesWithin
<1>20. Own(AllCopies(dirs', image', table', files'), freeMap')
  BY <1>1, <1>6, <1>19, OwnFewer
<1>21. Imaged(dirs', image', table', files')
  <2>1. \A j \in Used(table') : ~image'[table'[j].sector].isdir
    <3>1. ~image[sector].isdir
      BY <1>1, <1>6, <1>9 DEF Imaged, IsDir
    <3> QED BY <1>1, <1>6, <1>11, <1>13, <1>14, <3>1 DEF Imaged
  <2> QED BY <1>1, <1>6, <1>10, <1>17, <1>18, <2>1 DEF Imaged
<1>22. \A j \in Used(table) : table[j].name # name /\ table[j].sector # sector
  <2>1. \A j \in Used(table) : table[j].name # name
    BY <1>6, FoundEntry
  <2>2. \A j \in Used(table) : table[j].sector = sector => table[j].name = name
    BY <1>1, <1>2, <1>3, <1>6, ReachedEntry DEF IInv
  <2> QED BY <2>1, <2>2
<1>23. Named(dirs', image', table')
  <2>1. \A j \in Used(table') : table'[j].ToBeDeleted => table'[j].sector \notin Reached(dirs', image')
    BY <1>1, <1>6, <1>11, <1>13, <1>14 DEF Named
  <2>2. \A j \in Used(table') : \/ table'[j].sector \notin Reached(dirs', image')
                                \/ Look(dirs', image', PathOf[table'[j].name]) = table'[j].sector
    BY <1>1, <1>2, <1>6, <1>8, <1>11, <1>13, <1>14 DEF Named
  <2>3. \A j, k \in Used(table') : table'[j].sector = table'[k].sector => j = k
    BY <1>1, <1>11, <1>13, <1>14, <1>22 DEF Named
  <2> QED BY <2>1, <2>2, <2>3 DEF Named
<1>24. TableCounts'
  <2>1. /\ Cardinality(Users(files', name)) = Cardinality(Users(files, name)) + 1
        /\ \A n : n # name => Users(files', n) = Users(files, n)
    BY <1>1, <1>10, OneMoreUser
  <2>2. Users(files, name) = {}
    <3>1. SUFFICES ASSUME NEW g \in Users(files, name) PROVE FALSE
      OBVIOUS
    <3>2. g \in Opened(files) /\ files[g].name = name
      BY <3>1 DEF Users, Opened
    <3> QED BY <1>1, <1>22, <3>2 DEF Counted
  <2>3. Cardinality(Users(files', name)) = 1
    BY <2>1, <2>2, FS_EmptySet
  <2>4. \A j \in Used(table') : /\ table'[j].numthread > 0
                                /\ table'[j].numthread = Cardinality(Users(files', table'[j].name))
    BY <1>1, <1>11, <1>13, <1>14, <1>22, <2>1, <2>3 DEF Counted
  <2>5. ASSUME NEW g \in Opened(files')
        PROVE  \E j \in Used(table') : /\ table'[j].name = files'[g].name
                                       /\ table'[j].sector = files'[g].fSector
    <3>1. CASE g = h
      BY <1>10, <1>11, <1>13, <1>14, <3>1
    <3>2. CASE g # h
      <4>1. PICK j \in Used(table) : table[j].name = files[g].name /\ table[j].sector = files[g].fSector
        BY <1>1, <1>18, <3>2 DEF Counted
      <4> QED BY <1>14, <1>18, <3>2, <4>1
    <3> QED BY <3>1, <3>2
  <2>6. \A j, k \in Used(table') : table'[j].name = table'[k].name => j = k
    BY <1>1, <1>11, <1>13, <1>14, <1>22 DEF Counted
  <2>7. Counted(table', files')
    BY <2>4, <2>5, <2>6 DEF Counted
  <2> QED BY <2>7, CountedIs
<1>25. NextSlotFree' /\ NoAssertFails' /\ Tree(dirs', image')
  BY <1>1, <1>6, <1>15 DEF NextSlotFree, NoAssertFails
<1> QED BY <1>16, <1>20, <1>21, <1>23, <1>24, <1>25 DEF IInv

---------------------------------------------------------------------------
(* Steps: closing files *)

\* An OpenFile object less is one user less of its name.
LEMMA OneLessUser ==
  ASSUME TypeOK, NEW h \in Handles, files[h] # None, files' = [files EXCEPT ![h] = None]
  PROVE  /\ Cardinality(Users(files', files[h].name)) = Cardinality(Users(files, files[h].name)) - 1
         /\ \A name : name # files[h].name => Users(files', name) = Users(files, name)
         /\ Cardinality(Users(files', files[h].name)) \in Nat
         /\ Cardinality(Users(files', files[h].name)) = 0 => Users(files', files[h].name) = {}
<1>1. PICK name : name = files[h].name
  OBVIOUS
<1>2. files'[h] = None /\ \A g \in Handles : g # h => files'[g] = files[g]
  BY DEF TypeOK
<1>3. PICK U : U = Users(files', name)
  OBVIOUS
<1>4. h \notin U /\ Users(files, name) = U \cup {h}
  BY <1>1, <1>2, <1>3 DEF Users
<1>5. IsFiniteSet(U)
  <2>1. U \subseteq Handles
    BY <1>3 DEF Users
  <2> QED BY <2>1, Constants, FS_Subset
<1>6. Cardinality(U \cup {h}) = Cardinality(U) + 1 /\ Cardinality(U) \in Nat
  BY <1>4, <1>5, FS_AddElement, FS_CardinalityType
<1>7. Cardinality(U) = 0 => U = {}
  BY <1>5, FS_EmptySet
<1>8. \A n : n # name => Users(files', n) = Users(files, n)
  BY <1>1, <1>2 DEF Users
<1>9. Cardinality(Users(files', name)) = Cardinality(Users(files, name)) - 1
  BY <1>3, <1>4, <1>6
<1> QED BY <1>1, <1>3, <1>6, <1>7, <1>8, <1>9

\* What SC_CLOSE finds in the table, and what becomes of the open files.
LEMMA ClosedFile ==
  ASSUME IInv, NEW h \in Handles, files[h] # None, files' = [files EXCEPT ![h] = None]
  PROVE  /\ files' \in [Handles -> OpenFiles \cup {None}]
         /\ \A g \in Opened(files') : g # h /\ g \in Opened(files) /\ files'[g] = files[g]
         /\ \A g \in Opened(files) : g # h => g \in Opened(files')
         /\ h \in Opened(files)
<1>1. files \in [Handles -> OpenFiles \cup {None}]
  BY DEF IInv, TypeOK
<1>2. /\ files' \in [Handles -> OpenFiles \cup {None}]
      /\ files'[h] = None /\ \A g \in Handles : g # h => files'[g] = files[g]
  BY <1>1
<1> QED BY <1>2 DEF Opened

\* SC_CLOSE of a file that others have open: the entry counts one less.
LEMMA CloseSharedStep ==
  ASSUME IInv, NEW h \in Handles, files[h] # None, machine = "on",
         NEW i \in Used(table), i = findl(files[h].name), ~LastUser(i),
         CloseEntry(i), files' = [files EXCEPT ![h] = None],
         UNCHANGED <<image, dirs, nbentry, machine>>
  PROVE  IInv'
<1>1. /\ TypeOK /\ Tree(dirs, image) /\ Own(AllCopies(dirs, image, table, files), freeMap)
      /\ Imaged(dirs, image, table, files) /\ Named(dirs, image, table)
      /\ Counted(table, files)
  BY CountedIs DEF IInv
<1>2. PICK name : name = files[h].name
  OBVIOUS
<1>3. /\ files' \in [Handles -> OpenFiles \cup {None}]
      /\ \A g \in Opened(files') : g # h /\ g \in Opened(files) /\ files'[g] = files[g]
      /\ \A g \in Opened(files) : g # h => g \in Opened(files')
      /\ h \in Opened(files)
  BY ClosedFile
<1>4. /\ i \in Slots /\ table[i] \in TableEntries /\ table[i].name = name
      /\ table[i].numthread \in Nat /\ i # ERROR
  BY <1>1, <1>2, EntryTypes, FoundEntry, Constants
<1>5. table[i].numthread > 1
  BY <1>4 DEF LastUser
<1>6. PICK e : e = [table[i] EXCEPT !.numthread = @ - 1]
  OBVIOUS
<1>7. /\ e \in TableEntries /\ e.name = table[i].name /\ e.sector = table[i].sector
      /\ e.file = table[i].file /\ e.numthread = table[i].numthread - 1
      /\ e.ToBeDeleted = table[i].ToBeDeleted
  BY <1>4, <1>5, <1>6 DEF TableEntries
<1>8. Touched(i, e)
  <2>1. table' = [j \in Slots |-> IF j # i THEN table[j] ELSE e]
    BY <1>6 DEF CloseEntry
  <2>2. table \in [Slots -> TableEntries \cup {None}]
    BY <1>1 DEF TypeOK
  <2>3. table' = [table EXCEPT ![i] = e]
    BY <1>4, <2>1, <2>2
  <2> QED BY <1>7, <2>3 DEF Touched
<1>9. /\ table' \in [Slots -> TableEntries \cup {None}]
      /\ table'[i] = e /\ \A j \in Slots : j # i => table'[j] = table[j]
      /\ Used(table') = Used(table)
      /\ \A j \in Used(table) : /\ table'[j].name = table[j].name
                                /\ table'[j].sector = table[j].sector
                                /\ EntryCopy(table'[j]) = EntryCopy(table[j])
      /\ {table'[j].sector : j \in Used(table')} = {table[j].sector : j \in Used(table)}
  BY <1>1, <1>8, TouchedTable
<1>10. freeMap' = freeMap /\ dirs' = dirs /\ image' = image /\ nbentry' = nbentry /\ machine' = machine
  BY DEF CloseEntry
<1>11. TypeOK'
  BY <1>1, <1>3, <1>9, <1>10 DEF TypeOK
<1>12. Held(dirs', image', table') = Held(dirs, image, table)
  BY <1>9, <1>10 DEF Held
<1>13. AllCopies(dirs', image', table', files') \subseteq AllCopies(dirs, image, table, files)
  <2>1. PICK C : C = AllCopies(dirs, image, table, files)
    OBVIOUS
  <2>2. \A s \in Held(dirs', image', table') : DiskCopy(image', s) \in C
    BY <1>10, <1>12, <2>1, CopiesAre
  <2>3. \A j \in Used(table') : EntryCopy(table'[j]) \in C
    BY <1>9, <2>1, CopiesAre
  <2>4. \A g \in Opened(files') : FileCopy(files'[g]) \in C
    BY <1>3, <2>1, CopiesAre
  <2> QED BY ONLY <2>1, <2>2, <2>3, <2>4, CopiesWithin
<1>14. Own(AllCopies(dirs', image', table', files'), freeMap')
  BY <1>1, <1>10, <1>13, OwnFewer
<1>15. Imaged(dirs', image', table', files')
  BY <1>1, <1>3, <1>9, <1>10, <1>12 DEF Imaged
<1>16. Named(dirs', image', table')
  <2>1. \A j \in Used(table) : table'[j].ToBeDeleted = table[j].ToBeDeleted
    BY <1>7, <1>9 DEF Used
  <2>2. \A j \in Used(table') : table'[j].ToBeDeleted => table'[j].sector \notin Reached(dirs', image')
    BY <1>1, <1>9, <1>10, <2>1 DEF Named
  <2>3. \A j \in Used(table') : \/ table'[j].sector \notin Reached(dirs', image')
                                \/ Look(dirs', image', PathOf[table'[j].name]) = table'[j].sector
    BY <1>1, <1>9, <1>10 DEF Named
  <2>4. \A j, k \in Used(table') : table'[j].sector = table'[k].sector => j = k
    BY <1>1, <1>9 DEF Named
  <2> QED BY <2>2, <2>3, <2>4 DEF Named
<1>17. TableCounts'
  <2>1. /\ Cardinality(Users(files', name)) = Cardinality(Users(files, name)) - 1
        /\ \A n : n # name => Users(files', n) = Users(files, n)
    BY <1>1, <1>2, OneLessUser
  <2>2. ASSUME NEW j \in Used(table')
        PROVE  /\ table'[j].numthread > 0
               /\ table'[j].numthread = Cardinality(Users(files', table'[j].name))
    <3>1. CASE j = i
      <4>1. table[i].numthread = Cardinality(Users(files, name))
        BY <1>1, <1>4 DEF Counted
      <4> QED BY <1>4, <1>5, <1>7, <1>9, <2>1, <3>1, <4>1
    <3>2. CASE j # i
      <4>1. table[j].name # name
        BY <1>1, <1>4, <1>9, <3>2 DEF Counted
      <4>2. j \in Used(table) /\ table'[j] = table[j]
        BY <1>9, <3>2 DEF Used
      <4>3. Users(files', table[j].name) = Users(files, table[j].name)
        BY <2>1, <4>1
      <4>4. /\ table[j].numthread > 0
            /\ table[j].numthread = Cardinality(Users(files, table[j].name))
        BY <1>1, <4>2 DEF Counted
      <4> QED BY ONLY <4>2, <4>3, <4>4
    <3> QED BY <3>1, <3>2
  <2>3. ASSUME NEW g \in Opened(files')
        PROVE  \E j \in Used(table') : /\ table'[j].name = files'[g].name
                                       /\ table'[j].sector = files'[g].fSector
    <3>1. PICK j \in Used(table) : table[j].name = files[g].name /\ table[j].sector = files[g].fSector
      BY <1>1, <1>3 DEF Counted
    <3> QED BY <1>3, <1>9, <3>1
  <2>4. \A j, k \in Used(table') : table'[j].name = table'[k].name => j = k
    BY <1>1, <1>9 DEF Counted
  <2>5. Counted(table', files')
    BY <2>2, <2>3, <2>4 DEF Counted
  <2> QED BY <2>5, CountedIs
<1>18. NextSlotFree'
  <2>1. nbentry # ERROR => nbentry \in Slots /\ table[nbentry] = None
    BY <1>1 DEF IInv, NextSlotFree, TypeOK
  <2>2. nbentry # ERROR => nbentry # i
    BY <2>1 DEF Used
  <2> QED BY <1>9, <1>10, <2>1, <2>2 DEF NextSlotFree
<1>19. NoAssertFails' /\ Tree(dirs', image')
  BY <1>1, <1>10 DEF NoAssertFails
<1> QED BY <1>11, <1>14, <1>15, <1>16, <1>17, <1>18, <1>19 DEF IInv

\* SC_CLOSE by the last user: the entry goes, and with it a removed file, the copies of
\* whose header are all gone then.
LEMMA CloseLastStep ==
  ASSUME IInv, NEW h \in Handles, files[h] # None, machine = "on",
         NEW i \in Used(table), i = findl(files[h].name), LastUser(i),
         CloseEntry(i), files' = [files EXCEPT ![h] = None],
         UNCHANGED <<image, dirs, nbentry, machine>>
  PROVE  IInv'
<1>1. /\ TypeOK /\ Tree(dirs, image) /\ Own(AllCopies(dirs, image, table, files), freeMap)
      /\ Imaged(dirs, image, table, files) /\ Named(dirs, image, table)
      /\ Counted(table, files)
  BY CountedIs DEF IInv
<1>2. PICK name : name = files[h].name
  OBVIOUS
<1>3. /\ files' \in [Handles -> OpenFiles \cup {None}]
      /\ \A g \in Opened(files') : g # h /\ g \in Opened(files) /\ files'[g] = files[g]
      /\ \A g \in Opened(files) : g # h => g \in Opened(files')
      /\ h \in Opened(files)
  BY ClosedFile
<1>4. /\ i \in Slots /\ table[i] \in TableEntries /\ table[i].name = name
      /\ table[i].numthread \in Nat /\ i # ERROR
  BY <1>1, <1>2, EntryTypes, FoundEntry, Constants
<1>5. PICK sector : sector = table[i].sector
  OBVIOUS
<1>6. /\ table' \in [Slots -> TableEntries \cup {None}]
      /\ table'[i] = None /\ \A j \in Slots : j # i => table'[j] = table[j]
  <2>1. table' = [j \in Slots |-> IF j # i THEN table[j] ELSE None]
    BY DEF CloseEntry
  <2>2. table \in [Slots -> TableEntries \cup {None}]
    BY <1>1 DEF TypeOK
  <2> QED BY ONLY <1>4, <2>1, <2>2
<1>7. \A j \in Used(table') : j # i /\ j \in Used(table) /\ table'[j] = table[j]
  BY ONLY <1>6 DEF Used
<1>8. \A j \in Used(table) : j # i => j \in Used(table')
  BY ONLY <1>6 DEF Used
<1>9. dirs' = dirs /\ image' = image /\ nbentry' = nbentry /\ machine' = machine
  OBVIOUS
<1>10. PICK c : c = EntryCopy(table[i])
  OBVIOUS
<1>11. PICK C : C = AllCopies(dirs, image, table, files)
  OBVIOUS
<1>12. /\ c \in C /\ c.sector = sector /\ c.hdr = table[i].file /\ Own(C, freeMap)
       /\ Owned(c) = SectorsOf(table[i].file) \cup {sector}
  BY <1>1, <1>5, <1>10, <1>11, CopiesAre DEF EntryCopy, Owned
<1>13. /\ Users(files', name) = {}
       /\ \A n : n # name => Users(files', n) = Users(files, n)
  <2>1. /\ Cardinality(Users(files', name)) = Cardinality(Users(files, name)) - 1
        /\ \A n : n # name => Users(files', n) = Users(files, n)
        /\ Cardinality(Users(files', name)) \in Nat
        /\ Cardinality(Users(files', name)) = 0 => Users(files', name) = {}
    BY <1>1, <1>2, OneLessUser
  <2>2. table[i].numthread > 0 /\ table[i].numthread = Cardinality(Users(files, name))
    BY <1>1, <1>4 DEF Counted
  <2>3. table[i].numthread <= 1
    BY DEF LastUser
  <2>4. Cardinality(Users(files', name)) = 0
    BY ONLY <1>4, <2>1, <2>2, <2>3
  <2> QED BY ONLY <2>1, <2>4
<1>14. ASSUME NEW g \in Opened(files')
       PROVE  \E j \in Used(table') : /\ table'[j].name = files'[g].name
                                      /\ table'[j].sector = files'[g].fSector
  <2>1. g \in Opened(files) /\ files'[g] = files[g] /\ files'[g].name # name
    BY <1>3, <1>13 DEF Users, Opened
  <2>2. PICK j \in Used(table) : table[j].name = files[g].name /\ table[j].sector = files[g].fSector
    BY <1>1, <2>1 DEF Counted
  <2>3. j # i
    BY ONLY <1>4, <2>1, <2>2
  <2>4. j \in Used(table') /\ table'[j] = table[j]
    BY ONLY <1>7, <1>8, <2>2, <2>3
  <2> QED BY ONLY <2>1, <2>2, <2>4
<1>15. \A j \in Used(table') : table'[j].sector # sector
  BY <1>1, <1>5, <1>7 DEF Named
<1>16. \A g \in Opened(files') : files'[g].fSector # sector
  BY ONLY <1>14, <1>15
<1>17. Held(dirs', image', table') \subseteq Held(dirs, image, table)
  BY ONLY <1>7, <1>9 DEF Held
<1>18. /\ \A s \in Held(dirs', image', table') : DiskCopy(image', s) \in C
       /\ \A j \in Used(table') : EntryCopy(table'[j]) \in C
       /\ \A g \in Opened(files') : FileCopy(files'[g]) \in C
  BY ONLY <1>3, <1>7, <1>9, <1>11, <1>17, CopiesAre
<1>19. Own(AllCopies(dirs', image', table', files'), freeMap') /\ freeMap' \subseteq freeMap
  <2>1. PICK D : D = AllCopies(dirs', image', table', files')
    OBVIOUS
  <2>2. D \subseteq C
    BY ONLY <1>18, <2>1, CopiesWithin
  <2>3. freeMap' = IF table[i].ToBeDeleted THEN freeMap \ Owned(c) ELSE freeMap
    BY <1>5, <1>12 DEF CloseEntry, MapWithout, EntryFrees, Deallocated
  <2>4. CASE table[i].ToBeDeleted
    <3>1. sector \notin Reached(dirs', image')
      BY <1>1, <1>5, <1>9, <2>4 DEF Named
    <3>2. \A s \in Held(dirs', image', table') : s # sector
      BY ONLY <1>15, <3>1 DEF Held
    <3>3. PICK E : E = {e \in C : e.sector # sector}
      OBVIOUS
    <3>4. /\ \A s \in Held(dirs', image', table') : DiskCopy(image', s) \in E
          /\ \A j \in Used(table') : EntryCopy(table'[j]) \in E
          /\ \A g \in Opened(files') : FileCopy(files'[g]) \in E
      BY ONLY <1>15, <1>16, <1>18, <3>2, <3>3 DEF DiskCopy, EntryCopy, FileCopy
    <3>5. D \subseteq E
      BY ONLY <2>1, <3>4, CopiesWithin
    <3>6. \A e \in D : e.sector # c.sector
      BY ONLY <1>12, <3>3, <3>5
    <3>7. Own(D, freeMap \ Owned(c))
      BY ONLY <1>12, <2>2, <3>6, OwnFreed
    <3> QED BY ONLY <2>1, <2>3, <2>4, <3>7
  <2>5. CASE ~table[i].ToBeDeleted
    <3>1. Own(D, freeMap)
      BY ONLY <1>12, <2>2, OwnFewer
    <3> QED BY ONLY <2>1, <2>3, <2>5, <3>1
  <2> QED BY ONLY <2>4, <2>5
<1>20. TypeOK'
  <2>1. freeMap' \subseteq Sectors
    BY <1>1, <1>19 DEF TypeOK
  <2> QED BY <1>1, <1>3, <1>6, <1>9, <2>1 DEF TypeOK
<1>21. Imaged(dirs', image', table', files')
  BY ONLY <1>1, <1>3, <1>7, <1>9, <1>17 DEF Imaged
<1>22. Named(dirs', image', table')
  BY ONLY <1>1, <1>7, <1>9 DEF Named
<1>23. TableCounts'
  <2>1. ASSUME NEW j \in Used(table')
        PROVE  /\ table'[j].numthread > 0
               /\ table'[j].numthread = Cardinality(Users(files', table'[j].name))
    <3>1. j \in Used(table) /\ j # i /\ table'[j] = table[j]
      BY ONLY <1>7, <2>1
    <3>2. table[j].name # name
      BY <1>1, <1>4, <3>1 DEF Counted
    <3>3. Users(files', table[j].name) = Users(files, table[j].name)
      BY ONLY <1>13, <3>2
    <3>4. /\ table[j].numthread > 0
          /\ table[j].numthread = Cardinality(Users(files, table[j].name))
      BY <1>1, <3>1 DEF Counted
    <3> QED BY ONLY <3>1, <3>3, <3>4
  <2>2. \A j, k \in Used(table') : table'[j].name = table'[k].name => j = k
    BY ONLY <1>1, <1>7 DEF Counted
  <2>3. Counted(table', files')
    BY ONLY <1>14, <2>1, <2>2 DEF Counted
  <2> QED BY ONLY <2>3, CountedIs
<1>24. NextSlotFree'
  <2>1. nbentry # ERROR => nbentry \in Slots /\ table[nbentry] = None
    BY <1>1 DEF IInv, NextSlotFree, TypeOK
  <2>2. nbentry # ERROR => nbentry # i
    BY <2>1 DEF Used
  <2> QED BY <1>6, <1>9, <2>1, <2>2 DEF NextSlotFree
<1>25. NoAssertFails' /\ Tree(dirs', image')
  BY <1>1, <1>9 DEF NoAssertFails
<1> QED BY <1>19, <1>20, <1>21, <1>22, <1>23, <1>24, <1>25 DEF IInv

\* SC_CLOSE: what the destructor of an entry frees is marked.
LEMMA CloseStep ==
  ASSUME IInv, NEW h \in Handles, Close(h)
  PROVE  IInv'
<1>1. machine = "on" /\ files[h] # None /\ h \in Opened(files)
  BY DEF Close, Opened
<1>2. PICK i : i = findl(files[h].name)
  OBVIOUS
<1>3. i \in Used(table)
  BY <1>1, <1>2, HasEntry DEF IInv
<1>4. CanDeallocate(table[i].file)
  <2>1. PICK c : c = EntryCopy(table[i])
    OBVIOUS
  <2>2. c \in AllCopies(dirs, image, table, files) /\ c.hdr = table[i].file
    BY <1>3, <2>1, CopiesAre DEF EntryCopy
  <2>3. Owned(c) \subseteq freeMap
    BY <2>2 DEF IInv, Own
  <2> QED BY <2>2, <2>3 DEF CanDeallocate, Owned
<1>5. /\ CloseEntry(i) /\ files' = [files EXCEPT ![h] = None]
      /\ UNCHANGED <<image, dirs, nbentry, machine>>
  BY <1>2, <1>4 DEF Close
<1>6. CASE LastUser(i)
  BY <1>1, <1>2, <1>3, <1>5, <1>6, CloseLastStep
<1>7. CASE ~LastUser(i)
  BY <1>1, <1>2, <1>3, <1>5, <1>7, CloseSharedStep
<1> QED BY <1>6, <1>7

---------------------------------------------------------------------------
(* Steps: reading and writing *)

\* OpenFile::ReadAt changes nothing, unless it uses a sector number that was never
\* assigned.
LEMMA ReadStep ==
  ASSUME IInv, NEW h \in Handles, NEW position, NEW n, Read(h, position, n)
  PROVE  IInv'
<1>1. /\ machine' = machine \/ machine' = "undefined"
      /\ freeMap' = freeMap /\ image' = image /\ dirs' = dirs /\ table' = table
      /\ nbentry' = nbentry /\ files' = files
  BY DEF Read, diskVars, tableVars
<1>2. TypeOK'
  BY <1>1 DEF IInv, TypeOK
<1>3. TableCounts'
  BY <1>1, CountedIs DEF IInv
<1>4. NextSlotFree' /\ NoAssertFails'
  BY <1>1 DEF IInv, NextSlotFree, NoAssertFails
<1> QED BY <1>1, <1>2, <1>3, <1>4 DEF IInv

\* What an open file's header may become: it keeps its sectors and takes clear ones.
LEMMA NewHeader ==
  ASSUME Limits, NEW hdr, Whole(hdr), ~hdr.isdir, NEW map, SectorsOf(hdr) \subseteq map,
         NEW end \in 0..MaxFileSize, NEW new,
         \/ new = reAllocate(map, hdr, end) /\ CanReAllocate(map, hdr, end)
         \/ \E size \in Nat : new = [hdr EXCEPT !.numBytes = size]
  PROVE  /\ Whole(new) /\ new \in Headers /\ new.isdir = hdr.isdir
         /\ SectorsOf(new) \subseteq SectorsOf(hdr) \cup (Sectors \ map)
         /\ (\E size \in Nat : new = [hdr EXCEPT !.numBytes = size]) => SectorsOf(new) \subseteq map
<1>1. end \in Nat /\ FitsFirst(end)
  BY Constants DEF Limits, HeadersFit
<1>2. hdr \in Headers /\ hdr.numBytes \in Nat
  BY DEF Whole, Headers
<1>3. ASSUME new = reAllocate(map, hdr, end) /\ CanReAllocate(map, hdr, end)
      PROVE  /\ Whole(new) /\ new.isdir = hdr.isdir
             /\ SectorsOf(new) \subseteq SectorsOf(hdr) \cup (Sectors \ map)
  <2>1. /\ Whole(reAllocate(map, hdr, end)) /\ reAllocate(map, hdr, end).isdir = hdr.isdir
        /\ SectorsOf(reAllocate(map, hdr, end)) \subseteq SectorsOf(hdr) \cup (Sectors \ map)
    BY ONLY <1>1, <1>3, Whole(hdr), ~hdr.isdir, Grown
  <2> QED BY ONLY <1>3, <2>1
<1>4. ASSUME NEW size \in Nat, new = [hdr EXCEPT !.numBytes = size]
      PROVE  Whole(new) /\ new.isdir = hdr.isdir /\ SectorsOf(new) = SectorsOf(hdr)
  BY ONLY <1>4, Whole(hdr), Resized
<1>5. /\ Whole(new) /\ new.isdir = hdr.isdir
      /\ SectorsOf(new) \subseteq SectorsOf(hdr) \cup (Sectors \ map)
  BY <1>3, <1>4
<1>6. (\E size \in Nat : new = [hdr EXCEPT !.numBytes = size]) => SectorsOf(new) \subseteq map
  BY <1>4
<1>7. new \in Headers
  BY <1>5 DEF Whole
<1> QED BY <1>5, <1>6, <1>7

\* A transfer goes through sectors of the file.
LEMMA WrittenSectors ==
  ASSUME NEW hdr, Whole(hdr), NEW position \in Nat, NEW count, Assigned(hdr, position, count)
  PROVE  {hdr.dataSectors[i + 1] : i \in Span(position, count)} \subseteq SectorsOf(hdr)
<1>1. PICK m \in Nat : m = Len(hdr.dataSectors)
  BY DEF Whole
<1>2. ASSUME NEW i \in Span(position, count)
      PROVE  hdr.dataSectors[i + 1] \in SectorsOf(hdr)
  <2>1. PICK a \in Nat : a = position \div SectorSize
    BY SectorCounts
  <2>2. PICK b : b = (position + count - 1) \div SectorSize
    OBVIOUS
  <2>3. i \in a..b
    BY <1>2, <2>1, <2>2 DEF Span
  <2>4. i < m
    BY <1>1, <1>2 DEF Assigned
  <2>5. i + 1 \in 1..m
    BY ONLY <1>1, <2>1, <2>3, <2>4
  <2> QED BY <1>1, <2>5 DEF SectorsOf
<1> QED BY <1>2

\* OpenFile::WriteAt overwrites no header in use with data.
LEMMA HeadersKept ==
  ASSUME IInv, NEW h \in Opened(files), NEW new,
         SectorsOf(new) \subseteq SectorsOf(files[h].hdr) \cup (Sectors \ freeMap)
  PROVE  \A s \in Held(dirs, image, table) : s \in Sectors /\ s \notin SectorsOf(new)
<1>1. TypeOK /\ Own(AllCopies(dirs, image, table, files), freeMap)
  BY DEF IInv
<1>2. PICK C : C = AllCopies(dirs, image, table, files)
  OBVIOUS
<1>3. PICK c : c = FileCopy(files[h])
  OBVIOUS
<1>4. c \in C /\ c.hdr = files[h].hdr /\ Own(C, freeMap)
  BY <1>1, <1>2, <1>3, CopiesAre DEF FileCopy
<1>5. c.sector \notin SectorsOf(c.hdr) /\ SectorsOf(c.hdr) \subseteq Owned(c)
  BY <1>4 DEF Own, Owned
<1>6. SUFFICES ASSUME NEW s \in Held(dirs, image, table)
               PROVE  s \in Sectors /\ s \notin SectorsOf(new)
  OBVIOUS
<1>7. s \in freeMap /\ s \in Sectors
  BY <1>1, <1>6, HeldMarked DEF TypeOK
<1>8. s \notin SectorsOf(c.hdr)
  <2>1. CASE s = c.sector
    BY <1>5, <2>1
  <2>2. CASE s # c.sector
    <3>1. PICK d : d = DiskCopy(image, s)
      OBVIOUS
    <3>2. d \in C /\ d.sector = s /\ s \in Owned(d)
      BY <1>2, <1>6, <3>1, CopiesAre DEF DiskCopy, Owned
    <3>3. Owned(d) \cap Owned(c) = {}
      BY <1>4, <2>2, <3>2 DEF Own
    <3> QED BY <1>5, <3>2, <3>3
  <2> QED BY <2>1, <2>2
<1> QED BY <1>4, <1>7, <1>8

\* OpenFile::WriteAt, when it is known what the header becomes.
LEMMA WrittenStep ==
  ASSUME IInv, NEW h \in Opened(files), NEW new, Whole(new), new \in Headers,
         new.isdir = files[h].hdr.isdir,
         SectorsOf(new) \subseteq SectorsOf(files[h].hdr) \cup (Sectors \ freeMap),
         files' = [files EXCEPT ![h].hdr = new],
         freeMap' = freeMap \cup SectorsOf(new),
         image' \in [Sectors -> Images \cup {None}],
         \A s \in Held(dirs, image, table) :
           \/ image'[s] = image[s]
           \/ s = files[h].fSector /\ image'[s] = WriteBack(new),
         machine' = machine \/ machine' = "undefined",
         dirs' = dirs, table' = table, nbentry' = nbentry
  PROVE  IInv'
<1>1. /\ TypeOK /\ Tree(dirs, image) /\ Own(AllCopies(dirs, image, table, files), freeMap)
      /\ Imaged(dirs, image, table, files) /\ Named(dirs, image, table)
      /\ Counted(table, files) /\ TableCounts
  BY CountedIs DEF IInv
<1>2. PICK f : f = [files[h] EXCEPT !.hdr = new]
  OBVIOUS
<1>3. files[h] \in OpenFiles /\ h \in Handles
  BY <1>1, EntryTypes
<1>4. f \in OpenFiles /\ f.name = files[h].name /\ f.fSector = files[h].fSector /\ f.hdr = new
  BY <1>2, <1>3 DEF OpenFiles
<1>5. f # None
  BY <1>4, NoneAssumption
<1>6. /\ files' \in [Handles -> OpenFiles \cup {None}]
      /\ files'[h] = f /\ \A g \in Handles : g # h => files'[g] = files[g]
  <2>1. files' = [files EXCEPT ![h] = f]
    BY <1>2
  <2>2. files \in [Handles -> OpenFiles \cup {None}]
    BY <1>1 DEF TypeOK
  <2> QED BY ONLY <1>3, <1>4, <2>1, <2>2
<1>7. /\ Opened(files') = Opened(files)
      /\ \A g \in Opened(files) : /\ files'[g].name = files[g].name
                                  /\ files'[g].fSector = files[g].fSector
                                  /\ g # h => files'[g] = files[g]
  BY ONLY <1>3, <1>4, <1>5, <1>6, h \in Opened(files) DEF Opened
<1>8. PICK sector : sector = files[h].fSector
  OBVIOUS
<1>9. PICK i \in Used(table) : table[i].sector = sector
  BY <1>1, <1>8, HasEntry
<1>10. sector \in Held(dirs, image, table) /\ ~image[sector].isdir /\ ~new.isdir
  BY <1>1, <1>9, CopiesAre DEF Imaged
<1>11. ~WriteBack(new).isdir /\ WriteBack(new) # None
  BY <1>10, Written
<1>12. \A s \in Held(dirs, image, table) : /\ image[s] # None /\ image'[s] # None
                                           /\ image'[s].isdir <=> image[s].isdir
  <2>1. ASSUME NEW s \in Held(dirs, image, table)
        PROVE  image[s] # None /\ image'[s] # None /\ (image'[s].isdir <=> image[s].isdir)
    <3>1. image[s] # None
      BY <1>1 DEF Imaged
    <3>2. CASE image'[s] = image[s]
      BY ONLY <3>1, <3>2
    <3>3. CASE s = sector /\ image'[s] = WriteBack(new)
      BY ONLY <1>10, <1>11, <3>1, <3>3
    <3> QED BY <1>8, <3>2, <3>3
  <2> QED BY ONLY <2>1
<1>13. \A p \in Paths : Look(dirs, image, p) # None =>
         AsDir(image', Look(dirs, image, p)) = AsDir(image, Look(dirs, image, p))
  <2>1. \A p \in Paths : Look(dirs, image, p) # None => Look(dirs, image, p) \in Held(dirs, image, table)
    BY ONLY TRUE DEF Held, Reached
  <2> QED BY ONLY <1>12, <2>1 DEF AsDir
<1>14. /\ \A p \in Paths : Look(dirs, image', p) = Look(dirs, image, p)
       /\ Reached(dirs, image') = Reached(dirs, image)
       /\ Tree(dirs, image')
  BY ONLY <1>1, <1>13, SamePaths
<1>15. /\ \A p \in Paths : Look(dirs', image', p) = Look(dirs, image, p)
       /\ Reached(dirs', image') = Reached(dirs, image)
       /\ Tree(dirs', image')
  BY <1>14
<1>16. Held(dirs', image', table') = Held(dirs, image, table)
  BY <1>15 DEF Held
<1>17. Own(AllCopies(dirs', image', table', files'), freeMap')
  <2>1. PICK C : C = AllCopies(dirs, image, table, files)
    OBVIOUS
  <2>2. PICK o : o = FileCopy(files[h])
    OBVIOUS
  <2>3. /\ o \in C /\ o.sector = sector /\ o.hdr = files[h].hdr /\ Own(C, freeMap)
        /\ Owned(o) = {sector} \cup SectorsOf(files[h].hdr)
    BY <1>1, <1>8, <2>1, <2>2, CopiesAre DEF FileCopy, Owned
  <2>4. PICK c : c = FileCopy(f)
    OBVIOUS
  <2>5. c.sector = sector /\ c.hdr = new /\ Owned(c) = {sector} \cup SectorsOf(new)
    BY <1>4, <1>8, <2>4 DEF FileCopy, Owned
  <2>6. Owned(o) \subseteq freeMap /\ sector \notin SectorsOf(files[h].hdr)
    BY ONLY <2>3 DEF Own
  <2>7. c.sector \notin SectorsOf(c.hdr) /\ freeMap' = freeMap \cup Owned(c)
    BY <2>3, <2>5, <2>6
  <2>8. \A x \in Owned(c) : x \in Sectors \ freeMap \/ (o.sector = c.sector /\ x \in Owned(o))
    BY <2>3, <2>5
  <2>9. FetchFrom(WriteBack(new)) = new
    BY ReadBack
  <2>10. ASSUME NEW s \in Held(dirs, image, table)
         PROVE  DiskCopy(image', s) \in C \cup {c}
    <3>1. CASE image'[s] = image[s]
      <4>1. DiskCopy(image', s) = DiskCopy(image, s)
        BY ONLY <3>1 DEF DiskCopy
      <4> QED BY ONLY <2>1, <2>10, <4>1, CopiesAre
    <3>2. CASE s = sector /\ image'[s] = WriteBack(new)
      <4>1. DiskCopy(image', s) = c
        BY ONLY <1>4, <1>8, <2>4, <2>9, <3>2 DEF DiskCopy, FileCopy
      <4> QED BY ONLY <4>1
    <3> QED BY <1>8, <3>1, <3>2
  <2>11. \A s \in Held(dirs', image', table') : DiskCopy(image', s) \in C \cup {c}
    BY ONLY <1>16, <2>10
  <2>12. \A j \in Used(table') : EntryCopy(table'[j]) \in C \cup {c}
    BY <2>1, CopiesAre
  <2>13. \A g \in Opened(files') : FileCopy(files'[g]) \in C \cup {c}
    BY ONLY <1>6, <1>7, <2>1, <2>4, CopiesAre
  <2>14. PICK D : D = AllCopies(dirs', image', table', files')
    OBVIOUS
  <2>15. D \subseteq C \cup {c}
    BY ONLY <2>11, <2>12, <2>13, <2>14, CopiesWithin
  <2>16. Whole(c.hdr)
    BY <2>5
  <2>17. \A x \in Owned(c) : \/ x \in Sectors \ freeMap
                             \/ \E e \in C : e.sector = c.sector /\ x \in Owned(e)
    BY ONLY <2>3, <2>8
  <2>18. Own(D, freeMap \cup Owned(c))
    BY ONLY <2>3, <2>7, <2>15, <2>16, <2>17, OwnAdded
  <2> QED BY ONLY <2>7, <2>14, <2>18
<1>18. TypeOK'
  <2>1. freeMap' \subseteq Sectors
    <3>1. SectorsOf(files[h].hdr) \subseteq freeMap
      <4>1. PICK c : c = FileCopy(files[h])
        OBVIOUS
      <4>2. c \in AllCopies(dirs, image, table, files) /\ c.hdr = files[h].hdr
        BY <4>1, CopiesAre DEF FileCopy
      <4> QED BY ONLY <1>1, <4>2 DEF Own, Owned
    <3> QED BY <1>1, <3>1 DEF TypeOK
  <2> QED BY <1>1, <1>6, <2>1 DEF TypeOK
<1>19. Imaged(dirs', image', table', files')
  <2>1. \A s \in Held(dirs', image', table') : image'[s] # None
    BY ONLY <1>12, <1>16
  <2>2. \A j \in Used(table') : ~image'[table'[j].sector].isdir
    <3>1. \A j \in Used(table) : ~image[table[j].sector].isdir /\ table[j].sector \in Held(dirs, image, table)
      BY ONLY <1>1, CopiesAre DEF Imaged
    <3> QED BY <1>12, <3>1
  <2>3. \A g \in Opened(files') : ~files'[g].hdr.isdir
    BY ONLY <1>1, <1>4, <1>6, <1>7, <1>10 DEF Imaged
  <2> QED BY ONLY <2>1, <2>2, <2>3 DEF Imaged
<1>20. Named(dirs', image', table')
  <2>1. \A j \in Used(table) : PathOf[table[j].name] \in Paths
    BY ONLY <1>1, EntryTypes
  <2> QED BY <1>1, <1>15, <2>1 DEF Named
<1>21. TableCounts'
  <2>1. \A n : Users(files', n) = Users(files, n)
    BY ONLY <1>7 DEF Users, Opened
  <2>2. \A j \in Used(table') : /\ table'[j].numthread > 0
                                /\ table'[j].numthread = Cardinality(Users(files', table'[j].name))
    BY <1>1, <2>1 DEF Counted
  <2>3. ASSUME NEW g \in Opened(files')
        PROVE  \E j \in Used(table') : /\ table'[j].name = files'[g].name
                                       /\ table'[j].sector = files'[g].fSector
    <3>1. g \in Opened(files) /\ files'[g].name = files[g].name /\ files'[g].fSector = files[g].fSector
      BY ONLY <1>7, <2>3
    <3>2. PICK j \in Used(table) : table[j].name = files[g].name /\ table[j].sector = files[g].fSector
      BY <1>1, <3>1 DEF Counted
    <3> QED BY <3>1, <3>2
  <2>4. \A j, k \in Used(table') : table'[j].name = table'[k].name => j = k
    BY <1>1 DEF Counted
  <2>5. Counted(table', files')
    BY ONLY <2>2, <2>3, <2>4 DEF Counted
  <2> QED BY ONLY <2>5, CountedIs
<1>22. NextSlotFree' /\ NoAssertFails'
  BY DEF IInv, NextSlotFree, NoAssertFails
<1> QED BY <1>15, <1>17, <1>18, <1>19, <1>20, <1>21, <1>22 DEF IInv

\* OpenFile::WriteAt.
LEMMA WriteStep ==
  ASSUME IInv, NEW h \in Handles, NEW position \in Positions, NEW n \in Lengths(position),
         Write(h, position, n)
  PROVE  IInv'
<1> DEFINE hdr == files[h].hdr
           len == hdr.numBytes
           end == position + n
           grow == end > MaxFileLength(hdr)
           ok == grow => CanReAllocate(freeMap, hdr, end)
           newhdr == IF grow /\ ok THEN reAllocate(freeMap, hdr, end)
                     ELSE [hdr EXCEPT !.numBytes = IF grow \/ end > len THEN end ELSE len]
           count == IF ok THEN n ELSE len - position
           written == {newhdr.dataSectors[i + 1] : i \in Span(position, count)} \cup
                      (IF grow /\ ok THEN FurtherHeaders(newhdr) ELSE {})
<1>1. TypeOK /\ Limits /\ Own(AllCopies(dirs, image, table, files), freeMap)
  BY DEF IInv
<1>2. /\ files[h] # None
      /\ files' = [files EXCEPT ![h].hdr = newhdr]
      /\ freeMap' = IF grow /\ ok THEN freeMap \cup (SectorsOf(newhdr) \ SectorsOf(hdr))
                    ELSE freeMap
      /\ IF Assigned(newhdr, position, count)
         THEN /\ image' = [s \in Sectors |->
                             IF s \in written THEN None
                             ELSE IF grow /\ ok /\ s = files[h].fSector THEN WriteBack(newhdr)
                             ELSE image[s]]
              /\ machine' = machine
         ELSE machine' = "undefined" /\ image' = image
      /\ dirs' = dirs /\ table' = table /\ nbentry' = nbentry
  BY DEF Write, tableVars
<1>3. h \in Opened(files)
  BY <1>2 DEF Opened
<1>4. Whole(hdr) /\ SectorsOf(hdr) \subseteq freeMap
  <2>1. PICK c : c = FileCopy(files[h])
    OBVIOUS
  <2>2. c \in AllCopies(dirs, image, table, files) /\ c.hdr = hdr
    BY <1>3, <2>1, CopiesAre DEF FileCopy
  <2> QED BY ONLY <1>1, <2>2 DEF Own, Owned
<1>5. position \in Nat /\ end \in 0..MaxFileSize /\ len \in Nat
  BY <1>4, Constants DEF Positions, Lengths, Whole, Headers
<1>6. PICK new : new = newhdr
  OBVIOUS
<1>7. \/ /\ new = reAllocate(freeMap, hdr, end) /\ CanReAllocate(freeMap, hdr, end)
         /\ freeMap' = freeMap \cup (SectorsOf(new) \ SectorsOf(hdr))
      \/ (\E size \in Nat : new = [hdr EXCEPT !.numBytes = size]) /\ freeMap' = freeMap
  <2>1. CASE grow /\ ok
    BY <1>2, <1>6, <2>1
  <2>2. CASE ~(grow /\ ok)
    <3>1. PICK size \in Nat : size = IF grow \/ end > len THEN end ELSE len
      BY <1>5
    <3>2. new = [hdr EXCEPT !.numBytes = size]
      BY <1>6, <2>2, <3>1
    <3> QED BY <1>2, <2>2, <3>2
  <2> QED BY <2>1, <2>2
<1>8. \/ machine' = "undefined" /\ image' = image
      \/ /\ Assigned(new, position, count) /\ machine' = machine
         /\ \E w : /\ w \subseteq {new.dataSectors[i + 1] : i \in Span(position, count)} \cup
                                 FurtherHeaders(new)
                   /\ image' \in [Sectors -> {None, WriteBack(new)} \cup {image[s] : s \in Sectors}]
                   /\ \A s \in Sectors : \/ s \in w
                                         \/ image'[s] = image[s]
                                         \/ s = files[h].fSector /\ image'[s] = WriteBack(new)
  <2>1. CASE Assigned(newhdr, position, count)
    <3>1. PICK w : w = written
      OBVIOUS
    <3>2. image' = [s \in Sectors |-> IF s \in w THEN None
                                      ELSE IF grow /\ ok /\ s = files[h].fSector THEN WriteBack(new)
                                      ELSE image[s]]
      BY <1>2, <1>6, <2>1, <3>1
    <3>3. w \subseteq {new.dataSectors[i + 1] : i \in Span(position, count)} \cup FurtherHeaders(new)
      BY <1>6, <3>1
    <3> HIDE DEF grow, ok
    <3>4. image' \in [Sectors -> {None, WriteBack(new)} \cup {image[s] : s \in Sectors}]
      BY ONLY <3>2
    <3>5. \A s \in Sectors : \/ s \in w
                             \/ image'[s] = image[s]
                             \/ s = files[h].fSector /\ image'[s] = WriteBack(new)
      BY ONLY <3>2
    <3> QED BY <1>2, <1>6, <2>1, <3>3, <3>4, <3>5
  <2>2. CASE ~Assigned(newhdr, position, count)
    BY <1>2, <2>2
  <2> QED BY <2>1, <2>2
<1>9. /\ files' = [files EXCEPT ![h].hdr = new]
      /\ dirs' = dirs /\ table' = table /\ nbentry' = nbentry
  BY <1>2, <1>6
<1>10. PICK old : old = files[h].hdr
  OBVIOUS
<1>11. PICK e \in 0..MaxFileSize : e = end
  BY <1>5
<1>12. /\ Whole(new) /\ new \in Headers /\ new.isdir = old.isdir
       /\ SectorsOf(new) \subseteq SectorsOf(old) \cup (Sectors \ freeMap)
       /\ (\E size \in Nat : new = [old EXCEPT !.numBytes = size]) => SectorsOf(new) \subseteq freeMap
  <2>1. Whole(old) /\ SectorsOf(old) \subseteq freeMap /\ ~old.isdir
    BY <1>3, <1>4, <1>10 DEF IInv, Imaged
  <2>2. \/ new = reAllocate(freeMap, old, e) /\ CanReAllocate(freeMap, old, e)
        \/ \E size \in Nat : new = [old EXCEPT !.numBytes = size]
    BY <1>7, <1>10, <1>11
  <2> HIDE DEF hdr, len, end, grow, ok, newhdr, count, written
  <2> QED BY ONLY <1>1, <2>1, <2>2, NewHeader
<1>13. freeMap' = freeMap \cup SectorsOf(new)
  <2>1. CASE freeMap' = freeMap \cup (SectorsOf(new) \ SectorsOf(hdr))
    BY <1>4, <2>1
  <2>2. CASE (\E size \in Nat : new = [old EXCEPT !.numBytes = size]) /\ freeMap' = freeMap
    BY <1>12, <2>2
  <2> QED BY <1>7, <1>10, <2>1, <2>2
<1> HIDE DEF hdr, len, end, grow, ok, newhdr, count, written
<1>14. /\ new.isdir = files[h].hdr.isdir
       /\ SectorsOf(new) \subseteq SectorsOf(files[h].hdr) \cup (Sectors \ freeMap)
  BY ONLY <1>10, <1>12
<1>15. /\ image' \in [Sectors -> Images \cup {None}]
       /\ \A s \in Held(dirs, image, table) :
            \/ image'[s] = image[s]
            \/ s = files[h].fSector /\ image'[s] = WriteBack(new)
  <2>1. image \in [Sectors -> Images \cup {None}] /\ WriteBack(new) \in Images
    BY <1>1, <1>12, Written DEF TypeOK
  <2>2. CASE image' = image
    BY ONLY <2>1, <2>2
  <2>3. CASE /\ Assigned(new, position, count)
             /\ \E w : /\ w \subseteq {new.dataSectors[i + 1] : i \in Span(position, count)} \cup
                                     FurtherHeaders(new)
                       /\ image' \in [Sectors -> {None, WriteBack(new)} \cup {image[s] : s \in Sectors}]
                       /\ \A s \in Sectors : \/ s \in w
                                             \/ image'[s] = image[s]
                                             \/ s = files[h].fSector /\ image'[s] = WriteBack(new)
    <3>1. PICK w : /\ w \subseteq {new.dataSectors[i + 1] : i \in Span(position, count)} \cup
                                  FurtherHeaders(new)
                   /\ image' \in [Sectors -> {None, WriteBack(new)} \cup {image[s] : s \in Sectors}]
                   /\ \A s \in Sectors : \/ s \in w
                                         \/ image'[s] = image[s]
                                         \/ s = files[h].fSector /\ image'[s] = WriteBack(new)
      BY ONLY <2>3
    <3>2. w \subseteq SectorsOf(new)
      <4>1. {new.dataSectors[i + 1] : i \in Span(position, count)} \subseteq SectorsOf(new)
        BY ONLY <1>5, <1>12, <2>3, WrittenSectors
      <4>2. FurtherHeaders(new) \subseteq SectorsOf(new)
        BY ONLY DEF FurtherHeaders, SectorsOf
      <4> QED BY ONLY <3>1, <4>1, <4>2
    <3>3. \A s \in Held(dirs, image, table) : s \in Sectors /\ s \notin SectorsOf(new)
      BY ONLY IInv, <1>3, <1>14, HeadersKept
    <3>4. image' \in [Sectors -> Images \cup {None}]
      BY ONLY <2>1, <3>1
    <3> QED BY ONLY <3>1, <3>2, <3>3, <3>4
  <2> QED BY ONLY <1>8, <2>2, <2>3
<1>16. machine' = machine \/ machine' = "undefined"
  BY ONLY <1>8
<1> QED BY ONLY IInv, <1>3, <1>9, <1>12, <1>13, <1>14, <1>15, <1>16, WrittenStep

---------------------------------------------------------------------------
(* The invariant *)

\* FileSystem(true): a formatted disk has an empty root directory.
LEMMA InitStep ==
  ASSUME Limits, Init
  PROVE  IInv
<1>1. PICK map : map = MapHeader
  OBVIOUS
<1>2. PICK root : root = RootHeader
  OBVIOUS
<1>3. map \in Headers /\ SectorsOf(map) \subseteq Sectors
  <2>1. FALSE \in BOOLEAN /\ FreeMapFileSize \in Nat /\ CanAllocate(FormatMap, FreeMapFileSize)
    BY Constants DEF Init
  <2>2. /\ Allocate(FormatMap, FALSE, FreeMapFileSize) \in Headers
        /\ SectorsOf(Allocate(FormatMap, FALSE, FreeMapFileSize)) \subseteq Sectors \ FormatMap
    BY ONLY <2>1, Allocated
  <2> QED BY <1>1, <2>2 DEF MapHeader
<1>4. root \in Headers /\ root.isdir = TRUE /\ SectorsOf(root) \subseteq Sectors
  <2>1. PICK used : used = FormatMap \cup SectorsOf(MapHeader)
    OBVIOUS
  <2>2. TRUE \in BOOLEAN /\ DirectoryFileSize \in Nat /\ CanAllocate(used, DirectoryFileSize)
    BY <2>1, Constants DEF Init
  <2>3. /\ Allocate(used, TRUE, DirectoryFileSize) \in Headers
        /\ Allocate(used, TRUE, DirectoryFileSize).isdir = TRUE
        /\ SectorsOf(Allocate(used, TRUE, DirectoryFileSize)) \subseteq Sectors \ used
    BY ONLY <2>2, Allocated
  <2> QED BY <1>2, <2>1, <2>3 DEF RootHeader
<1>5. /\ freeMap = Reserved /\ table = EmptyTable /\ nbentry = 0 /\ files = NoFiles
      /\ machine = "on"
      /\ image = [s \in Sectors |-> CASE s = FreeMapSector -> WriteBack(map)
                                      [] s = DirectorySector -> WriteBack(root)
                                      [] OTHER -> None]
      /\ dirs = [s \in Sectors |-> IF s = DirectorySector THEN EmptyDir ELSE None]
  BY <1>1, <1>2 DEF Init
<1>6. DirectorySector \in Sectors /\ FreeMapSector \in Sectors /\ DirectorySector # None
  BY Constants
<1>7. WriteBack(map) \in Images /\ WriteBack(root) \in Images
  BY <1>3, <1>4, Written
<1>8. EmptyDir \in Directories /\ \A x \in Names : EmptyDir[x] = None
  BY DEF EmptyDir, Directories
<1>9. Used(table) = {} /\ Opened(files) = {} /\ \A i \in Slots : table[i] = None
  BY <1>5 DEF EmptyTable, NoFiles, Used, Opened
<1>10. TypeOK
  <2>1. freeMap \subseteq Sectors
    BY <1>1, <1>2, <1>3, <1>4, <1>5, <1>6 DEF Reserved, FormatMap
  <2>2. image \in [Sectors -> Images \cup {None}]
    BY ONLY <1>5, <1>7
  <2>3. dirs \in [Sectors -> Directories \cup {None}]
    BY ONLY <1>5, <1>8
  <2>4. table \in [Slots -> TableEntries \cup {None}] /\ files \in [Handles -> OpenFiles \cup {None}]
    BY <1>5 DEF EmptyTable, NoFiles
  <2>5. nbentry \in Slots
    BY <1>5, Constants
  <2> QED BY <1>5, <2>1, <2>2, <2>3, <2>4, <2>5 DEF TypeOK
<1>11. dirs[DirectorySector] \in Directories /\ \A x \in Names : dirs[DirectorySector][x] = None
  BY <1>5, <1>6, <1>8
<1>12. \A p \in DirPaths : Dir(dirs, image, p) \in {DirectorySector, None}
  <2>1. PICK S : S = {p \in DirPaths : Dir(dirs, image, p) \in {DirectorySector, None}}
    OBVIOUS
  <2>2. <<>> \in S
    BY <2>1, DirSteps DEF DirPaths
  <2>3. ASSUME NEW p \in Paths, Parent(p) \in S
        PROVE  p \in S
    <3>1. Look(dirs, image, p) = None
      BY <1>11, <2>1, <2>3, ParentOf DEF Look, Entry
    <3>2. Dir(dirs, image, p) = None
      BY <3>1, DirSteps DEF AsDir
    <3> QED BY <2>1, <3>2 DEF Paths, DirPaths
  <2>4. DirPaths \subseteq S
    BY ONLY <2>2, <2>3, PathInduction
  <2> QED BY <2>1, <2>4
<1>13. \A p \in Paths : Look(dirs, image, p) = None
  BY <1>11, <1>12, ParentOf DEF Look, Entry
<1>14. Tree(dirs, image)
  <2>1. \A p \in DirPaths : Dir(dirs, image, p) # None =>
          Dir(dirs, image, p) \in Sectors /\ dirs[Dir(dirs, image, p)] \in Directories
    BY ONLY <1>6, <1>11, <1>12
  <2> QED BY <1>6, <1>13, <2>1 DEF Tree
<1>15. Held(dirs, image, table) = {}
  BY <1>9, <1>13 DEF Held, Reached
<1>16. AllCopies(dirs, image, table, files) = {}
  BY <1>9, <1>15 DEF AllCopies
<1>17. Own(AllCopies(dirs, image, table, files), freeMap)
  BY <1>5, <1>16 DEF Own
<1>18. Imaged(dirs, image, table, files) /\ Named(dirs, image, table)
  BY <1>9, <1>15 DEF Imaged, Named
<1>19. TableCounts
  BY <1>9, CountedIs DEF Counted
<1>20. NextSlotFree /\ NoAssertFails
  BY <1>5, <1>9, Constants DEF NextSlotFree, NoAssertFails
<1> QED BY <1>10, <1>14, <1>17, <1>18, <1>19, <1>20 DEF IInv

\* Every system call and every command of the configuration keeps the invariant.
LEMMA NextStep ==
  ASSUME IInv, [Next]_vars
  PROVE  IInv'
<1>1. \A name \in Spellings : PathOf[name] \in Paths
  BY Constants DEF Paths
<1>2. DirectoryFileSize \in Nat
  BY Constants
<1>3. \A size \in 0..MaxFileSize : FitsFirst(size) /\ size \in Nat
  BY Constants DEF IInv, Limits, HeadersFit
<1>4. FALSE \in BOOLEAN /\ TRUE \in BOOLEAN
  OBVIOUS
<1>5. CASE Restart
  BY <1>5, RestartStep
<1>6. ASSUME NEW name \in Spellings, NEW size \in 0..MaxFileSize, NEW filled \in BOOLEAN,
             NewFile(PathOf[name], FALSE, size, filled)
      PROVE  IInv'
  BY <1>1, <1>3, <1>4, <1>6, NewFileStep
<1>7. ASSUME NEW name \in Spellings, NewDirectory(PathOf[name])
      PROVE  IInv'
  <2>1. NewFile(PathOf[name], TRUE, DirectoryFileSize, TRUE)
    BY <1>7 DEF NewDirectory
  <2> QED BY <1>1, <1>2, <1>4, <2>1, NewFileStep
<1>8. ASSUME NEW name \in Spellings, RemoveClosed(name)
      PROVE  IInv'
  BY <1>8, RemoveClosedStep
<1>9. ASSUME NEW name \in Spellings, RemoveDirectory(PathOf[name])
      PROVE  IInv'
  BY <1>1, <1>9, RemoveDirectoryStep
<1>10. ASSUME NEW name \in Spellings, RemoveOpen(name)
       PROVE  IInv'
  BY <1>10, RemoveOpenStep
<1>11. ASSUME NEW name \in Spellings, StartUp(name)
       PROVE  IInv'
  BY <1>6, <1>7, <1>8, <1>9, <1>11 DEF StartUp, Copy
<1>12. ASSUME NEW name \in Spellings, NEW h \in Handles, Open(h, name)
       PROVE  IInv'
  BY <1>12, OpenFirstStep, OpenAgainStep DEF Open
<1>13. ASSUME NEW h \in Handles, Close(h)
       PROVE  IInv'
  BY <1>13, CloseStep
<1>14. ASSUME NEW h \in Handles, SeekAndRead(h)
       PROVE  IInv'
  BY <1>14, ReadStep DEF SeekAndRead
<1>15. ASSUME NEW h \in Handles, SeekAndWrite(h)
       PROVE  IInv'
  BY <1>15, WriteStep DEF SeekAndWrite
<1>16. CASE UNCHANGED vars
  <2>1. /\ freeMap' = freeMap /\ image' = image /\ dirs' = dirs /\ table' = table
        /\ nbentry' = nbentry /\ files' = files /\ machine' = machine
    BY <1>16 DEF vars, diskVars, tableVars
  <2>2. TypeOK' /\ NextSlotFree' /\ NoAssertFails'
    BY <2>1 DEF IInv, TypeOK, NextSlotFree, NoAssertFails
  <2>3. TableCounts'
    BY <2>1, CountedIs DEF IInv
  <2> QED BY <2>1, <2>2, <2>3 DEF IInv
<1>17. ASSUME NEW name \in Spellings, \E size \in 0..MaxFileSize : Create(name, size)
       PROVE  IInv'
  BY <1>6, <1>17 DEF Create
<1> QED BY <1>5, <1>7, <1>8, <1>9, <1>10, <1>11, <1>12, <1>13, <1>14, <1>15, <1>16, <1>17
        DEF Next, Mkdir, Rmdir, Remove

---------------------------------------------------------------------------
(* Theorems *)

\* The tree of directories, the owners of the sectors, the headers on disk, the names
\* in the table and its counts stay consistent under every system call
\* (filesys.cc, oftable.cc, openfile.cc), when a file has one spelling and its
\* header fits in one sector.
THEOREM Invariant ==
  ASSUME Limits PROVE Spec => []IInv
<1>1. Init => IInv
  BY InitStep
<1>2. IInv /\ [Next]_vars => IInv'
  BY NextStep
<1> QED BY <1>1, <1>2, PTL DEF Spec

\* Every variable of the file system keeps its type.
THEOREM TypeCorrect ==
  ASSUME Limits PROVE Spec => []TypeOK
<1>1. IInv => TypeOK
  BY DEF IInv
<1> QED BY <1>1, Invariant, PTL

\* The copies of SectorsOwned are among those of the invariant.
LEMMA CopiesKnown ==
  ASSUME IInv
  PROVE  Copies \subseteq AllCopies(dirs, image, table, files)
<1>1. \A name \in Spellings : Lookup(PathOf[name]) # None =>
        Lookup(PathOf[name]) \in Held(dirs, image, table)
  <2>1. SUFFICES ASSUME NEW name \in Spellings, Lookup(PathOf[name]) # None
                 PROVE  Lookup(PathOf[name]) \in Held(dirs, image, table)
    OBVIOUS
  <2>2. PICK q \in Paths : q = PathOf[name]
    BY Constants DEF Paths
  <2>3. Lookup(q) = Look(dirs, image, q)
    BY LookupIs
  <2> QED BY <2>1, <2>2, <2>3 DEF Held, Reached
<1>2. PICK R : R = {r \in {Lookup(PathOf[name]) : name \in Spellings} \ {None} : image[r] # None}
  OBVIOUS
<1>3. R \subseteq Held(dirs, image, table)
  BY <1>1, <1>2
<1>4. Copies = {DiskCopy(image, s) : s \in R} \cup {EntryCopy(table[i]) : i \in Used(table)} \cup
               {FileCopy(files[h]) : h \in Opened(files)}
  BY <1>2 DEF Copies, DiskCopy, EntryCopy, FileCopy, Used, Opened
<1> QED BY <1>3, <1>4 DEF AllCopies

\* No sector has two owners and no sector in use is free, whatever is created, grown,
\* removed and closed in which order (FileHeader::reAllocate, FileHeader::Deallocate,
\* OpenFile::WriteAt).
THEOREM SectorsOwnedCorrect ==
  ASSUME Limits PROVE Spec => []SectorsOwned
<1>1. IInv => SectorsOwned
  <2>1. SUFFICES ASSUME IInv PROVE SectorsOwned
    OBVIOUS
  <2>2. PICK C : C = AllCopies(dirs, image, table, files)
    OBVIOUS
  <2>3. Copies \subseteq C /\ Own(C, freeMap)
    BY <2>1, <2>2, CopiesKnown DEF IInv
  <2> QED BY <2>3 DEF SectorsOwned, Own
<1> QED BY <1>1, Invariant, PTL

\* A path leads to a header, and two paths never to the same one (Directory::Add,
\* FileSystem::Remove, FileSystem::Rmdir).
THEOREM DirectoriesSoundCorrect ==
  ASSUME Limits PROVE Spec => []DirectoriesSound
<1>1. IInv => DirectoriesSound
  <2>1. SUFFICES ASSUME IInv, NEW a \in Spellings, NEW b \in Spellings, Lookup(PathOf[a]) # None
                 PROVE  /\ image[Lookup(PathOf[a])] # None
                        /\ Lookup(PathOf[a]) = Lookup(PathOf[b]) => PathOf[a] = PathOf[b]
    BY DEF DirectoriesSound
  <2>2. PICK p \in Paths : p = PathOf[a]
    BY Constants DEF Paths
  <2>3. PICK q \in Paths : q = PathOf[b]
    BY Constants DEF Paths
  <2>4. Lookup(p) = Look(dirs, image, p) /\ Lookup(q) = Look(dirs, image, q)
    BY LookupIs
  <2>5. Look(dirs, image, p) # None /\ Look(dirs, image, p) \in Held(dirs, image, table)
    BY <2>1, <2>2, <2>4 DEF Held, Reached
  <2>6. image[Look(dirs, image, p)] # None
    BY <2>1, <2>5 DEF IInv, Imaged
  <2>7. Look(dirs, image, p) = Look(dirs, image, q) => p = q
    BY <2>1, <2>5 DEF IInv, Tree
  <2> QED BY <2>2, <2>3, <2>4, <2>6, <2>7
<1> QED BY <1>1, Invariant, PTL

\* The table of open files knows every open file and counts its users
\* (OpenFileTable::Open, OpenFileTable::Close).
THEOREM TableCountsCorrect ==
  ASSUME Limits PROVE Spec => []TableCounts
<1>1. IInv => TableCounts
  BY DEF IInv
<1> QED BY <1>1, Invariant, PTL

\* OpenFileTable::Open never overwrites an entry.
THEOREM NextSlotFreeCorrect ==
  ASSUME Limits PROVE Spec => []NextSlotFree
<1>1. IInv => NextSlotFree
  BY DEF IInv
<1> QED BY <1>1, Invariant, PTL

\* "after removing a file nobody can open the deleted file" (oftable.cc:250).
THEOREM RemovedUnreachableCorrect ==
  ASSUME Limits PROVE Spec => []RemovedUnreachable
<1>1. IInv => RemovedUnreachable
  <2>1. SUFFICES ASSUME IInv, NEW i \in Slots, table[i] # None, table[i].ToBeDeleted,
                        NEW name \in Spellings, Lookup(PathOf[name]) = table[i].sector
                 PROVE  FALSE
    BY DEF RemovedUnreachable
  <2>2. i \in Used(table)
    BY <2>1 DEF Used
  <2>3. Lookup(PathOf[name]) # None
    BY <2>1, <2>2, EntryTypes, Constants DEF IInv
  <2> QED BY <2>1, <2>2, <2>3, ReachedEntry DEF IInv
<1> QED BY <1>1, Invariant, PTL

\* No ASSERT of the file system fails: what FileHeader::Deallocate frees is marked.
THEOREM NoAssertFailsCorrect ==
  ASSUME Limits PROVE Spec => []NoAssertFails
<1>1. IInv => NoAssertFails
  BY DEF IInv
<1> QED BY <1>1, Invariant, PTL

\* Every sector of an open file stays allocated, also when the file was removed
\* (oftable.cc:251): the run remove_alias needs a second spelling of a path.
THEOREM OpenDataKeptCorrect ==
  ASSUME Limits PROVE Spec => []OpenDataKept
<1>1. IInv => OpenDataKept
  <2>1. SUFFICES ASSUME IInv, NEW h \in Opened(files)
                 PROVE  {files[h].fSector} \cup SectorsOf(files[h].hdr) \subseteq freeMap
    BY DEF OpenDataKept, Opened
  <2>2. PICK c : c = FileCopy(files[h])
    OBVIOUS
  <2>3. c \in AllCopies(dirs, image, table, files)
    BY <2>2, CopiesAre
  <2>4. Owned(c) = {files[h].fSector} \cup SectorsOf(files[h].hdr)
    BY <2>2 DEF FileCopy, Owned
  <2>5. Owned(c) \subseteq freeMap
    BY <2>1, <2>3 DEF IInv, Own
  <2> QED BY <2>4, <2>5
<1> QED BY <1>1, Invariant, PTL

=============================================================================
