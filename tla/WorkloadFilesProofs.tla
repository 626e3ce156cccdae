------------------------ MODULE WorkloadFilesProofs ------------------------
(***************************************************************************)
(* Theorems about WorkloadFiles.                                           *)
(***************************************************************************)
EXTENDS WorkloadFiles, SequenceTheorems, TLAPS

-----------------------------------------------------------------------------
(* Paths.                                                                  *)

LEMMA PathsAreSequences ==
    ASSUME NEW p
    PROVE  p \in Paths <=> p \in Seq(Names) /\ Len(p) <= MaxDepth
<1>1. ASSUME p \in Paths PROVE p \in Seq(Names) /\ Len(p) <= MaxDepth
  <2>1. PICK n \in 0 .. MaxDepth : p \in [1 .. n -> Names]
    BY <1>1 DEF Paths
  <2>2. n \in Nat
    BY <2>1
  <2>3. p \in Seq(Names)
    BY <2>1, <2>2
  <2> QED BY <2>1, <2>2, <2>3, FilesAssumption DEF FilesAssumption
<1>2. ASSUME p \in Seq(Names), Len(p) <= MaxDepth PROVE p \in Paths
  <2>1. Len(p) \in 0 .. MaxDepth /\ p \in [1 .. Len(p) -> Names]
    BY <1>2, FilesAssumption DEF FilesAssumption
  <2> QED BY <2>1 DEF Paths
<1> QED BY <1>1, <1>2

LEMMA RootIsAPath == Root \in Paths /\ Root = <<>>
<1>1. <<>> \in Seq(Names) /\ Len(<<>>) <= MaxDepth
  BY FilesAssumption DEF FilesAssumption
<1> QED BY <1>1, PathsAreSequences DEF Root

\* A prefix, name by name.
LEMMA PrefixByName ==
    ASSUME NEW p \in Paths, NEW q \in Paths
    PROVE  IsPrefix(p, q) <=> Len(p) <= Len(q) /\ \A i \in 1 .. Len(p) : p[i] = q[i]
<1>1. p \in Seq(Names) /\ q \in Seq(Names)
  BY PathsAreSequences
<1>2. CASE Len(p) <= Len(q)
  <2>1. SubSeq(p, 1, Len(p)) = p
    BY <1>1
  <2>2. SubSeq(q, 1, Len(p)) = [i \in 1 .. Len(p) |-> q[i]]
    BY <1>1, <1>2
  <2>3. p = [i \in 1 .. Len(p) |-> p[i]]
    BY <1>1
  <2>4. (p = [i \in 1 .. Len(p) |-> q[i]]) <=> \A i \in 1 .. Len(p) : p[i] = q[i]
    BY <1>1, <2>3
  <2> QED BY <1>2, <2>1, <2>2, <2>4 DEF IsPrefix
<1>3. CASE ~(Len(p) <= Len(q))
  BY <1>3 DEF IsPrefix
<1> QED BY <1>2, <1>3

LEMMA EqualByName ==
    ASSUME NEW p \in Paths, NEW q \in Paths, Len(p) = Len(q),
           \A i \in 1 .. Len(p) : p[i] = q[i]
    PROVE  p = q
BY PathsAreSequences, SeqEqual

LEMMA PrefixOrder ==
    /\ \A p \in Paths : IsPrefix(p, p)
    /\ \A p, q \in Paths : IsPrefix(p, q) /\ IsPrefix(q, p) => p = q
    /\ \A p, q, r \in Paths : IsPrefix(p, q) /\ IsPrefix(q, r) => IsPrefix(p, r)
    /\ \A p, q, r \in Paths : IsPrefix(p, r) /\ IsPrefix(q, r) => IsPrefix(p, q) \/ IsPrefix(q, p)
<1>1. \A p \in Paths : Len(p) \in Nat
  BY PathsAreSequences
<1>2. \A p \in Paths : IsPrefix(p, p)
  BY <1>1, PrefixByName
<1>3. \A p, q \in Paths : IsPrefix(p, q) /\ IsPrefix(q, p) => p = q
  BY <1>1, PrefixByName, EqualByName
<1>4. \A p, q, r \in Paths : IsPrefix(p, q) /\ IsPrefix(q, r) => IsPrefix(p, r)
  BY <1>1, PrefixByName
<1>5. \A p, q, r \in Paths : IsPrefix(p, r) /\ IsPrefix(q, r) => IsPrefix(p, q) \/ IsPrefix(q, p)
  BY <1>1, PrefixByName
<1> QED BY <1>2, <1>3, <1>4, <1>5

\* What is above a path is its parent or above it.
LEMMA ParentIsAbove ==
    ASSUME NEW p \in Paths
    PROVE  /\ Parent(p) \in Paths /\ IsPrefix(Parent(p), p)
           /\ \A q \in Above(p) : IsPrefix(q, Parent(p))
<1>1. p \in Seq(Names) /\ Len(p) \in Nat /\ Len(p) <= MaxDepth
  BY PathsAreSequences
<1>2. CASE Len(p) = 0
  <2>1. p = <<>>
    BY <1>1, <1>2
  <2>2. Parent(p) = <<>>
    BY <2>1 DEF Parent, Front
  <2>3. Above(p) = {}
    BY <1>1, <1>2, <2>1, PrefixByName, PathsAreSequences, EqualByName DEF Above
  <2> QED BY <2>1, <2>2, <2>3, PrefixOrder
<1>3. CASE Len(p) > 0
  <2>1. /\ Parent(p) \in Seq(Names) /\ Len(Parent(p)) = Len(p) - 1
        /\ \A i \in 1 .. Len(p) - 1 : Parent(p)[i] = p[i]
    <3>1. PICK n \in Nat : n = Len(p) - 1
      <4>1. Len(p) - 1 \in Nat
        BY <1>1, <1>3
      <4> QED BY <4>1
    <3>2. Parent(p) = SubSeq(p, 1, n)
      BY <3>1 DEF Parent, Front
    <3>3. n \in Int /\ \A i \in 1 .. n : p[i] \in Names
      BY <1>1, <3>1
    <3>4. /\ Parent(p) \in Seq(Names)
          /\ Len(Parent(p)) = IF 1 <= n THEN n - 1 + 1 ELSE 0
          /\ \A i \in 1 .. n - 1 + 1 : Parent(p)[i] = p[1 + i - 1]
      BY <3>2, <3>3, SubSeqProperties
    <3>5. Len(Parent(p)) = n
      BY <3>4
    <3>6. ASSUME NEW i \in 1 .. n PROVE Parent(p)[i] = p[i]
      <4>1. 1 + i - 1 = i /\ i \in 1 .. n - 1 + 1
        OBVIOUS
      <4> QED BY <3>4, <4>1
    <3> QED BY <3>1, <3>4, <3>5, <3>6
  <2>2. Parent(p) \in Paths
    BY <2>1, <1>1, PathsAreSequences, FilesAssumption DEF FilesAssumption
  <2>3. IsPrefix(Parent(p), p)
    BY <2>1, <2>2, <1>1, PrefixByName
  <2>4. ASSUME NEW q \in Above(p) PROVE IsPrefix(q, Parent(p))
    <3>1. q \in Paths /\ IsPrefix(q, p) /\ q # p /\ Len(q) \in Nat
      BY PathsAreSequences DEF Above
    <3>2. Len(q) <= Len(p) /\ \A i \in 1 .. Len(q) : q[i] = p[i]
      BY <3>1, PrefixByName
    <3>3. Len(q) # Len(p)
      BY <3>1, <3>2, EqualByName
    <3> QED BY <3>1, <3>2, <3>3, <2>1, <2>2, <1>1, PrefixByName
  <2> QED BY <2>2, <2>3, <2>4
<1> QED BY <1>1, <1>2, <1>3

\* What a rename of p to q takes to x comes from the same place below p.
LEMMA OriginByName ==
    ASSUME NEW p \in Paths, NEW q \in Paths, NEW x \in Under(q)
    PROVE  /\ Origin(p, q, x) \in Seq(Names)
           /\ Len(Origin(p, q, x)) = Len(p) + Len(x) - Len(q)
           /\ \A i \in 1 .. Len(p) : Origin(p, q, x)[i] = p[i]
           /\ \A i \in 1 .. Len(x) - Len(q) : Origin(p, q, x)[Len(p) + i] = x[Len(q) + i]
<1> DEFINE rest == SubSeq(x, Len(q) + 1, Len(x))
<1>1. x \in Paths /\ IsPrefix(q, x)
  BY DEF Under
<1>2. /\ p \in Seq(Names) /\ q \in Seq(Names) /\ x \in Seq(Names)
      /\ Len(p) \in Nat /\ Len(q) \in Nat /\ Len(x) \in Nat
  BY <1>1, PathsAreSequences
<1>3. Len(q) <= Len(x)
  BY <1>1, PrefixByName
<1>4. /\ rest \in Seq(Names)
      /\ Len(rest) = IF Len(q) + 1 <= Len(x) THEN Len(x) - (Len(q) + 1) + 1 ELSE 0
      /\ \A i \in 1 .. Len(x) - (Len(q) + 1) + 1 : rest[i] = x[Len(q) + 1 + i - 1]
  <2>1. Len(q) + 1 \in Int /\ Len(x) \in Int /\ \A i \in Len(q) + 1 .. Len(x) : x[i] \in Names
    BY <1>2
  <2> HIDE DEF rest
  <2> QED BY <2>1, SubSeqProperties DEF rest
<1>5. /\ Len(rest) = Len(x) - Len(q)
      /\ \A i \in 1 .. Len(x) - Len(q) : rest[i] = x[Len(q) + i]
  <2> HIDE DEF rest
  <2> QED BY <1>2, <1>3, <1>4
<1>6. Origin(p, q, x) = p \o rest
  BY DEF Origin
<1> HIDE DEF rest
<1>7. /\ p \o rest \in Seq(Names)
      /\ Len(p \o rest) = Len(p) + Len(rest)
      /\ \A i \in 1 .. Len(p) + Len(rest) :
            (p \o rest)[i] = IF i <= Len(p) THEN p[i] ELSE rest[i - Len(p)]
  BY <1>2, <1>4, ConcatProperties
<1>8. \A i \in 1 .. Len(x) - Len(q) : (p \o rest)[Len(p) + i] = rest[i]
  BY <1>2, <1>3, <1>5, <1>7
<1> QED BY <1>2, <1>3, <1>4, <1>5, <1>6, <1>7, <1>8

LEMMA OriginsBelow ==
    ASSUME NEW p \in Paths, NEW q \in Paths, NEW x \in Under(q), Origin(p, q, x) \in Paths
    PROVE  /\ IsPrefix(p, Origin(p, q, x))
           /\ \A y \in Under(q) : IsPrefix(y, x) => /\ Origin(p, q, y) \in Paths
                                                   /\ IsPrefix(Origin(p, q, y), Origin(p, q, x))
           /\ \A y \in Under(q) : Origin(p, q, y) = Origin(p, q, x) => y = x
<1>1. /\ Len(p) \in Nat /\ Len(q) \in Nat /\ Len(x) \in Nat /\ Len(q) <= Len(x)
      /\ x \in Paths /\ IsPrefix(q, x)
  BY PathsAreSequences, PrefixByName DEF Under
<1>2. IsPrefix(p, Origin(p, q, x))
  BY <1>1, OriginByName, PrefixByName
<1>5. \A y \in Under(q) : Len(Origin(p, q, y)) = Len(p) + Len(y) - Len(q)
  BY OriginByName
<1>6. \A y \in Under(q) : \A i \in 1 .. Len(y) - Len(q) : Origin(p, q, y)[Len(p) + i] = y[Len(q) + i]
  BY OriginByName
<1>3. ASSUME NEW y \in Under(q), IsPrefix(y, x)
      PROVE  Origin(p, q, y) \in Paths /\ IsPrefix(Origin(p, q, y), Origin(p, q, x))
  <2>1. y \in Paths /\ Len(y) \in Nat /\ Len(q) <= Len(y) /\ Len(y) <= Len(x)
    BY <1>1, <1>3, PathsAreSequences, PrefixByName DEF Under
  <2>2. Len(Origin(p, q, y)) <= Len(Origin(p, q, x)) /\ Len(Origin(p, q, x)) <= MaxDepth
    BY <1>1, <2>1, OriginByName, PathsAreSequences
  <2>3. Origin(p, q, y) \in Paths
    BY <1>1, <2>1, <2>2, OriginByName, PathsAreSequences, FilesAssumption DEF FilesAssumption
  <2>4. ASSUME NEW i \in 1 .. Len(Origin(p, q, y))
        PROVE  Origin(p, q, y)[i] = Origin(p, q, x)[i]
    <3>1. CASE i <= Len(p)
      BY <3>1, <1>1, OriginByName
    <3>2. CASE i > Len(p)
      <4>0. PICK j \in Int : j = i - Len(p)
        <5>1. i - Len(p) \in Int
          BY <1>1
        <5> QED BY <5>1
      <4>1. /\ j \in 1 .. Len(y) - Len(q) /\ j \in 1 .. Len(x) - Len(q)
            /\ Len(p) + j = i /\ Len(q) + j \in 1 .. Len(y)
        BY <3>2, <1>1, <2>1, <1>5, <4>0
      <4>2. Origin(p, q, y)[i] = y[Len(q) + j] /\ Origin(p, q, x)[i] = x[Len(q) + j]
        BY <4>1, <1>6
      <4>3. y[Len(q) + j] = x[Len(q) + j]
        BY <4>1, <1>1, <1>3, <2>1, PrefixByName
      <4> QED BY <4>2, <4>3
    <3> QED BY <3>1, <3>2, <1>1, <2>1, OriginByName
  <2> QED BY <2>2, <2>3, <2>4, PrefixByName
<1>4. ASSUME NEW y \in Under(q), Origin(p, q, y) = Origin(p, q, x)
      PROVE  y = x
  <2>1. y \in Paths /\ IsPrefix(q, y) /\ Len(y) \in Nat /\ Len(q) <= Len(y)
    BY <1>1, PathsAreSequences, PrefixByName DEF Under
  <2>2. Len(y) = Len(x)
    BY <1>1, <1>4, <2>1, <1>5
  <2>3. ASSUME NEW i \in 1 .. Len(x) PROVE y[i] = x[i]
    <3>1. CASE i <= Len(q)
      BY <3>1, <1>1, <2>1, PrefixByName
    <3>2. CASE i > Len(q)
      <4>1. PICK j \in 1 .. Len(x) - Len(q) : Len(q) + j = i
        <5>1. i - Len(q) \in 1 .. Len(x) - Len(q) /\ Len(q) + (i - Len(q)) = i
          BY <3>2, <1>1
        <5> QED BY <5>1
      <4>2. j \in 1 .. Len(y) - Len(q)
        BY <2>2
      <4> QED BY <4>1, <4>2, <1>4, <1>6
    <3> QED BY <3>1, <3>2, <1>1
  <2> QED BY <1>1, <2>1, <2>2, <2>3, EqualByName
<1> QED BY <1>2, <1>3, <1>4

-----------------------------------------------------------------------------
(* What the calls to the file system leave is a tree.                      *)

LEMMA AboveOrder ==
    ASSUME NEW p \in Paths
    PROVE  /\ Above(p) \subseteq Paths /\ Under(p) \subseteq Paths
           /\ p \notin Above(p) /\ p \in Under(p)
           /\ \A q \in Above(p) : Above(q) \subseteq Above(p)
           /\ \A q \in Paths : IsPrefix(q, p) <=> q = p \/ q \in Above(p)
BY PrefixOrder DEF Above, Under

\* os.MkdirAll adds what is missing and hits no file.
LEMMA MadeIsClosed ==
    ASSUME Tree, NEW p \in Paths, CanMake(p)
    PROVE  /\ dirs \subseteq Made(p) /\ Made(p) \subseteq Paths
           /\ \A x \in Made(p) : Above(x) \subseteq Made(p) /\ ~(x \in Paths /\ IsFile(x))
<1>1. dirs \subseteq Made(p) /\ Made(p) \subseteq Paths
  BY DEF Made, Tree
<1>2. ASSUME NEW x \in Made(p), x \in dirs PROVE Above(x) \subseteq Made(p) /\ ~IsFile(x)
  BY <1>2 DEF Made, Tree
<1>3. ASSUME NEW x \in Made(p), x \notin dirs PROVE Above(x) \subseteq Made(p) /\ ~IsFile(x)
  <2>1. x \in Paths /\ IsPrefix(x, p)
    BY <1>3 DEF Made
  <2>2. \A y \in Above(x) : y \in Paths /\ IsPrefix(y, p)
    BY <2>1, PrefixOrder DEF Above
  <2> QED BY <2>1, <2>2 DEF Made, CanMake
<1> QED BY <1>1, <1>2, <1>3

LEMMA TreeAfterMake ==
    ASSUME Tree, NEW p \in Paths, CanMake(p), dirs' = Made(p), UNCHANGED link
    PROVE  Tree'
<1>1. /\ dirs \subseteq dirs' /\ dirs' \subseteq Paths
      /\ \A x \in dirs' : Above(x) \subseteq dirs' /\ ~(x \in Paths /\ IsFile(x))
  BY MadeIsClosed
<1> QED BY <1>1 DEF Tree, IsFile

\* os.Create, whatever directories were made before.
LEMMA TreeAfterCreate ==
    ASSUME Tree, link \in [Paths -> Inodes \cup {0}], NEW p \in Paths, NEW i,
           dirs \subseteq dirs', dirs' \subseteq Paths,
           \A x \in dirs' : Above(x) \subseteq dirs' /\ ~(x \in Paths /\ IsFile(x)),
           Parent(p) \in dirs', p \notin dirs',
           i # 0, \A x \in Paths : link[x] = i => x = p,
           link' = [link EXCEPT ![p] = i]
    PROVE  Tree'
<1>1. Above(p) \subseteq dirs'
  <2>1. \A q \in Above(p) : q \in Paths /\ IsPrefix(q, Parent(p))
    BY ParentIsAbove, AboveOrder
  <2>2. Parent(p) \in Paths /\ Above(Parent(p)) \subseteq dirs'
    BY ParentIsAbove
  <2> QED BY <2>1, <2>2, AboveOrder
<1>2. \A x \in Paths : link'[x] = IF x = p THEN i ELSE link[x]
  OBVIOUS
<1>3. \A x \in Paths : IsFile(x)' => x \notin dirs' /\ Above(x) \subseteq dirs'
  BY <1>1, <1>2 DEF IsFile, Tree
<1>4. \A x, y \in Paths : IsFile(x)' /\ link'[x] = link'[y] => x = y
  BY <1>2 DEF IsFile, Tree
<1> QED BY <1>3, <1>4 DEF Tree

\* os.RemoveAll takes all that is under a path.
LEMMA TreeAfterRemoveAll ==
    ASSUME Tree, NEW p \in Paths,
           dirs' = dirs \ Under(p),
           link' = [x \in Paths |-> IF x \in Under(p) THEN 0 ELSE link[x]]
    PROVE  Tree'
<1>1. \A x \in Paths : link'[x] = IF x \in Under(p) THEN 0 ELSE link[x]
  OBVIOUS
<1>2. \A x \in Paths : x \notin Under(p) => \A y \in Above(x) : y \notin Under(p)
  BY PrefixOrder DEF Above, Under
<1>3. dirs' \subseteq Paths /\ \A x \in dirs' : Above(x) \subseteq dirs'
  BY <1>2 DEF Tree
<1>4. \A x \in Paths : IsFile(x)' => x \notin dirs' /\ Above(x) \subseteq dirs'
  BY <1>1, <1>2 DEF Tree, IsFile
<1>5. \A x, y \in Paths : IsFile(x)' /\ link'[x] = link'[y] => x = y
  BY <1>1 DEF Tree, IsFile
<1> QED BY <1>3, <1>4, <1>5 DEF Tree

\* os.Remove takes a file or a directory in which there is nothing.
LEMMA TreeAfterRemove ==
    ASSUME Tree, link \in [Paths -> Inodes \cup {0}], NEW p \in Paths, ~Full(p),
           dirs' = dirs \ {p}, link' = [link EXCEPT ![p] = 0]
    PROVE  Tree'
<1>1. \A x \in Paths : link'[x] = IF x = p THEN 0 ELSE link[x]
  OBVIOUS
<1>2. ASSUME NEW x \in Paths, x # p, x \in dirs \/ IsFile(x)
      PROVE  Above(x) \subseteq dirs'
  <2>1. Above(x) \subseteq dirs
    BY <1>2 DEF Tree
  <2>2. p \notin Above(x)
    BY <1>2, <2>1 DEF Full, Above, Under
  <2> QED BY <2>1, <2>2
<1>3. dirs' \subseteq Paths /\ \A x \in dirs' : Above(x) \subseteq dirs'
  BY <1>2 DEF Tree
<1>4. \A x \in Paths : IsFile(x)' => x \notin dirs' /\ Above(x) \subseteq dirs'
  BY <1>1, <1>2 DEF Tree, IsFile
<1>5. \A x, y \in Paths : IsFile(x)' /\ link'[x] = link'[y] => x = y
  BY <1>1 DEF Tree, IsFile
<1> QED BY <1>3, <1>4, <1>5 DEF Tree

\* os.Rename: what is not under q stays unless it is under p, and what is under q then
\* was under p.
LEMMA TreeAfterRename ==
    ASSUME Tree, NEW p \in Paths, NEW q \in Paths, CanMove(p, q),
           link' = MovedLink(p, q), dirs' = MovedDirs(p, q)
    PROVE  Tree'
<1> DEFINE O(x) == Origin(p, q, x)
<1>1. Above(q) \subseteq dirs
  <2>1. Parent(q) \in dirs /\ Above(Parent(q)) \subseteq dirs /\ Parent(q) \in Paths
    BY ParentIsAbove DEF CanMove, Tree
  <2> QED BY <2>1, ParentIsAbove, AboveOrder
\* Nothing above q is under p: p is a file, or not above q.
<1>2. \A y \in Above(q) : y \notin Under(p) /\ y \notin Under(q)
  <2>1. ASSUME NEW y \in Above(q), IsPrefix(p, y) PROVE FALSE
    <3>1. y \in Paths /\ y \in dirs /\ IsPrefix(y, q)
      BY <1>1 DEF Above
    <3>2. IsPrefix(p, q)
      BY <2>1, <3>1, PrefixOrder
    <3>3. IsFile(p)
      BY <3>2 DEF CanMove
    <3>4. p = y \/ p \in Above(y)
      BY <2>1, <3>1, AboveOrder
    <3> QED BY <3>1, <3>3, <3>4 DEF Tree
  <2>2. ASSUME NEW y \in Above(q), IsPrefix(q, y) PROVE FALSE
    BY <2>2, PrefixOrder DEF Above
  <2> QED BY <2>1, <2>2 DEF Under
<1>3. \A x \in Paths \ Under(q) : O(x) = x
  BY DEF Origin
<1>4. \A x \in Paths : link'[x] = IF Stays(p, q, x) /\ O(x) \in Paths THEN link[O(x)] ELSE 0
  BY DEF MovedLink
<1>5. \A x : x \in dirs' <=> x \in Paths /\ Stays(p, q, x) /\ O(x) \in dirs
  BY DEF MovedDirs
<1>6. \A x \in Under(q) : O(x) \in Paths =>
        /\ O(x) \in Under(p)
        /\ \A y \in Under(q) : y \in Above(x) => O(y) \in Above(O(x))
        /\ \A y \in Under(q) : O(y) = O(x) => y = x
  <2>1. ASSUME NEW x \in Under(q), O(x) \in Paths
        PROVE  /\ O(x) \in Under(p)
               /\ \A y \in Under(q) : O(y) = O(x) => y = x
    BY <2>1, OriginsBelow DEF Under
  <2>2. ASSUME NEW x \in Under(q), O(x) \in Paths, NEW y \in Under(q), y \in Above(x)
        PROVE  O(y) \in Above(O(x))
    <3>1. IsPrefix(y, x) /\ y # x
      BY <2>2 DEF Above
    <3>2. O(y) \in Paths /\ IsPrefix(O(y), O(x)) /\ O(y) # O(x)
      BY <2>2, <3>1, OriginsBelow
    <3> QED BY <3>2 DEF Above
  <2> QED BY <2>1, <2>2
\* What is above something that is there afterwards is a directory afterwards.
<1>7. ASSUME NEW x \in Paths, Stays(p, q, x), O(x) \in Paths, Above(O(x)) \subseteq dirs
      PROVE  Above(x) \subseteq dirs'
  <2>1. ASSUME NEW y \in Above(x) PROVE y \in dirs'
    <3>1. y \in Paths /\ IsPrefix(y, x) /\ y # x
      BY <2>1 DEF Above
    <3>2. CASE x \in Under(q) /\ y \in Under(q)
      <4>1. O(y) \in dirs
        BY <1>6, <1>7, <2>1, <3>2
      <4> QED BY <1>5, <3>1, <3>2, <4>1 DEF Stays
    <3>3. CASE x \in Under(q) /\ y \notin Under(q)
      <4>1. y \in Above(q)
        BY <3>1, <3>3, PrefixOrder DEF Under, Above
      <4>2. y \in dirs /\ y \notin Under(p) /\ O(y) = y
        BY <1>1, <1>2, <1>3, <3>1, <3>3, <4>1
      <4> QED BY <1>5, <3>1, <4>2 DEF Stays
    <3>4. CASE x \notin Under(q)
      <4>1. O(x) = x /\ x \notin Under(p) /\ y \in dirs
        BY <1>3, <1>7, <2>1, <3>4 DEF Stays
      <4>2. y \notin Under(p) /\ y \notin Under(q)
        BY <3>1, <3>4, <4>1, PrefixOrder DEF Under
      <4>3. O(y) = y
        BY <1>3, <3>1, <4>2
      <4> QED BY <1>5, <3>1, <4>1, <4>2, <4>3 DEF Stays
    <3> QED BY <3>2, <3>3, <3>4
  <2> QED BY <2>1
<1>8. dirs' \subseteq Paths /\ \A x \in dirs' : Above(x) \subseteq dirs'
  BY <1>5, <1>7 DEF Tree
<1>9. \A x \in Paths : IsFile(x)' => x \notin dirs' /\ Above(x) \subseteq dirs'
  <2>1. ASSUME NEW x \in Paths, IsFile(x)' PROVE x \notin dirs' /\ Above(x) \subseteq dirs'
    <3>1. Stays(p, q, x) /\ O(x) \in Paths /\ IsFile(O(x))
      BY <1>4, <2>1 DEF IsFile
    <3>2. O(x) \notin dirs /\ Above(O(x)) \subseteq dirs
      BY <3>1 DEF Tree
    <3> QED BY <1>5, <1>7, <3>1, <3>2
  <2> QED BY <2>1
<1>10. \A x, y \in Paths : IsFile(x)' /\ link'[x] = link'[y] => x = y
  <2>1. ASSUME NEW x \in Paths, NEW y \in Paths, IsFile(x)', link'[x] = link'[y]
        PROVE  x = y
    <3>1. /\ Stays(p, q, x) /\ O(x) \in Paths /\ IsFile(O(x))
          /\ Stays(p, q, y) /\ O(y) \in Paths /\ link[O(x)] = link[O(y)]
      BY <1>4, <2>1 DEF IsFile
    <3>2. O(x) = O(y)
      BY <3>1 DEF Tree
    <3>3. CASE x \in Under(q) /\ y \in Under(q)
      BY <1>6, <3>1, <3>2, <3>3
    <3>4. CASE x \in Under(q) /\ y \notin Under(q)
      BY <1>3, <1>6, <3>1, <3>2, <3>4 DEF Stays
    <3>5. CASE x \notin Under(q) /\ y \in Under(q)
      BY <1>3, <1>6, <3>1, <3>2, <3>5 DEF Stays
    <3>6. CASE x \notin Under(q) /\ y \notin Under(q)
      BY <1>3, <3>2, <3>6
    <3> QED BY <3>3, <3>4, <3>5, <3>6
  <2> QED BY <2>1
<1> QED BY <1>8, <1>9, <1>10 DEF Tree

-----------------------------------------------------------------------------
(* Types, and which step belongs to which request.                         *)

\* Each step is of the request it belongs to, and the entries are counted from the first.
StepsFit ==
    \A c \in Clients :
        /\ at[c] \in {"mkdir", "fetch", "open", "write", "unlink", "spoilt"} => req[c] \in Stores
        /\ at[c] = "change" => req[c] \notin Stores
        /\ at[c] \in {"idle", "mkdir", "fetch", "change"} => nth[c] = 1

\* TypeOK and StepsFit in two parts, the disk's and the clients'.
DiskOK ==
    /\ Tree
    /\ link \in [Paths -> Inodes \cup {0}]
    /\ content \in [Inodes -> Contents]
    /\ troubles \in 0 .. MaxTroubles
ClientsOK ==
    /\ req \in [Clients -> Requests]
    /\ no \in [Clients -> 0 .. MaxRequests]
    /\ at \in [Clients -> {"idle", "mkdir", "fetch", "open", "write", "unlink", "spoilt", "change"}]
    /\ nth \in [Clients -> Nat \ {0}]
    /\ \A c \in Clients : at[c] \in {"open", "write", "unlink", "spoilt"} => nth[c] \in DOMAIN req[c].entries
    /\ fd \in [Clients -> Inodes \cup {0}]
    /\ \A c \in Clients : fd[c] # 0 <=> at[c] \in {"write", "unlink", "spoilt"}
    /\ outcome \in [Clients -> {"none", "ok", "failed"}]
    /\ requests \in 0 .. MaxRequests
    /\ touched \in [Clients -> BOOLEAN]
    /\ before \in [Clients -> Seq(Contents \cup {Absent})]
    /\ StepsFit

LEMMA TypeParts == TypeOK /\ StepsFit <=> DiskOK /\ ClientsOK
BY DEF TypeOK, DiskOK, ClientsOK

LEMMA RequestShape ==
    ASSUME NEW r \in Requests
    PROVE  /\ r.path \in Paths /\ r.to \in Paths /\ r.entries \in Seq(Entries)
           /\ Len(r.entries) \in Nat /\ DOMAIN r.entries = 1 .. Len(r.entries)
           /\ \A i \in 1 .. Len(r.entries) :
                 /\ r.entries[i] \in Entries /\ r.entries[i].path \in Paths
                 /\ r.entries[i].dir \in BOOLEAN
<1>1. r \in [op : StoringOps \cup ChangingOps, path : Paths, to : Paths, entries : Seq(Entries)]
  BY RequestsAssumption DEF RequestsAssumption
<1>2. r.path \in Paths /\ r.to \in Paths /\ r.entries \in Seq(Entries)
  BY <1>1
<1>3. \A i \in 1 .. Len(r.entries) : r.entries[i] \in Entries
  BY <1>2
<1> QED BY <1>2, <1>3 DEF Entries

LEMMA ContentIsTyped ==
    ASSUME DiskOK, NEW p \in Paths
    PROVE  ContentAt(p) \in Contents \cup {Absent}
BY DEF DiskOK, ContentAt, IsFile

LEMMA EndOK ==
    ASSUME ClientsOK, NEW c \in Clients, NEW result \in {"ok", "failed"}, End(c, result)
    PROVE  ClientsOK'
BY DEF End, ClientsOK, StepsFit, asked

LEMMA GoOK ==
    ASSUME ClientsOK, NEW c \in Clients, NEW next \in {"fetch", "open", "write", "unlink", "spoilt"},
           Go(c, next), req[c] \in Stores,
           NEW n \in Nat \ {0}, nth' = [nth EXCEPT ![c] = n],
           IF next = "fetch" THEN n = 1 ELSE n \in DOMAIN req[c].entries,
           NEW i \in Inodes \cup {0}, fd' = [fd EXCEPT ![c] = i],
           i # 0 <=> next \in {"write", "unlink", "spoilt"}
    PROVE  ClientsOK'
BY DEF Go, ClientsOK, StepsFit, asked

LEMMA NextEntryOK ==
    ASSUME ClientsOK, NEW c \in Clients, at[c] \in {"open", "write"}, NextEntry(c)
    PROVE  ClientsOK'
<1>1. nth[c] \in 1 .. Len(req[c].entries) /\ req[c] \in Stores /\ req[c] \in Requests
  BY RequestShape DEF ClientsOK, StepsFit
<1>2. CASE nth[c] < Len(req[c].entries)
  <2>1. /\ Go(c, "open") /\ nth' = [nth EXCEPT ![c] = nth[c] + 1]
        /\ fd' = [fd EXCEPT ![c] = 0]
    BY <1>2 DEF NextEntry
  <2>2. nth[c] + 1 \in Nat \ {0} /\ nth[c] + 1 \in DOMAIN req[c].entries
    BY <1>1, <1>2, RequestShape
  <2> QED BY <1>1, <2>1, <2>2, GoOK
<1>3. CASE ~(nth[c] < Len(req[c].entries))
  BY <1>3, EndOK DEF NextEntry
<1> QED BY <1>2, <1>3

LEMMA SpareIsSpare ==
    ASSUME NEW i, i = CHOOSE j \in Spare : TRUE, Spare # {}
    PROVE  i \in Inodes /\ (\A p \in Paths : link[p] # i) /\ \A d \in Clients : fd[d] # i
<1>1. i \in Spare
  OBVIOUS
<1> QED BY <1>1 DEF Spare

LEMMA TypeInit == Init => DiskOK /\ ClientsOK
<1> SUFFICES ASSUME Init PROVE DiskOK /\ ClientsOK
  OBVIOUS
<1>1. \A p \in Paths : link[p] = 0
  BY DEF Init
<1>2. Tree
  <2>1. Above(Root) = {}
    <3>1. \A q \in Paths : IsPrefix(q, Root) => q = Root
      <4>1. \A q \in Paths : IsPrefix(q, Root) => Len(q) = 0 /\ Len(Root) = 0
        BY RootIsAPath, PrefixByName, PathsAreSequences
      <4> QED BY <4>1, RootIsAPath, EqualByName
    <3> QED BY <3>1 DEF Above
  <2>2. dirs = {} \/ dirs = {Root}
    BY DEF Init
  <2> QED BY <1>1, <2>1, <2>2, RootIsAPath DEF Tree, IsFile
<1>3. DiskOK
  BY <1>2, FilesAssumption DEF Init, DiskOK, FilesAssumption, Contents
<1>4. (CHOOSE r \in Requests : TRUE) \in Requests
  BY RequestsAssumption DEF RequestsAssumption
<1>5. ClientsOK
  BY <1>4, FilesAssumption DEF Init, ClientsOK, StepsFit, FilesAssumption
<1> QED BY <1>3, <1>5

LEMMA TypeBegin ==
    ASSUME DiskOK, ClientsOK, NEW c \in Clients, NEW r \in Requests, Begin(c, r)
    PROVE  DiskOK' /\ ClientsOK'
<1>1. DiskOK'
  BY DEF Begin, treeVars, DiskOK, Tree, IsFile
<1>2. \A i \in DOMAIN r.entries : ContentAt(r.entries[i].path) \in Contents \cup {Absent}
  BY RequestShape, ContentIsTyped
<1>3. [i \in DOMAIN r.entries |-> ContentAt(r.entries[i].path)] \in Seq(Contents \cup {Absent})
  <2>1. PICK n \in Nat : DOMAIN r.entries = 1 .. n
    BY RequestShape
  <2> QED BY <1>2, <2>1
<1>4. before' \in [Clients -> Seq(Contents \cup {Absent})]
  BY <1>3 DEF Begin, ClientsOK
<1>5. touched' \in [Clients -> BOOLEAN]
  BY DEF Begin, ClientsOK
<1>6. requests' \in 0 .. MaxRequests /\ no' \in [Clients -> 0 .. MaxRequests]
  BY FilesAssumption DEF Begin, ClientsOK, FilesAssumption
<1>7. /\ req' \in [Clients -> Requests]
      /\ at' \in [Clients -> {"idle", "mkdir", "fetch", "open", "write", "unlink", "spoilt", "change"}]
      /\ outcome' \in [Clients -> {"none", "ok", "failed"}]
  BY DEF Begin, ClientsOK
<1>8. /\ \A d \in Clients : at'[d] \in {"open", "write", "unlink", "spoilt"}
                              => nth'[d] \in DOMAIN req'[d].entries
      /\ \A d \in Clients : fd'[d] # 0 <=> at'[d] \in {"write", "unlink", "spoilt"}
      /\ StepsFit'
  <2>1. Stores' = Stores
    BY DEF Stores
  <2> QED BY <2>1 DEF Begin, ClientsOK, StepsFit
<1>9. ClientsOK'
  BY <1>4, <1>5, <1>6, <1>7, <1>8 DEF ClientsOK, Begin
<1> QED BY <1>1, <1>9

LEMMA TypeMkdirAll ==
    ASSUME DiskOK, ClientsOK, NEW c \in Clients, MkdirAll(c)
    PROVE  DiskOK' /\ ClientsOK'
<1>1. req[c] \in Requests /\ req[c].path \in Paths /\ req[c] \in Stores /\ nth[c] = 1 /\ fd[c] = 0
  BY RequestShape DEF ClientsOK, StepsFit, MkdirAll
<1>2. CASE CanMake(req[c].path) /\ dirs' = Made(req[c].path) /\ Go(c, "fetch") /\ UNCHANGED <<nth, fd>>
  <2>1. Tree'
    BY <1>1, <1>2, TreeAfterMake DEF MkdirAll, DiskOK
  <2>2. nth' = [nth EXCEPT ![c] = 1] /\ fd' = [fd EXCEPT ![c] = 0]
    BY <1>1, <1>2 DEF ClientsOK
  <2>3. ClientsOK'
    <3>1. 1 \in Nat \ {0} /\ 0 \in Inodes \cup {0}
      OBVIOUS
    <3> QED BY <1>1, <1>2, <2>2, <3>1, GoOK
  <2> QED BY <2>1, <2>3 DEF MkdirAll, DiskOK
<1>3. CASE ~CanMake(req[c].path) /\ End(c, "failed") /\ UNCHANGED dirs
  BY <1>3, EndOK DEF MkdirAll, DiskOK, Tree, IsFile
<1> QED BY <1>2, <1>3 DEF MkdirAll

LEMMA TypeFetch ==
    ASSUME DiskOK, ClientsOK, NEW c \in Clients, Fetch(c)
    PROVE  DiskOK' /\ ClientsOK'
<1>1. req[c] \in Requests /\ req[c] \in Stores /\ nth[c] = 1 /\ fd[c] = 0
  BY DEF ClientsOK, StepsFit, Fetch
<1>2. troubles' \in 0 .. MaxTroubles
  BY FilesAssumption DEF Fetch, Trouble, DiskOK, FilesAssumption
<1>3. DiskOK'
  BY <1>2 DEF Fetch, treeVars, DiskOK, Tree, IsFile
<1>4. CASE req[c].entries # <<>> /\ Go(c, "open") /\ UNCHANGED <<nth, fd, troubles>>
  <2>1. nth' = [nth EXCEPT ![c] = 1] /\ fd' = [fd EXCEPT ![c] = 0]
    BY <1>1, <1>4 DEF ClientsOK
  <2>2. 1 \in DOMAIN req[c].entries
    BY <1>1, <1>4, RequestShape
  <2>3. ClientsOK'
    <3>1. 1 \in Nat \ {0} /\ 0 \in Inodes \cup {0}
      OBVIOUS
    <3> QED BY <1>1, <1>4, <2>1, <2>2, <3>1, GoOK
  <2> QED BY <1>3, <2>3
<1>5. CASE End(c, "ok") \/ End(c, "failed")
  BY <1>3, <1>5, EndOK
<1> QED BY <1>4, <1>5 DEF Fetch

LEMMA ThisIsAPath ==
    ASSUME ClientsOK, NEW c \in Clients, at[c] \in {"open", "write", "unlink", "spoilt"}
    PROVE  /\ nth[c] \in 1 .. Len(req[c].entries) /\ Len(req[c].entries) \in Nat
           /\ This(c).path \in Paths /\ This(c).dir \in BOOLEAN
           /\ req[c] \in Requests /\ req[c] \in Stores
BY RequestShape DEF ClientsOK, StepsFit, This

LEMMA TypeEntryDir ==
    ASSUME DiskOK, ClientsOK, NEW c \in Clients, EntryDir(c)
    PROVE  DiskOK' /\ ClientsOK'
<1>1. This(c).path \in Paths /\ ClientsOK'
  BY ThisIsAPath, NextEntryOK DEF EntryDir
<1>2. Tree'
  <2>1. CASE CanMake(This(c).path)
    BY <1>1, <2>1, TreeAfterMake DEF EntryDir, DiskOK
  <2>2. CASE ~CanMake(This(c).path)
    BY <2>2 DEF EntryDir, DiskOK, Tree, IsFile
  <2> QED BY <2>1, <2>2
<1> QED BY <1>1, <1>2 DEF EntryDir, DiskOK

\* The directories there are when a file is opened.
LEMMA EntryDirsAreClosed ==
    ASSUME DiskOK, NEW c \in Clients, NEW p \in Paths, dirs' = EntryDirs(c, p)
    PROVE  /\ dirs \subseteq dirs' /\ dirs' \subseteq Paths
           /\ \A x \in dirs' : Above(x) \subseteq dirs' /\ ~(x \in Paths /\ IsFile(x))
<1>1. CASE dirs' = Made(Parent(p)) /\ CanMake(Parent(p))
  BY <1>1, ParentIsAbove, MadeIsClosed DEF DiskOK
<1>2. CASE dirs' = dirs
  BY <1>2 DEF DiskOK, Tree
<1> QED BY <1>1, <1>2 DEF EntryDirs

LEMMA TypeOpen ==
    ASSUME DiskOK, ClientsOK, NEW c \in Clients, Open(c)
    PROVE  DiskOK' /\ ClientsOK'
<1> DEFINE p == This(c).path
<1>1. p \in Paths /\ req[c] \in Stores /\ req[c] \in Requests /\ nth[c] \in 1 .. Len(req[c].entries)
  BY ThisIsAPath DEF Open
<1>2. /\ dirs \subseteq dirs' /\ dirs' \subseteq Paths
      /\ \A x \in dirs' : Above(x) \subseteq dirs' /\ ~(x \in Paths /\ IsFile(x))
  BY <1>1, EntryDirsAreClosed DEF Open
<1>3. CASE CanOpen(p) /\ Opened(c, p) /\ Go(c, "write") /\ UNCHANGED nth
  <2> DEFINE i == IF IsFile(p) THEN link[p] ELSE CHOOSE j \in Spare : TRUE
  <2>1. /\ link' = [link EXCEPT ![p] = i]
        /\ content' = [content EXCEPT ![i] = Empty] /\ fd' = [fd EXCEPT ![c] = i]
    BY <1>3 DEF Opened
  <2>2. i \in Inodes /\ i # 0 /\ \A x \in Paths : link[x] = i => x = p
    <3>1. CASE IsFile(p)
      BY <1>1, <3>1 DEF DiskOK, Tree, IsFile
    <3>2. CASE ~IsFile(p)
      BY <1>3, <3>2, SpareIsSpare, FilesAssumption DEF CanOpen, FilesAssumption
    <3> QED BY <3>1, <3>2
  <2> HIDE DEF i
  <2>3. Tree'
    BY <1>1, <1>2, <1>3, <2>1, <2>2, TreeAfterCreate DEF DiskOK, CanOpen
  <2>4. DiskOK'
    BY <2>1, <2>2, <2>3 DEF DiskOK, Open, Contents
  <2>5. nth' = [nth EXCEPT ![c] = nth[c]] /\ nth[c] \in Nat \ {0} /\ nth[c] \in DOMAIN req[c].entries
    BY <1>1, <1>3, RequestShape DEF ClientsOK
  <2>6. ClientsOK'
    BY <1>1, <1>3, <2>1, <2>2, <2>5, GoOK
  <2> QED BY <2>4, <2>6
<1>4. CASE ~CanOpen(p) /\ End(c, "failed") /\ UNCHANGED <<link, content>>
  BY <1>2, <1>4, EndOK DEF Open, DiskOK, Tree, IsFile
<1> QED BY <1>3, <1>4 DEF Open

LEMMA TypeWrite ==
    ASSUME DiskOK, ClientsOK, NEW c \in Clients, Write(c)
    PROVE  DiskOK' /\ ClientsOK'
<1>1. req[c] \in Stores /\ nth[c] \in DOMAIN req[c].entries /\ nth[c] \in Nat \ {0} /\ fd[c] \in Inodes
      /\ fd[c] # 0 /\ at[c] = "write"
  BY DEF Write, ClientsOK, StepsFit
<1>2. Tree'
  BY DEF Write, DiskOK, Tree, IsFile
<1>3. CASE Copied(c) /\ NextEntry(c) /\ UNCHANGED troubles
  <2>1. PICK x \in {no[c], Torn} : content' = [content EXCEPT ![fd[c]] = x]
    BY <1>3 DEF Copied
  <2>2. no[c] \in Contents
    <3>1. no[c] \in 0 .. MaxRequests
      BY DEF ClientsOK
    <3> QED BY <3>1, FilesAssumption DEF FilesAssumption, Contents, Empty
  <2>3. DiskOK'
    BY <1>1, <1>2, <1>3, <2>1, <2>2 DEF DiskOK, Write, Contents
  <2> QED BY <1>1, <1>3, <2>3, NextEntryOK
<1>4. CASE CopyFails(c)
  <2>1. content' \in [Inodes -> Contents]
    BY <1>1, <1>4 DEF CopyFails, DiskOK, Contents
  <2>2. troubles' \in 0 .. MaxTroubles
    BY <1>4, FilesAssumption DEF CopyFails, Trouble, DiskOK, FilesAssumption
  <2>3. DiskOK'
    BY <1>2, <2>1, <2>2 DEF DiskOK, Write
  <2>4. CASE End(c, "failed")
    BY <2>3, <2>4, EndOK
  <2>5. CASE (Go(c, "unlink") \/ Go(c, "spoilt")) /\ UNCHANGED <<nth, fd>>
    <3>1. nth' = [nth EXCEPT ![c] = nth[c]] /\ fd' = [fd EXCEPT ![c] = fd[c]]
      BY <2>5 DEF ClientsOK
    <3>2. ASSUME NEW next \in {"unlink", "spoilt"}, Go(c, next) PROVE ClientsOK'
      BY <1>1, <3>1, <3>2, GoOK
    <3> QED BY <2>3, <2>5, <3>2
  <2> QED BY <1>3, <1>4, <2>4, <2>5, NextEntryOK, <1>1, <2>3 DEF Write
<1> QED BY <1>3, <1>4 DEF Write

LEMMA TypeUnlink ==
    ASSUME DiskOK, ClientsOK, NEW c \in Clients, Unlink(c)
    PROVE  DiskOK' /\ ClientsOK'
<1>1. This(c).path \in Paths /\ ClientsOK'
  BY ThisIsAPath, EndOK DEF Unlink
<1>2. CASE Removable(This(c).path) /\ Removed(This(c).path)
  <2>1. Tree'
    BY <1>1, <1>2, TreeAfterRemove DEF Removable, Removed, DiskOK
  <2> QED BY <1>1, <1>2, <2>1 DEF Unlink, Removed, DiskOK
<1>3. CASE UNCHANGED <<dirs, link>>
  BY <1>1, <1>3 DEF Unlink, DiskOK, Tree, IsFile
<1> QED BY <1>2, <1>3 DEF Unlink

LEMMA TypeChange ==
    ASSUME DiskOK, ClientsOK, NEW c \in Clients,
           Mkdir(c) \/ Delete(c) \/ Rename(c) \/ Uninstall(c)
    PROVE  DiskOK' /\ ClientsOK'
<1>1. req[c] \in Requests /\ req[c].path \in Paths /\ req[c].to \in Paths
  BY RequestShape DEF ClientsOK
<1>2. ClientsOK'
  BY EndOK DEF Mkdir, Delete, Rename, Uninstall
<1>3. CASE Mkdir(c)
  <2>1. Tree'
    <3>1. CASE CanMake(req[c].path)
      BY <1>1, <1>3, <3>1, TreeAfterMake DEF Mkdir, DiskOK
    <3>2. CASE ~CanMake(req[c].path)
      BY <1>3, <3>2 DEF Mkdir, DiskOK, Tree, IsFile
    <3> QED BY <3>1, <3>2
  <2> QED BY <1>2, <1>3, <2>1 DEF Mkdir, DiskOK
<1>4. CASE Delete(c)
  <2>1. CASE UNCHANGED <<dirs, link>>
    BY <1>2, <1>4, <2>1 DEF Delete, DiskOK, Tree, IsFile
  <2>2. CASE /\ dirs' = dirs \ Under(req[c].path)
             /\ link' = [p \in Paths |-> IF p \in Under(req[c].path) THEN 0 ELSE link[p]]
    <3>1. Tree'
      BY <1>1, <2>2, TreeAfterRemoveAll DEF DiskOK
    <3> QED BY <1>2, <1>4, <2>2, <3>1 DEF Delete, DiskOK
  <2> QED BY <1>4, <2>1, <2>2 DEF Delete
<1>5. CASE Rename(c)
  <2>1. CASE UNCHANGED <<dirs, link>>
    BY <1>2, <1>5, <2>1 DEF Rename, DiskOK, Tree, IsFile
  <2>2. CASE /\ CanMove(req[c].path, req[c].to)
             /\ link' = MovedLink(req[c].path, req[c].to)
             /\ dirs' = MovedDirs(req[c].path, req[c].to)
    <3>1. Tree'
      BY <1>1, <2>2, TreeAfterRename DEF DiskOK
    <3>2. link' \in [Paths -> Inodes \cup {0}]
      BY <2>2 DEF MovedLink, DiskOK
    <3> QED BY <1>2, <1>5, <3>1, <3>2 DEF Rename, DiskOK
  <2> QED BY <1>5, <2>1, <2>2 DEF Rename
<1>6. CASE Uninstall(c)
  <2>1. CASE UNCHANGED <<dirs, link>>
    BY <1>2, <1>6, <2>1 DEF Uninstall, DiskOK, Tree, IsFile
  <2>2. CASE /\ ~Full(req[c].path) /\ link' = [link EXCEPT ![req[c].path] = 0]
             /\ dirs' = dirs \ {req[c].path}
    <3>1. Tree'
      BY <1>1, <2>2, TreeAfterRemove DEF DiskOK
    <3> QED BY <1>1, <1>2, <1>6, <2>2, <3>1 DEF Uninstall, DiskOK
  <2> QED BY <1>6, <2>1, <2>2 DEF Uninstall, Removable, Removed
<1> QED BY <1>3, <1>4, <1>5, <1>6

LEMMA TypeCrash ==
    ASSUME DiskOK, ClientsOK, Crash
    PROVE  DiskOK' /\ ClientsOK'
<1>1. DiskOK'
  BY FilesAssumption DEF Crash, Trouble, treeVars, DiskOK, Tree, IsFile, FilesAssumption
<1>2. ClientsOK'
  BY DEF Crash, asked, ClientsOK, StepsFit
<1> QED BY <1>1, <1>2

LEMMA TypeNext ==
    ASSUME DiskOK, ClientsOK, [Next]_vars
    PROVE  DiskOK' /\ ClientsOK'
<1>1. CASE Crash
  BY <1>1, TypeCrash
<1>2. ASSUME NEW c \in Clients, Client(c) PROVE DiskOK' /\ ClientsOK'
  BY <1>2, TypeMkdirAll, TypeFetch, TypeEntryDir, TypeOpen, TypeWrite, TypeUnlink, TypeChange
     DEF Client
<1>3. ASSUME NEW c \in Clients, NEW r \in Requests, Begin(c, r) PROVE DiskOK' /\ ClientsOK'
  BY <1>3, TypeBegin
<1>4. CASE UNCHANGED vars
  BY <1>4 DEF vars, DiskOK, Tree, IsFile, ClientsOK, StepsFit
<1> QED BY <1>1, <1>2, <1>3, <1>4 DEF Next

\* Whatever requests overlap and whatever fails, the directories and files make up a
\* tree, each file with an inode of its own.
THEOREM TypeCorrect == Spec => []TypeOK
<1>1. Init => DiskOK /\ ClientsOK
  BY TypeInit
<1>2. (DiskOK /\ ClientsOK) /\ [Next]_vars => (DiskOK /\ ClientsOK)'
  BY TypeNext
<1>3. DiskOK /\ ClientsOK => TypeOK
  BY TypeParts
<1> QED BY <1>1, <1>2, <1>3, PTL DEF Spec

-----------------------------------------------------------------------------
(* The inductive invariant: what a request has done so far, as long as     *)
(* nobody meddles with it.                                                 *)

Undisturbed(c) == Busy(c) /\ Alone(c)
Path(c, i) == req[c].entries[i].path

\* A request that is not touched has its paths to itself.
Apart ==
    \A c, d \in Clients :
        c # d /\ Busy(c) /\ Busy(d) /\ ~touched[c] => ~Meddle(req[c], req[d])

\* What it has open is the file it works on, and nobody else has one of its files open.
HasItsOwn(c) ==
    /\ fd[c] # 0 => fd[c] = link[This(c).path]
    /\ at[c] = "write" => content[fd[c]] = Empty
    /\ at[c] \in {"unlink", "spoilt"} => content[fd[c]] = Torn
    /\ \A p \in Targets(req[c]), d \in Clients \ {c} : fd[d] # 0 => link[p] # fd[d]

\* The entries before the one it has come to are stored, those after it as they were.
Stored(c, i) ==
    \/ req[c].entries[i].dir
    \/ ContentAt(Path(c, i)) = no[c]
    \/ fd[c] # 0 /\ Path(c, i) = This(c).path
AsBefore(c, i) ==
    \/ ContentAt(Path(c, i)) = before[c][i]
    \/ \E j \in 1 .. nth[c] : j # i /\ Path(c, j) = Path(c, i)
Progress(c) ==
    /\ \A i \in 1 .. (nth[c] - 1) : Stored(c, i)
    /\ \A i \in nth[c] .. Len(req[c].entries) : fd[c] = 0 \/ i # nth[c] => AsBefore(c, i)

OnItsWay == \A c \in Clients : Undisturbed(c) => HasItsOwn(c) /\ Progress(c)

IInv == DiskOK /\ ClientsOK /\ Apart /\ OnItsWay

LEMMA TargetsOfStore ==
    ASSUME ClientsOK, NEW c \in Clients, req[c] \in Stores
    PROVE  /\ \A p \in Targets(req[c]) : p \in Paths
           /\ \A i \in 1 .. Len(req[c].entries) : Path(c, i) \in Targets(req[c]) /\ Path(c, i) \in Paths
           /\ at[c] \in {"open", "write", "unlink", "spoilt"} =>
                 This(c).path \in Targets(req[c]) /\ This(c).path = Path(c, nth[c])
<1>1. req[c] \in Requests
  BY DEF ClientsOK
<1>2. Targets(req[c]) = {Path(c, i) : i \in DOMAIN req[c].entries}
  BY DEF Targets, Path
<1>3. \A i \in 1 .. Len(req[c].entries) : Path(c, i) \in Targets(req[c]) /\ Path(c, i) \in Paths
  BY <1>1, <1>2, RequestShape DEF Path
<1> QED BY <1>1, <1>2, <1>3, RequestShape, ThisIsAPath DEF Path, This

LEMMA MeddleIsMutual ==
    ASSUME NEW r, NEW s, Meddle(r, s)
    PROVE  Meddle(s, r)
BY DEF Meddle

\* What a step of one client leaves alone of the others.
LEMMA OthersKeepTheirs ==
    ASSUME ClientsOK, NEW d \in Clients, Client(d)
    PROVE  /\ at[d] # "idle"
           /\ \A c \in Clients \ {d} : at'[c] = at[c] /\ nth'[c] = nth[c] /\ fd'[c] = fd[c]
                                       /\ outcome'[c] = outcome[c]
           /\ UNCHANGED asked
<1>1. CASE MkdirAll(d) \/ Fetch(d) \/ Mkdir(d) \/ Delete(d) \/ Rename(d) \/ Uninstall(d)
  BY <1>1 DEF MkdirAll, Fetch, Mkdir, Delete, Rename, Uninstall, End, Go, ClientsOK
<1>2. CASE EntryDir(d) \/ Write(d)
  BY <1>2 DEF EntryDir, Write, NextEntry, End, Go, ClientsOK
<1>3. CASE Open(d) \/ Unlink(d)
  BY <1>3 DEF Open, Opened, Unlink, End, Go, ClientsOK
<1> QED BY <1>1, <1>2, <1>3 DEF Client

\* A client's step leaves the links that lie under none of its targets, and writes to no
\* file there unless it has it open.
LEMMA Footprint ==
    ASSUME DiskOK, ClientsOK, NEW d \in Clients, Client(d), NEW y \in Paths,
           \A p \in Targets(req[d]) : ~IsPrefix(p, y)
    PROVE  /\ link'[y] = link[y]
           /\ link[y] # 0 /\ link[y] # fd[d] => content'[link[y]] = content[link[y]]
<1>1. req[d] \in Requests /\ req[d].path \in Paths /\ req[d].to \in Paths
  BY RequestShape DEF ClientsOK
<1>2. CASE MkdirAll(d) \/ Fetch(d) \/ EntryDir(d) \/ Mkdir(d)
  BY <1>2 DEF MkdirAll, Fetch, EntryDir, Mkdir, treeVars
<1>3. ASSUME at[d] \in {"open", "write", "unlink", "spoilt"}
      PROVE  This(d).path \in Paths /\ This(d).path # y
  BY <1>3, TargetsOfStore, ThisIsAPath, PrefixOrder
<1>4. CASE Open(d)
  <2> DEFINE p == This(d).path
             i == IF IsFile(p) THEN link[p] ELSE CHOOSE j \in Spare : TRUE
  <2>1. p \in Paths /\ p # y
    BY <1>3, <1>4 DEF Open
  <2>2. CASE UNCHANGED <<link, content>>
    BY <2>2
  <2>3. CASE CanOpen(p) /\ Opened(d, p)
    <3>1. link' = [link EXCEPT ![p] = i] /\ content' = [content EXCEPT ![i] = Empty]
      BY <2>3 DEF Opened
    <3>2. link[y] # 0 => i # link[y]
      <4>1. CASE IsFile(p)
        BY <2>1, <4>1 DEF DiskOK, Tree, IsFile
      <4>2. CASE ~IsFile(p)
        BY <2>3, <4>2, SpareIsSpare DEF CanOpen
      <4> QED BY <4>1, <4>2
    <3> HIDE DEF i, p
    <3> QED BY <2>1, <3>1, <3>2 DEF DiskOK
  <2> QED BY <1>4, <2>2, <2>3 DEF Open
<1>5. CASE Write(d)
  <2>1. link' = link
    BY <1>5 DEF Write
  <2>2. PICK x : content' = [content EXCEPT ![fd[d]] = x]
    BY <1>5 DEF Write, Copied, CopyFails
  <2> QED BY <2>1, <2>2 DEF DiskOK
<1>6. CASE Unlink(d)
  BY <1>3, <1>6 DEF Unlink, Removed, DiskOK
<1>7. ASSUME at[d] = "change"
      PROVE  /\ y \notin Under(req[d].path) /\ y # req[d].path
             /\ req[d].op = "rename" => y \notin Under(req[d].to)
  BY <1>1, <1>7, PrefixOrder DEF Targets, Under, ClientsOK, StepsFit
<1>8. CASE Delete(d)
  BY <1>7, <1>8 DEF Delete, DiskOK
<1>9. CASE Rename(d)
  <2>1. CASE link' = MovedLink(req[d].path, req[d].to)
    BY <1>7, <1>9, <2>1 DEF Rename, MovedLink, Stays, Origin, DiskOK
  <2>2. CASE link' = link
    BY <1>9, <2>2 DEF Rename
  <2> QED BY <1>9, <2>1, <2>2 DEF Rename
<1>10. CASE Uninstall(d)
  BY <1>7, <1>10 DEF Uninstall, Removed, DiskOK
<1> QED BY <1>2, <1>4, <1>5, <1>6, <1>8, <1>9, <1>10 DEF Client

\* What a client opens is a file of its own.
LEMMA OpensItsOwn ==
    ASSUME DiskOK, ClientsOK, NEW d \in Clients, Client(d), fd'[d] # 0
    PROVE  \/ fd'[d] = fd[d]
           \/ at[d] = "open" /\ fd'[d] = link'[This(d).path]
<1>1. CASE MkdirAll(d) \/ Fetch(d) \/ Mkdir(d) \/ Delete(d) \/ Rename(d) \/ Uninstall(d)
  BY <1>1 DEF MkdirAll, Fetch, Mkdir, Delete, Rename, Uninstall, End, ClientsOK
<1>2. CASE EntryDir(d) \/ Write(d) \/ Unlink(d)
  BY <1>2 DEF EntryDir, Write, Unlink, NextEntry, End, ClientsOK
<1>3. CASE Open(d)
  <2> DEFINE p == This(d).path
             i == IF IsFile(p) THEN link[p] ELSE CHOOSE j \in Spare : TRUE
  <2>1. p \in Paths /\ at[d] = "open"
    BY <1>3, ThisIsAPath DEF Open
  <2>2. CASE End(d, "failed")
    BY <2>2 DEF End, ClientsOK
  <2>3. CASE Opened(d, p)
    <3>1. link' = [link EXCEPT ![p] = i] /\ fd' = [fd EXCEPT ![d] = i]
      BY <2>3 DEF Opened
    <3> HIDE DEF i, p
    <3>2. link'[p] = i /\ fd'[d] = i
      BY <2>1, <3>1 DEF DiskOK, ClientsOK
    <3> QED BY <2>1, <3>2 DEF p
  <2> QED BY <1>3, <2>2, <2>3 DEF Open
<1> QED BY <1>1, <1>2, <1>3 DEF Client

\* Opening, writing or removing one of its files, a client leaves the others.
LEMMA OtherFilesStay ==
    ASSUME DiskOK, ClientsOK, NEW c \in Clients, Open(c) \/ Write(c) \/ Unlink(c),
           fd[c] # 0 => fd[c] = link[This(c).path],
           NEW x \in Paths, x # This(c).path
    PROVE  link'[x] = link[x] /\ ContentAt(x)' = ContentAt(x)
<1> DEFINE p == This(c).path
           i == IF IsFile(p) THEN link[p] ELSE CHOOSE j \in Spare : TRUE
<1>1. p \in Paths
  BY ThisIsAPath DEF Open, Write, Unlink
<1>2. link'[x] = link[x] /\ (link[x] # 0 => content'[link[x]] = content[link[x]])
  <2>1. CASE UNCHANGED <<link, content>>
    BY <2>1
  <2>2. CASE CanOpen(p) /\ Opened(c, p)
    <3>1. link' = [link EXCEPT ![p] = i] /\ content' = [content EXCEPT ![i] = Empty]
      BY <2>2 DEF Opened
    <3>2. link[x] # 0 => i # link[x]
      <4>1. CASE IsFile(p)
        BY <1>1, <4>1 DEF DiskOK, Tree, IsFile
      <4>2. CASE ~IsFile(p)
        BY <2>2, <4>2, SpareIsSpare DEF CanOpen
      <4> QED BY <4>1, <4>2
    <3> HIDE DEF i, p
    <3> QED BY <3>1, <3>2 DEF DiskOK, p
  <2>3. CASE Write(c)
    <3>1. PICK y : link' = link /\ content' = [content EXCEPT ![fd[c]] = y]
      BY <2>3 DEF Write, Copied, CopyFails
    <3>2. link[x] # 0 => link[x] # fd[c]
      BY <1>1, <2>3 DEF Write, ClientsOK, DiskOK, Tree, IsFile
    <3> QED BY <3>1, <3>2 DEF DiskOK
  <2>4. CASE Unlink(c)
    BY <1>1, <2>4 DEF Unlink, Removed, DiskOK
  <2> QED BY <2>1, <2>2, <2>3, <2>4 DEF Open
<1> QED BY <1>2 DEF ContentAt, IsFile

LEMMA ApartStays ==
    ASSUME Apart, \A c \in Clients : Busy(c)' => Busy(c), UNCHANGED asked
    PROVE  Apart'
BY DEF Apart, asked, Meddle, Targets, Stores

LEMMA UndisturbedWas ==
    ASSUME NEW c \in Clients, Undisturbed(c)', UNCHANGED asked, Busy(c)
    PROVE  Undisturbed(c) /\ req'[c] = req[c] /\ no'[c] = no[c] /\ before'[c] = before[c]
BY DEF Undisturbed, Alone, Stores, asked

\* Whatever another client does, an undisturbed request is as far as it was.
LEMMA OthersLeaveItsWay ==
    ASSUME IInv, DiskOK', ClientsOK', NEW d \in Clients, Client(d),
           NEW c \in Clients, c # d, Undisturbed(c)'
    PROVE  (HasItsOwn(c) /\ Progress(c))'
<1>1. /\ at[d] # "idle" /\ at'[c] = at[c] /\ nth'[c] = nth[c] /\ fd'[c] = fd[c]
      /\ \A e \in Clients \ {d} : fd'[e] = fd[e]
      /\ UNCHANGED asked
  BY OthersKeepTheirs DEF IInv
<1>2. Undisturbed(c) /\ req'[c] = req[c] /\ no'[c] = no[c] /\ before'[c] = before[c]
  BY <1>1, UndisturbedWas DEF Busy, Undisturbed
<1>3. HasItsOwn(c) /\ Progress(c) /\ req[c] \in Stores
  BY <1>2 DEF IInv, OnItsWay, Undisturbed, Alone
<1>4. ~Meddle(req[c], req[d])
  BY <1>1, <1>2 DEF IInv, Apart, Undisturbed, Alone, Busy
<1>5. ASSUME NEW p \in Targets(req[c])
      PROVE  /\ p \in Paths /\ \A q \in Targets(req[d]) : ~IsPrefix(q, p)
             /\ link'[p] = link[p] /\ ContentAt(p)' = ContentAt(p)
             /\ link[p] # 0 => content'[link[p]] = content[link[p]]
  <2>1. p \in Paths /\ \A q \in Targets(req[d]) : ~IsPrefix(q, p)
    BY <1>3, <1>4, TargetsOfStore DEF Meddle, IInv
  <2>2. link[p] # 0 => link[p] # fd[d]
    BY <1>3 DEF HasItsOwn
  <2>3. link'[p] = link[p] /\ (link[p] # 0 => content'[link[p]] = content[link[p]])
    BY <2>1, <2>2, Footprint DEF IInv
  <2> QED BY <2>1, <2>3 DEF ContentAt, IsFile
<1>6. /\ \A i \in 1 .. Len(req[c].entries) : Path(c, i) \in Targets(req[c]) /\ Path(c, i)' = Path(c, i)
      /\ at[c] \in {"open", "write", "unlink", "spoilt"} => This(c).path \in Targets(req[c])
      /\ This(c)' = This(c)
      /\ Targets(req[c])' = Targets(req[c])
  <2>1. \A i : Path(c, i)' = Path(c, i)
    BY <1>2 DEF Path
  <2>2. This(c)' = This(c)
    BY <1>1, <1>2 DEF This
  <2>3. Targets(req[c])' = Targets(req[c])
    BY <1>2 DEF Targets, Stores
  <2> QED BY <1>3, <2>1, <2>2, <2>3, TargetsOfStore DEF IInv
<1>7. nth[c] \in Nat \ {0} /\ Len(req[c].entries) \in Nat
      /\ (at[c] \in {"open", "write", "unlink", "spoilt"} => nth[c] \in 1 .. Len(req[c].entries))
      /\ (fd[c] # 0 <=> at[c] \in {"write", "unlink", "spoilt"})
      /\ (at[c] \in {"mkdir", "fetch"} => nth[c] = 1)
      /\ at[c] \in {"mkdir", "fetch", "open", "write", "unlink", "spoilt"}
  BY <1>2, <1>3, RequestShape DEF IInv, ClientsOK, StepsFit, Undisturbed, Busy
<1>8. HasItsOwn(c)'
  <2>1. (fd[c] # 0 => fd[c] = link[This(c).path])'
    BY <1>1, <1>3, <1>5, <1>6, <1>7 DEF HasItsOwn
  <2>2. /\ (at[c] = "write" => content[fd[c]] = Empty)'
        /\ (at[c] \in {"unlink", "spoilt"} => content[fd[c]] = Torn)'
    BY <1>1, <1>3, <1>5, <1>6, <1>7 DEF HasItsOwn
  <2>3. ASSUME NEW p \in Targets(req[c]), NEW e \in Clients \ {c}, fd'[e] # 0
        PROVE  link'[p] # fd'[e]
    <3>1. link'[p] = link[p] /\ p \in Paths
      BY <1>5
    <3>2. CASE fd'[e] = fd[e]
      BY <1>3, <2>3, <3>1, <3>2 DEF HasItsOwn
    <3>3. CASE fd'[e] # fd[e]
      <4>1. e = d /\ at[d] = "open" /\ fd'[d] = link'[This(d).path]
        BY <1>1, <2>3, <3>3, OpensItsOwn DEF IInv
      <4>2. This(d).path \in Targets(req[d]) /\ This(d).path \in Paths
        BY <4>1, ThisIsAPath, TargetsOfStore DEF IInv
      <4>3. This(d).path # p
        BY <1>5, <4>2, PrefixOrder
      <4> QED BY <2>3, <3>1, <4>1, <4>2, <4>3 DEF DiskOK, Tree, IsFile
    <3> QED BY <3>2, <3>3
  <2> QED BY <1>6, <2>1, <2>2, <2>3 DEF HasItsOwn
<1>9. Progress(c)'
  <2>1. \A i \in 1 .. Len(req[c].entries) : Stored(c, i) => Stored(c, i)'
    BY <1>1, <1>2, <1>5, <1>6 DEF Stored
  <2>2. \A i \in 1 .. Len(req[c].entries) : AsBefore(c, i) => AsBefore(c, i)'
    <3>1. ASSUME NEW i \in 1 .. Len(req[c].entries), ContentAt(Path(c, i)) = before[c][i]
          PROVE  AsBefore(c, i)'
      BY <1>2, <1>5, <1>6, <3>1 DEF AsBefore
    <3>2. ASSUME NEW i \in 1 .. Len(req[c].entries),
                 NEW j \in 1 .. nth[c], j # i, Path(c, j) = Path(c, i)
          PROVE  AsBefore(c, i)'
      <4>1. Path(c, j)' = Path(c, j) /\ Path(c, i)' = Path(c, i)
        BY <1>2 DEF Path
      <4> QED BY <1>1, <3>2, <4>1 DEF AsBefore
    <3> QED BY <3>1, <3>2 DEF AsBefore
  <2>3. \A i \in 1 .. (nth[c] - 1) : i \in 1 .. Len(req[c].entries)
    BY <1>7
  <2> QED BY <1>1, <1>2, <1>3, <1>7, <2>1, <2>2, <2>3 DEF Progress
<1> QED BY <1>8, <1>9

\* Entries that lie elsewhere than the file it works on stay as they are.
LEMMA OtherEntriesStay ==
    ASSUME IInv, NEW c \in Clients, Undisturbed(c), Open(c) \/ Write(c) \/ Unlink(c),
           NEW i \in 1 .. Len(req[c].entries), Path(c, i) # This(c).path
    PROVE  ContentAt(Path(c, i))' = ContentAt(Path(c, i))
<1>1. Path(c, i) \in Paths /\ HasItsOwn(c) /\ UNCHANGED req
  BY TargetsOfStore, OthersKeepTheirs DEF IInv, OnItsWay, Undisturbed, Alone, Client, asked
<1>2. PICK x \in Paths : x = Path(c, i) /\ Path(c, i)' = x
  BY <1>1 DEF Path
<1>3. ContentAt(x)' = ContentAt(x)
  BY <1>1, <1>2, OtherFilesStay DEF IInv, HasItsOwn
<1> QED BY <1>2, <1>3 DEF ContentAt, IsFile

LEMMA ItGoesOn ==
    ASSUME IInv, DiskOK', ClientsOK', NEW c \in Clients, Client(c), Undisturbed(c)'
    PROVE  (HasItsOwn(c) /\ Progress(c))'
<1>1. /\ \A e \in Clients \ {c} : fd'[e] = fd[e]
      /\ UNCHANGED asked /\ Busy(c)
  BY OthersKeepTheirs DEF IInv, Busy
<1>2. Undisturbed(c) /\ req'[c] = req[c] /\ no'[c] = no[c] /\ before'[c] = before[c]
  BY <1>1, UndisturbedWas
<1>3. HasItsOwn(c) /\ Progress(c) /\ req[c] \in Stores
  BY <1>2 DEF IInv, OnItsWay, Undisturbed, Alone
<1>4. at'[c] # "idle" /\ at[c] # "change"
  BY <1>3 DEF Undisturbed, Busy, IInv, ClientsOK, StepsFit
<1>5. \A result : ~End(c, result)
  BY <1>4 DEF End, IInv, ClientsOK
<1>6. /\ nth[c] \in Nat \ {0} /\ Len(req[c].entries) \in Nat
      /\ at[c] \in {"open", "write", "unlink", "spoilt"} => nth[c] \in 1 .. Len(req[c].entries)
      /\ fd[c] # 0 <=> at[c] \in {"write", "unlink", "spoilt"}
      /\ at[c] \in {"mkdir", "fetch"} => nth[c] = 1
  BY <1>3, RequestShape DEF IInv, ClientsOK, StepsFit
<1>7. /\ \A i : Path(c, i)' = Path(c, i)
      /\ Targets(req[c])' = Targets(req[c])
      /\ \A i \in 1 .. Len(req[c].entries) : Path(c, i) \in Targets(req[c]) /\ Path(c, i) \in Paths
      /\ \A p \in Targets(req[c]) : p \in Paths
      /\ at[c] \in {"open", "write", "unlink", "spoilt"} =>
             This(c).path = Path(c, nth[c]) /\ This(c).path \in Paths
  <2>1. \A i : Path(c, i)' = Path(c, i)
    BY <1>2 DEF Path
  <2>2. Targets(req[c])' = Targets(req[c])
    BY <1>2 DEF Targets, Stores
  <2> QED BY <1>3, <2>1, <2>2, TargetsOfStore, ThisIsAPath DEF IInv
\* The files arrive.
<1>8. CASE MkdirAll(c) \/ Fetch(c)
  <2>1. /\ nth'[c] = nth[c] /\ fd'[c] = fd[c] /\ fd[c] = 0 /\ UNCHANGED <<link, content>>
        /\ at'[c] \in {"fetch", "open"}
    BY <1>5, <1>6, <1>8 DEF MkdirAll, Fetch, Go, treeVars, IInv, ClientsOK
  <2>2. HasItsOwn(c)'
    BY <1>1, <1>3, <1>7, <2>1 DEF HasItsOwn
  <2>3. \A i : (Stored(c, i) => Stored(c, i)') /\ (AsBefore(c, i) => AsBefore(c, i)')
    BY <1>2, <1>7, <2>1 DEF Stored, AsBefore, ContentAt, IsFile
  <2>4. Progress(c)'
    BY <1>2, <1>3, <1>6, <2>1, <2>3 DEF Progress
  <2> QED BY <2>2, <2>4
\* A directory is made, and the next entry is come to.
<1>9. CASE EntryDir(c)
  <2>1. /\ nth'[c] = nth[c] + 1 /\ fd'[c] = 0 /\ fd[c] = 0 /\ UNCHANGED <<link, content>>
        /\ at'[c] = "open" /\ at[c] = "open" /\ req[c].entries[nth[c]].dir
    BY <1>5, <1>6, <1>9 DEF EntryDir, NextEntry, Go, IInv, ClientsOK, This
  <2>2. HasItsOwn(c)'
    BY <1>1, <1>3, <1>7, <2>1 DEF HasItsOwn
  <2>3. \A i \in 1 .. nth[c] : Stored(c, i)'
    BY <1>2, <1>3, <1>6, <1>7, <2>1 DEF Progress, Stored, ContentAt, IsFile
  <2>4. \A i \in nth[c] + 1 .. Len(req[c].entries) : AsBefore(c, i)'
    BY <1>2, <1>3, <1>6, <1>7, <2>1 DEF Progress, AsBefore, ContentAt, IsFile
  <2>5. Progress(c)'
    BY <1>2, <1>6, <2>1, <2>3, <2>4 DEF Progress
  <2> QED BY <2>2, <2>5
\* A file is opened: of the entries it is only this one's content that changes.
<1>10. CASE Open(c)
  <2> DEFINE p == This(c).path
             i == IF IsFile(p) THEN link[p] ELSE CHOOSE j \in Spare : TRUE
  <2>1. CanOpen(p) /\ Opened(c, p) /\ at'[c] = "write" /\ nth'[c] = nth[c] /\ at[c] = "open"
    BY <1>5, <1>10 DEF Open, Go, IInv, ClientsOK
  <2>2. link' = [link EXCEPT ![p] = i] /\ content' = [content EXCEPT ![i] = Empty]
        /\ fd' = [fd EXCEPT ![c] = i]
    BY <2>1 DEF Opened
  <2>3. i \in Inodes /\ \A e \in Clients \ {c} : fd[e] # 0 => fd[e] # i
    <3>1. CASE IsFile(p)
      <4>1. p \in Targets(req[c]) /\ p \in Paths
        BY <1>6, <1>7, <2>1
      <4> QED BY <1>3, <3>1, <4>1 DEF HasItsOwn, IInv, DiskOK, IsFile
    <3>2. CASE ~IsFile(p)
      BY <2>1, <3>2, SpareIsSpare DEF CanOpen
    <3> QED BY <3>1, <3>2
  <2>4. p \in Paths /\ p = Path(c, nth[c]) /\ This(c)' = This(c)
    BY <1>2, <1>7, <2>1 DEF This
  <2> HIDE DEF i, p
  <2>5. link'[p] = i /\ content'[i] = Empty /\ fd'[c] = i /\ i # 0
    BY <2>2, <2>3, <2>4, FilesAssumption DEF IInv, DiskOK, ClientsOK, FilesAssumption
  <2>6. HasItsOwn(c)'
    <3>1. ASSUME NEW q \in Targets(req[c]), NEW e \in Clients \ {c}, fd'[e] # 0
          PROVE  link'[q] # fd'[e]
      <4>1. fd'[e] = fd[e] /\ q \in Paths
        BY <1>1, <1>7
      <4>2. link'[q] = IF q = p THEN i ELSE link[q]
        BY <2>2, <2>4, <4>1 DEF IInv, DiskOK
      <4> QED BY <1>3, <2>3, <3>1, <4>1, <4>2 DEF HasItsOwn
    <3>2. at'[c] = "write" /\ link'[This(c).path'] = fd'[c] /\ content'[fd'[c]] = Empty
      BY <2>1, <2>4, <2>5 DEF p
    <3> QED BY <1>7, <3>1, <3>2 DEF HasItsOwn
  <2>7. \A k \in 1 .. Len(req[c].entries) :
            Path(c, k) = p \/ ContentAt(Path(c, k))' = ContentAt(Path(c, k))
    BY <1>2, <1>10, OtherEntriesStay DEF p
  <2>8. \A k \in 1 .. nth[c] - 1 : Stored(c, k)'
    <3>1. ASSUME NEW k \in 1 .. nth[c] - 1 PROVE Stored(c, k)'
      <4>1. k \in 1 .. Len(req[c].entries) /\ Stored(c, k) /\ fd[c] = 0
        BY <1>3, <1>6, <2>1 DEF Progress
      <4> QED BY <1>2, <1>7, <2>4, <2>5, <2>7, <4>1 DEF Stored, p
    <3> QED BY <3>1
  <2>9. \A k \in nth[c] .. Len(req[c].entries) : k # nth[c] => AsBefore(c, k)'
    <3>1. ASSUME NEW k \in nth[c] .. Len(req[c].entries), k # nth[c] PROVE AsBefore(c, k)'
      <4>1. k \in 1 .. Len(req[c].entries) /\ AsBefore(c, k) /\ nth[c] \in 1 .. nth[c]
        BY <1>3, <1>6, <2>1, <3>1 DEF Progress
      <4>2. CASE Path(c, k) = p
        BY <1>7, <2>1, <2>4, <3>1, <4>1, <4>2 DEF AsBefore
      <4>3. CASE Path(c, k) # p
        BY <1>2, <1>7, <2>1, <2>7, <4>1, <4>3 DEF AsBefore
      <4> QED BY <4>2, <4>3
    <3> QED BY <3>1
  <2>10. Progress(c)'
    BY <1>2, <1>6, <2>1, <2>5, <2>8, <2>9 DEF Progress
  <2> QED BY <2>6, <2>10
\* A file is written, or is not and about to be removed.
<1>11. CASE Write(c)
  <2> DEFINE p == This(c).path
  <2>1. at[c] = "write" /\ link' = link /\ fd[c] = link[p] /\ fd[c] # 0 /\ content[fd[c]] = Empty
    BY <1>3, <1>6, <1>11 DEF Write, HasItsOwn
  <2>2. p \in Paths /\ p = Path(c, nth[c]) /\ nth[c] \in 1 .. Len(req[c].entries) /\ fd[c] \in Inodes
    BY <1>6, <1>7, <2>1 DEF IInv, ClientsOK
  <2> HIDE DEF p
  <2>3. \A k \in 1 .. Len(req[c].entries) :
            Path(c, k) = p \/ ContentAt(Path(c, k))' = ContentAt(Path(c, k))
    BY <1>2, <1>11, OtherEntriesStay DEF p
  <2>4. \A k \in nth[c] + 1 .. Len(req[c].entries) :
            ContentAt(Path(c, k))' = before[c][k] \/ \E j \in 1 .. nth[c] : j # k /\ Path(c, j) = Path(c, k)
    <3>1. ASSUME NEW k \in nth[c] + 1 .. Len(req[c].entries), Path(c, k) # p,
                 ~\E j \in 1 .. nth[c] : j # k /\ Path(c, j) = Path(c, k)
          PROVE  ContentAt(Path(c, k))' = before[c][k]
      <4>1. k \in 1 .. Len(req[c].entries) /\ AsBefore(c, k)
        BY <1>3, <1>6 DEF Progress
      <4> QED BY <2>3, <3>1, <4>1 DEF AsBefore
    <3>2. ASSUME NEW k \in nth[c] + 1 .. Len(req[c].entries), Path(c, k) = p
          PROVE  \E j \in 1 .. nth[c] : j # k /\ Path(c, j) = Path(c, k)
      <4>1. nth[c] \in 1 .. nth[c] /\ nth[c] # k
        BY <1>6
      <4> QED BY <2>2, <3>2, <4>1
    <3> QED BY <3>1, <3>2
  <2>5. CASE Copied(c) /\ NextEntry(c)
    <3>1. nth'[c] = nth[c] + 1 /\ fd'[c] = 0 /\ at'[c] = "open"
      BY <1>5, <2>5 DEF NextEntry, Go, IInv, ClientsOK
    <3>2. content'[fd[c]] = no[c]
      BY <2>1, <2>2, <2>5 DEF Copied, IInv, DiskOK
    <3>3. HasItsOwn(c)'
      BY <1>1, <1>3, <1>7, <2>1, <3>1 DEF HasItsOwn
    <3>4. ASSUME NEW k \in 1 .. nth[c] PROVE Stored(c, k)'
      <4>1. k \in 1 .. Len(req[c].entries)
        BY <1>6, <2>2
      <4>2. CASE Path(c, k) = p
        BY <1>2, <1>7, <2>1, <3>2, <4>2 DEF Stored, ContentAt, IsFile
      <4>3. CASE Path(c, k) # p
        <5>1. k \in 1 .. nth[c] - 1
          BY <1>6, <2>2, <4>3
        <5>2. Stored(c, k)
          BY <1>3, <5>1 DEF Progress
        <5> QED BY <1>2, <1>7, <2>3, <4>1, <4>3, <5>2 DEF Stored, p
      <4> QED BY <4>2, <4>3
    <3>5. \A k \in nth[c] + 1 .. Len(req[c].entries) : AsBefore(c, k)'
      <4>1. 1 .. nth[c] \subseteq 1 .. nth[c] + 1
        BY <1>6
      <4> QED BY <1>2, <1>7, <2>4, <3>1, <4>1 DEF AsBefore
    <3>6. Progress(c)'
      BY <1>2, <1>6, <3>1, <3>4, <3>5 DEF Progress
    <3> QED BY <3>3, <3>6
  <2>6. CASE CopyFails(c) /\ (Go(c, "unlink") \/ Go(c, "spoilt")) /\ UNCHANGED <<nth, fd>>
    <3>1. /\ nth'[c] = nth[c] /\ fd'[c] = fd[c] /\ at'[c] \in {"unlink", "spoilt"}
          /\ This(c)' = This(c) /\ content'[fd[c]] = Torn
      BY <1>2, <2>2, <2>6 DEF Go, CopyFails, IInv, ClientsOK, DiskOK, This
    <3>2. HasItsOwn(c)'
      BY <1>1, <1>3, <1>7, <2>1, <3>1 DEF HasItsOwn
    <3>3. ASSUME NEW k \in 1 .. nth[c] - 1 PROVE Stored(c, k)'
      <4>1. k \in 1 .. Len(req[c].entries) /\ Stored(c, k)
        BY <1>3, <1>6, <2>2 DEF Progress
      <4> QED BY <1>2, <1>7, <2>1, <2>3, <3>1, <4>1 DEF Stored, p
    <3>4. \A k \in nth[c] .. Len(req[c].entries) : k # nth[c] => AsBefore(c, k)'
      <4>1. \A k \in nth[c] .. Len(req[c].entries) : k # nth[c] => k \in nth[c] + 1 .. Len(req[c].entries)
        BY <1>6
      <4> QED BY <1>2, <1>7, <2>4, <3>1, <4>1 DEF AsBefore
    <3>5. Progress(c)'
      BY <1>2, <1>6, <2>1, <3>1, <3>3, <3>4 DEF Progress
    <3> QED BY <3>2, <3>5
  <2> QED BY <1>5, <1>11, <2>5, <2>6 DEF Write
<1> QED BY <1>4, <1>5, <1>8, <1>9, <1>10, <1>11
        DEF Client, Unlink, Mkdir, Delete, Rename, Uninstall

LEMMA OthersOpenElsewhere ==
    ASSUME IInv, NEW d \in Clients, Busy(d), ~touched[d], fd[d] # 0
    PROVE  fd[d] = link[This(d).path] /\ This(d).path \in Targets(req[d]) /\ This(d).path \in Paths
<1>1. at[d] \in {"write", "unlink", "spoilt"} /\ req[d] \in Stores
  BY DEF IInv, ClientsOK, StepsFit
<1>2. HasItsOwn(d)
  BY <1>1 DEF IInv, OnItsWay, Undisturbed, Alone
<1> QED BY <1>1, <1>2, TargetsOfStore, ThisIsAPath DEF IInv, HasItsOwn

\* A request begins: it is untouched if it meets nobody, and leaves those untouched
\* which it does not meet.
LEMMA ItBegins ==
    ASSUME IInv, DiskOK', ClientsOK', NEW c \in Clients, NEW r \in Requests, Begin(c, r)
    PROVE  Apart' /\ OnItsWay'
<1> DEFINE met == {d \in Clients \ {c} : at[d] # "idle" /\ (touched[d] \/ Meddle(r, req[d]))}
<1>1. /\ \A d \in Clients \ {c} : /\ req'[d] = req[d] /\ no'[d] = no[d] /\ at'[d] = at[d]
                                  /\ before'[d] = before[d]
                                  /\ touched'[d] = (touched[d] \/ d \in met)
      /\ req'[c] = r /\ touched'[c] = (met # {}) /\ at[c] = "idle"
      /\ before'[c] = [i \in DOMAIN r.entries |-> ContentAt(r.entries[i].path)]
      /\ UNCHANGED <<dirs, link, content, nth, fd>>
  BY DEF Begin, treeVars, IInv, ClientsOK
<1>2. \A d \in Clients \ {c} : Busy(d)' <=> Busy(d)
  BY <1>1 DEF Busy
<1> HIDE DEF met
<1>3. \A d \in Clients \ {c} : Busy(d) /\ (~touched'[d] \/ ~touched'[c])
                                 => ~touched[d] /\ ~Meddle(r, req[d])
  BY <1>1 DEF met, Busy
<1>4. Apart'
  <2>1. ASSUME NEW d \in Clients, NEW e \in Clients, d # e, Busy(d)', Busy(e)', ~touched'[d]
        PROVE  ~Meddle(req'[d], req'[e])
    <3>1. CASE d # c /\ e # c
      <4>1. Busy(d) /\ Busy(e) /\ ~touched[d]
        BY <1>1, <1>2, <2>1, <3>1
      <4> QED BY <1>1, <2>1, <3>1, <4>1 DEF IInv, Apart
    <3>2. CASE d = c /\ e # c
      BY <1>1, <1>2, <1>3, <2>1, <3>2
    <3>3. CASE d # c /\ e = c
      BY <1>1, <1>2, <1>3, <2>1, <3>3, MeddleIsMutual
    <3> QED BY <2>1, <3>1, <3>2, <3>3
  <2>2. \A x, y : Meddle(x, y)' = Meddle(x, y)
    BY DEF Meddle, Targets, Stores
  <2> QED BY <2>1, <2>2 DEF Apart, Meddle, Targets, Stores
<1>5. ASSUME NEW d \in Clients \ {c}, Undisturbed(d)'
      PROVE  (HasItsOwn(d) /\ Progress(d))'
  <2>1. Undisturbed(d)
    BY <1>1, <1>2, <1>5 DEF Undisturbed, Alone, Stores
  <2>2. HasItsOwn(d) /\ Progress(d)
    BY <2>1 DEF IInv, OnItsWay
  <2>3. Targets(req[d])' = Targets(req[d]) /\ This(d)' = This(d)
        /\ \A i : Path(d, i)' = Path(d, i)
    BY <1>1 DEF Targets, Stores, This, Path
  <2>4. HasItsOwn(d)'
    BY <1>1, <2>2, <2>3 DEF HasItsOwn
  <2>5. \A i : (Stored(d, i) => Stored(d, i)') /\ (AsBefore(d, i) => AsBefore(d, i)')
    BY <1>1, <2>3 DEF Stored, AsBefore, ContentAt, IsFile
  <2>6. Progress(d)'
    BY <1>1, <2>2, <2>5 DEF Progress
  <2> QED BY <2>4, <2>6
<1>6. ASSUME Undisturbed(c)'
      PROVE  (HasItsOwn(c) /\ Progress(c))'
  <2>1. r \in Stores /\ ~touched'[c]
    BY <1>1, <1>6 DEF Undisturbed, Alone, Stores
  <2>2. at'[c] = "mkdir" /\ nth'[c] = 1 /\ fd'[c] = 0
    BY <1>1, <2>1 DEF Begin, IInv, ClientsOK, StepsFit
  <2>3. Targets(req[c])' = {r.entries[i].path : i \in DOMAIN r.entries}
    BY <1>1, <2>1 DEF Targets, Stores
  <2>4. Targets(r) = {r.entries[i].path : i \in DOMAIN r.entries}
    BY <2>1 DEF Targets
  <2>5. ASSUME NEW p \in Targets(r), NEW d \in Clients \ {c}, fd'[d] # 0
        PROVE  link'[p] # fd'[d]
    <3>1. fd[d] # 0 /\ Busy(d) /\ p \in Paths
      <4>1. p \in Paths
        BY <2>4, RequestShape
      <4> QED BY <1>1, <2>5, <4>1 DEF IInv, ClientsOK, Busy
    <3>2. ~touched[d] /\ ~Meddle(r, req[d])
      BY <1>3, <2>1, <3>1
    <3>3. fd[d] = link[This(d).path] /\ This(d).path \in Targets(req[d]) /\ This(d).path \in Paths
      BY <3>1, <3>2, OthersOpenElsewhere
    <3>4. p # This(d).path
      BY <3>1, <3>2, <3>3, PrefixOrder DEF Meddle
    <3> QED BY <1>1, <3>1, <3>3, <3>4 DEF IInv, DiskOK, Tree, IsFile
  <2>6. HasItsOwn(c)'
    BY <2>2, <2>3, <2>4, <2>5 DEF HasItsOwn
  <2>7. \A i \in DOMAIN r.entries : AsBefore(c, i)'
    BY <1>1 DEF AsBefore, Path, ContentAt, IsFile
  <2>8. Progress(c)'
    BY <1>1, <2>2, <2>7, RequestShape DEF Progress
  <2> QED BY <2>6, <2>8
<1> QED BY <1>4, <1>5, <1>6 DEF OnItsWay

LEMMA InvInit == Init => IInv
<1> SUFFICES ASSUME Init PROVE IInv
  OBVIOUS
<1>1. \A c \in Clients : ~Busy(c)
  BY DEF Init, Busy
<1> QED BY <1>1, TypeInit DEF IInv, Apart, OnItsWay, Undisturbed

LEMMA InvNext ==
    ASSUME IInv, [Next]_vars
    PROVE  IInv'
<1>1. DiskOK' /\ ClientsOK'
  BY TypeNext DEF IInv
<1>2. CASE Crash
  <2>1. \A c \in Clients : ~Busy(c)'
    BY <1>2 DEF Crash, Busy
  <2> QED BY <1>1, <2>1 DEF IInv, Apart, OnItsWay, Undisturbed
<1>3. ASSUME NEW d \in Clients, Client(d) PROVE IInv'
  <2>1. Apart'
    <3>1. UNCHANGED asked /\ at[d] # "idle" /\ \A c \in Clients \ {d} : at'[c] = at[c]
      BY <1>3, OthersKeepTheirs DEF IInv
    <3>2. \A c \in Clients : Busy(c)' => Busy(c)
      BY <3>1 DEF Busy
    <3> QED BY <3>1, <3>2, ApartStays DEF IInv
  <2>2. ASSUME NEW c \in Clients, Undisturbed(c)' PROVE (HasItsOwn(c) /\ Progress(c))'
    BY <1>1, <1>3, <2>2, ItGoesOn, OthersLeaveItsWay
  <2> QED BY <1>1, <2>1, <2>2 DEF IInv, OnItsWay
<1>4. ASSUME NEW c \in Clients, NEW r \in Requests, Begin(c, r) PROVE IInv'
  BY <1>1, <1>4, ItBegins DEF IInv
<1>5. CASE UNCHANGED vars
  <2>1. Apart'
    BY <1>5, ApartStays DEF vars, asked, Busy, IInv
  <2>2. ASSUME NEW c \in Clients, Undisturbed(c)' PROVE (HasItsOwn(c) /\ Progress(c))'
    <3>1. HasItsOwn(c) /\ Progress(c)
      BY <1>5, <2>2 DEF vars, IInv, OnItsWay, Undisturbed, Busy, Alone, Stores
    <3>2. HasItsOwn(c)'
      BY <1>5, <3>1 DEF vars, HasItsOwn, This, Targets, Stores
    <3>3. Progress(c)'
      BY <1>5, <3>1 DEF vars, Progress, Stored, AsBefore, Path, This, ContentAt, IsFile
    <3> QED BY <3>2, <3>3
  <2> QED BY <1>1, <2>1, <2>2 DEF IInv, OnItsWay
<1> QED BY <1>2, <1>3, <1>4, <1>5 DEF Next

\* The inductive invariant holds in every state.
THEOREM InvariantHolds == Spec => []IInv
<1>1. Init => IInv
  BY InvInit
<1>2. IInv /\ [Next]_vars => IInv'
  BY InvNext
<1> QED BY <1>1, <1>2, PTL DEF Spec

-----------------------------------------------------------------------------
(* How a request ends.                                                     *)

\* A request ends by a step of its own.
LEMMA EndsByItsOwnStep ==
    ASSUME IInv, [Next]_vars, NEW c \in Clients, Ends(c, "ok") \/ Ends(c, "failed")
    PROVE  Client(c)
<1>1. ASSUME Crash PROVE FALSE
  BY <1>1 DEF Crash, Ends
<1>2. ASSUME NEW d \in Clients, d # c, Client(d) PROVE FALSE
  BY <1>2, OthersKeepTheirs DEF IInv, Ends
<1>3. ASSUME NEW d \in Clients, NEW r \in Requests, Begin(d, r) PROVE FALSE
  BY <1>3 DEF Begin, Ends, IInv, ClientsOK
<1>4. ASSUME UNCHANGED vars PROVE FALSE
  BY <1>4 DEF vars, Ends
<1> QED BY <1>1, <1>2, <1>3, <1>4 DEF Next

\* What is known of an undisturbed request as it ends.
LEMMA AtTheEnd ==
    ASSUME IInv, [Next]_vars, NEW c \in Clients, Alone(c), Ends(c, "ok") \/ Ends(c, "failed")
    PROVE  /\ Client(c) /\ Undisturbed(c) /\ HasItsOwn(c) /\ Progress(c) /\ req' = req
           /\ req[c] \in Requests /\ nth[c] \in Nat \ {0} /\ Len(req[c].entries) \in Nat
           /\ DOMAIN req[c].entries = 1 .. Len(req[c].entries)
           /\ at[c] \in {"mkdir", "fetch", "open", "write", "unlink", "spoilt"}
           /\ at[c] \in {"open", "write", "unlink", "spoilt"} =>
                  /\ nth[c] \in 1 .. Len(req[c].entries)
                  /\ This(c).path = Path(c, nth[c]) /\ This(c).path \in Paths
           /\ at[c] \in {"mkdir", "fetch"} => nth[c] = 1
           /\ fd[c] # 0 <=> at[c] \in {"write", "unlink", "spoilt"}
<1>1. Client(c) /\ Undisturbed(c)
  BY EndsByItsOwnStep DEF Ends, Undisturbed, Busy
<1>2. HasItsOwn(c) /\ Progress(c) /\ req' = req
  BY <1>1, OthersKeepTheirs DEF IInv, OnItsWay, asked
<1>3. req[c] \in Stores /\ req[c] \in Requests
  BY DEF Alone, IInv, ClientsOK
<1> QED BY <1>1, <1>2, <1>3, RequestShape, ThisIsAPath
        DEF IInv, ClientsOK, StepsFit, Undisturbed, Busy, This, Path

LEMMA EndsOk ==
    ASSUME IInv, [Next]_vars, NEW c \in Clients, Alone(c), Ends(c, "ok"),
           NEW i \in DOMAIN req[c].entries
    PROVE  Holds(c, i)
<1>1. /\ Client(c) /\ Undisturbed(c) /\ HasItsOwn(c) /\ Progress(c) /\ req' = req
      /\ req[c] \in Requests /\ nth[c] \in Nat \ {0} /\ Len(req[c].entries) \in Nat
      /\ DOMAIN req[c].entries = 1 .. Len(req[c].entries)
      /\ at[c] \in {"mkdir", "fetch", "open", "write", "unlink", "spoilt"}
      /\ at[c] \in {"open", "write", "unlink", "spoilt"} =>
             /\ nth[c] \in 1 .. Len(req[c].entries)
             /\ This(c).path = Path(c, nth[c]) /\ This(c).path \in Paths
      /\ fd[c] # 0 <=> at[c] \in {"write", "unlink", "spoilt"}
  BY AtTheEnd
<1>2. at'[c] = "idle" /\ outcome'[c] = "ok"
  BY DEF Ends
<1>3. ~Go(c, "open") /\ ~Go(c, "write") /\ ~Go(c, "fetch") /\ ~Go(c, "unlink") /\ ~Go(c, "spoilt") /\ ~End(c, "failed")
  BY <1>2 DEF Go, End, IInv, ClientsOK
<1>4. CASE Fetch(c)
  <2>1. req[c].entries = <<>>
    BY <1>3, <1>4 DEF Fetch
  <2> QED BY <2>1
<1>5. CASE EntryDir(c)
  <2>1. nth[c] = Len(req[c].entries) /\ fd[c] = 0 /\ UNCHANGED <<link, content>>
        /\ req[c].entries[nth[c]].dir
    BY <1>1, <1>3, <1>5 DEF EntryDir, NextEntry, This
  <2>2. i = nth[c] \/ Stored(c, i)
    BY <1>1, <2>1 DEF Progress
  <2>3. ContentAt(req[c].entries[i].path)' = ContentAt(Path(c, i))
    BY <1>1, <2>1 DEF ContentAt, IsFile, Path
  <2> QED BY <2>1, <2>2, <2>3 DEF Stored, Holds
<1>6. CASE Write(c)
  <2>1. Copied(c) /\ nth[c] = Len(req[c].entries) /\ link' = link
    BY <1>1, <1>3, <1>6 DEF Write, NextEntry
  <2>2. at[c] = "write" /\ fd[c] = link[This(c).path] /\ fd[c] # 0 /\ fd[c] \in Inodes
        /\ content[fd[c]] = Empty
    BY <1>1, <1>6 DEF Write, HasItsOwn, IInv, ClientsOK
  <2>3. content'[fd[c]] = no[c]
    BY <2>1, <2>2 DEF Copied, IInv, DiskOK
  <2>4. CASE Path(c, i) = This(c).path
    BY <1>1, <2>1, <2>2, <2>3, <2>4 DEF Holds, ContentAt, IsFile, Path
  <2>5. CASE Path(c, i) # This(c).path
    <3>1. ContentAt(Path(c, i))' = ContentAt(Path(c, i))
      BY <1>1, <1>6, <2>5, OtherEntriesStay
    <3>2. Stored(c, i)
      <4>1. i \in 1 .. nth[c] - 1
        BY <1>1, <2>1, <2>2, <2>5
      <4> QED BY <1>1, <4>1 DEF Progress
    <3>3. ContentAt(req[c].entries[i].path)' = ContentAt(Path(c, i))'
      BY DEF Path
    <3> QED BY <2>5, <3>1, <3>2, <3>3 DEF Stored, Holds
  <2> QED BY <2>4, <2>5
<1> QED BY <1>1, <1>3, <1>4, <1>5, <1>6
        DEF Client, MkdirAll, Open, Unlink, Mkdir, Delete, Rename, Uninstall

\* What is answered with success is stored, of every upload, import and install that
\* nobody meddled with.
THEOREM SuccessMeansStored == Spec => StoredWhenOk
<1>1. IInv /\ [Next]_vars
        => [\A c \in Clients : Alone(c) /\ Ends(c, "ok")
              => \A i \in DOMAIN req[c].entries : Holds(c, i)]_vars
  BY EndsOk
<1> QED BY <1>1, InvariantHolds, PTL DEF Spec, StoredWhenOk

\* What a request that fails leaves, of which the number of the entry it failed at is k.
LEMMA EndsFailed ==
    ASSUME IInv, [Next]_vars, NEW c \in Clients, Alone(c), Ends(c, "failed"),
           req[c].entries # <<>>
    PROVE  \E k \in DOMAIN req[c].entries :
              /\ \A i \in 1 .. (k - 1) :
                    Holds(c, i) \/ req[c].entries[i].path = req[c].entries[k].path
              /\ \A i \in (k + 1) .. Len(req[c].entries) :
                    \/ ContentAt(req[c].entries[i].path)' = before[c][i]
                    \/ \E j \in 1 .. k : req[c].entries[j].path = req[c].entries[i].path
<1>1. /\ Client(c) /\ Undisturbed(c) /\ HasItsOwn(c) /\ Progress(c) /\ req' = req
      /\ req[c] \in Requests /\ nth[c] \in Nat \ {0} /\ Len(req[c].entries) \in Nat
      /\ DOMAIN req[c].entries = 1 .. Len(req[c].entries)
      /\ at[c] \in {"mkdir", "fetch", "open", "write", "unlink", "spoilt"}
      /\ at[c] \in {"open", "write", "unlink", "spoilt"} =>
             /\ nth[c] \in 1 .. Len(req[c].entries)
             /\ This(c).path = Path(c, nth[c]) /\ This(c).path \in Paths
      /\ at[c] \in {"mkdir", "fetch"} => nth[c] = 1
      /\ fd[c] # 0 <=> at[c] \in {"write", "unlink", "spoilt"}
  BY AtTheEnd
<1>2. nth[c] \in 1 .. Len(req[c].entries)
  <2>1. Len(req[c].entries) # 0
    BY <1>1, RequestShape
  <2> QED BY <1>1, <2>1
<1>3. at'[c] = "idle" /\ outcome'[c] = "failed"
  BY DEF Ends
<1>4. ~Go(c, "open") /\ ~Go(c, "write") /\ ~Go(c, "fetch") /\ ~Go(c, "unlink") /\ ~Go(c, "spoilt") /\ ~End(c, "ok")
  BY <1>3 DEF Go, End, IInv, ClientsOK
\* Only the file it works on changes.
<1>5. ASSUME NEW i \in 1 .. Len(req[c].entries)
      PROVE  Path(c, i) = Path(c, nth[c]) \/ ContentAt(req[c].entries[i].path)' = ContentAt(Path(c, i))
  <2>1. CASE UNCHANGED <<link, content>>
    BY <1>1, <2>1 DEF ContentAt, IsFile, Path
  <2>2. CASE Open(c) \/ Write(c) \/ Unlink(c)
    <3>1. This(c).path = Path(c, nth[c])
      BY <1>1, <2>2 DEF Open, Write, Unlink
    <3>2. Path(c, i) = Path(c, nth[c]) \/ ContentAt(Path(c, i))' = ContentAt(Path(c, i))
      BY <1>1, <2>2, <3>1, OtherEntriesStay
    <3> QED BY <3>2 DEF Path
  <2>3. UNCHANGED <<link, content>> \/ Open(c) \/ Write(c) \/ Unlink(c)
    BY <1>1 DEF Client, MkdirAll, Fetch, EntryDir, Mkdir, Delete, Rename, Uninstall, treeVars
  <2> QED BY <2>1, <2>2, <2>3
<1>6. ASSUME NEW i \in 1 .. (nth[c] - 1)
      PROVE  Holds(c, i) \/ req[c].entries[i].path = req[c].entries[nth[c]].path
  <2>1. i \in 1 .. Len(req[c].entries) /\ i < nth[c]
    BY <1>1, <1>2
  <2>2. Stored(c, i)
    BY <1>1 DEF Progress
  <2>3. fd[c] # 0 => This(c).path = Path(c, nth[c])
    BY <1>1
  <2> QED BY <1>5, <2>1, <2>2, <2>3 DEF Stored, Holds, Path
<1>7. ASSUME NEW i \in (nth[c] + 1) .. Len(req[c].entries)
      PROVE  \/ ContentAt(req[c].entries[i].path)' = before[c][i]
             \/ \E j \in 1 .. nth[c] : req[c].entries[j].path = req[c].entries[i].path
  <2>1. /\ i \in 1 .. Len(req[c].entries) /\ i \in nth[c] .. Len(req[c].entries)
        /\ i # nth[c] /\ nth[c] \in 1 .. nth[c]
    BY <1>1, <1>2
  <2>2. AsBefore(c, i)
    BY <1>1, <2>1 DEF Progress
  <2>3. CASE Path(c, i) = Path(c, nth[c])
    BY <2>1, <2>3 DEF Path
  <2>4. CASE Path(c, i) # Path(c, nth[c])
    BY <1>5, <2>1, <2>2, <2>4 DEF AsBefore, Path
  <2> QED BY <2>3, <2>4
<1> QED BY <1>1, <1>2, <1>6, <1>7

\* An upload or import that fails has stored its entries up to one of them and left the
\* files of those after it as they were.
THEOREM FailureStoresAPrefix == Spec => FailedStoresAPrefix
<1>1. IInv /\ [Next]_vars
        => [\A c \in Clients : Alone(c) /\ Ends(c, "failed") /\ req[c].entries # <<>>
              => \E k \in DOMAIN req[c].entries :
                    /\ \A i \in 1 .. (k - 1) :
                          Holds(c, i) \/ req[c].entries[i].path = req[c].entries[k].path
                    /\ \A i \in (k + 1) .. Len(req[c].entries) :
                          \/ ContentAt(req[c].entries[i].path)' = before[c][i]
                          \/ \E j \in 1 .. k : req[c].entries[j].path = req[c].entries[i].path]_vars
  BY EndsFailed
<1> QED BY <1>1, InvariantHolds, PTL DEF Spec, FailedStoresAPrefix

LEMMA InstallFails ==
    ASSUME IInv, [Next]_vars, NEW c \in Clients, Alone(c), req[c].op = "install",
           Ends(c, "failed")
    PROVE  ContentAt(req[c].entries[1].path)' \in
              IF at[c] = "spoilt" THEN {Absent, Torn} ELSE {Absent, before[c][1]}
<1>1. /\ Client(c) /\ HasItsOwn(c) /\ Progress(c) /\ req' = req
      /\ req[c] \in Requests /\ nth[c] \in Nat \ {0}
      /\ at[c] \in {"open", "write", "unlink", "spoilt"} =>
             /\ nth[c] \in 1 .. Len(req[c].entries)
             /\ This(c).path = Path(c, nth[c]) /\ This(c).path \in Paths
      /\ at[c] \in {"mkdir", "fetch"} => nth[c] = 1
      /\ fd[c] # 0 <=> at[c] \in {"write", "unlink", "spoilt"}
      /\ at[c] \in {"mkdir", "fetch", "open", "write", "unlink", "spoilt"}
  BY AtTheEnd
<1>2. Len(req[c].entries) = 1 /\ nth[c] = 1
  <2>1. \A r \in Requests : r.op = "install" => Len(r.entries) = 1
    BY RequestsAssumption DEF RequestsAssumption
  <2>2. Len(req[c].entries) = 1
    BY <1>1, <2>1
  <2> QED BY <1>1, <2>2
<1>3. at'[c] = "idle" /\ outcome'[c] = "failed"
  BY DEF Ends
<1>4. ~Go(c, "open") /\ ~Go(c, "write") /\ ~Go(c, "fetch") /\ ~Go(c, "unlink") /\ ~Go(c, "spoilt") /\ ~End(c, "ok")
  BY <1>3 DEF Go, End, IInv, ClientsOK
<1>5. ContentAt(req[c].entries[1].path)' =
        (IF link'[Path(c, 1)] # 0 THEN content'[link'[Path(c, 1)]] ELSE Absent)
  BY <1>1 DEF ContentAt, IsFile, Path
<1>6. CASE Unlink(c)
  <2> DEFINE p == Path(c, 1)
  <2>1. p \in Paths /\ This(c).path = p /\ at[c] \in {"unlink", "spoilt"}
    BY <1>1, <1>2, <1>6 DEF Unlink
  <2>2. fd[c] # 0 /\ link[p] = fd[c] /\ content[link[p]] = Torn
    BY <1>1, <2>1 DEF HasItsOwn
\* What it wrote to is a file, so that nothing stands in the way of removing it.
  <2>3. Removable(p)
    BY <2>1, <2>2 DEF Removable, BelowFile, Full, Above, IInv, DiskOK, Tree, IsFile
  <2> HIDE DEF p
  <2>4. CASE link' = [link EXCEPT ![p] = 0]
    <3>1. link'[p] = 0
      BY <2>1, <2>4 DEF IInv, DiskOK
    <3> QED BY <1>5, <3>1 DEF p
  <2>5. CASE at[c] = "spoilt" /\ UNCHANGED <<link, content>>
    BY <1>5, <2>2, <2>5 DEF p
  <2> QED BY <1>6, <2>1, <2>3, <2>4, <2>5 DEF Unlink, Removed
<1>7. CASE fd[c] = 0 /\ UNCHANGED <<link, content>>
  <2>0. at[c] # "spoilt"
    BY <1>1, <1>7
  <2>1. AsBefore(c, 1)
    BY <1>1, <1>2, <1>7 DEF Progress
  <2>2. ContentAt(Path(c, 1)) = before[c][1]
    BY <1>2, <2>1 DEF AsBefore
  <2> QED BY <1>5, <1>7, <2>0, <2>2 DEF ContentAt, IsFile
<1>8. Unlink(c) \/ (fd[c] = 0 /\ UNCHANGED <<link, content>>)
  <2>1. ~Write(c)
    <3>1. ASSUME Write(c), Copied(c), NextEntry(c) PROVE FALSE
      BY <1>4, <3>1 DEF NextEntry
    <3> QED BY <1>4, <3>1 DEF Write
  <2>2. ASSUME MkdirAll(c) \/ Fetch(c) \/ EntryDir(c) PROVE fd[c] = 0 /\ UNCHANGED <<link, content>>
    BY <1>1, <2>2 DEF MkdirAll, Fetch, EntryDir, treeVars
  <2>3. ASSUME Open(c) PROVE fd[c] = 0 /\ UNCHANGED <<link, content>>
    BY <1>1, <1>4, <2>3 DEF Open
  <2>4. ~Mkdir(c) /\ ~Delete(c) /\ ~Rename(c) /\ ~Uninstall(c)
    BY <1>1 DEF Mkdir, Delete, Rename, Uninstall
  <2> QED BY <1>1, <2>1, <2>2, <2>3, <2>4 DEF Client
<1> QED BY <1>6, <1>7, <1>8

\* An install that fails leaves no file, or the one that was there when it began; one
\* that the disk failed leaves no file, or the part of it that could not be removed.
THEOREM FailedInstallIsClean == Spec => FailedInstallLeavesNothingTorn
<1>1. IInv /\ [Next]_vars
        => [\A c \in Clients : Alone(c) /\ req[c].op = "install" /\ Ends(c, "failed")
              => ContentAt(req[c].entries[1].path)' \in
                    IF at[c] = "spoilt" THEN {Absent, Torn} ELSE {Absent, before[c][1]}]_vars
  BY InstallFails
<1> QED BY <1>1, InvariantHolds, PTL DEF Spec, FailedInstallLeavesNothingTorn

-----------------------------------------------------------------------------
(* What a request does not name.                                           *)

\* The requests of the file API and the mod jobs reach no file but those they are for,
\* also when a rename has carried others away.
THEOREM NobodyReachesElsewhere == Spec => FilesElsewhereStay
<1>1. ASSUME IInv, [Next]_vars, NEW y \in Paths,
             \A c \in Clients : Busy(c) => \A p \in Targets(req[c]) : ~IsPrefix(p, y),
             \A c \in Clients : fd[c] # 0 => fd[c] # link[y]
      PROVE  ContentAt(y)' = ContentAt(y)
  <2>1. CASE UNCHANGED <<link, content>>
    BY <2>1 DEF ContentAt, IsFile
  <2>2. ASSUME NEW d \in Clients, Client(d) PROVE ContentAt(y)' = ContentAt(y)
    <3>1. Busy(d)
      BY <1>1, <2>2, OthersKeepTheirs DEF IInv, Busy
    <3>2. link'[y] = link[y] /\ (link[y] # 0 /\ link[y] # fd[d] => content'[link[y]] = content[link[y]])
      BY <1>1, <2>2, <3>1, Footprint DEF IInv
    <3> QED BY <1>1, <3>2 DEF ContentAt, IsFile
  <2>3. ASSUME Crash \/ (\E c \in Clients, r \in Requests : Begin(c, r)) \/ UNCHANGED vars
        PROVE  UNCHANGED <<link, content>>
    BY <2>3 DEF Crash, Begin, vars, treeVars
  <2> QED BY <1>1, <2>1, <2>2, <2>3 DEF Next
<1>2. IInv /\ [Next]_vars
        => [\A y \in Paths :
              /\ \A c \in Clients : Busy(c) => \A p \in Targets(req[c]) : ~IsPrefix(p, y)
              /\ \A c \in Clients : fd[c] # 0 => fd[c] # link[y]
              => ContentAt(y)' = ContentAt(y)]_vars
  BY <1>1
<1> QED BY <1>2, InvariantHolds, PTL DEF Spec, FilesElsewhereStay
=============================================================================
