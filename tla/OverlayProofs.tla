----------------------------- MODULE OverlayProofs -----------------------------
(* Theorems about OverlayFS under a polite client, for any number of layers,   *)
(* any paths, names, calls and bytes: marks hide lower layers only, and the    *)
(* stack of layers implements one plain file system.  The invariant is         *)
(* OverlayInv; the lemmas Mirrored, Entered and Marked say what the three      *)
(* changes an overlay makes to its first layer do to what is shown.            *)
EXTENDS OverlayFS, FsTreeProofs

-----------------------------------------------------------------------------
(* What create_dir_all does to a map.                                       *)

\* Every directory has the same entry.
NoContentInDirectories(f) == \A p \in Paths : IsDirectory(f, p) => f[p] = DirectoryEntry

\* The map with directories at all the paths in made.
WithDirectories(f, made) == [q \in Paths |-> IF q \in made THEN DirectoryEntry ELSE f[q]]

\* create_dir at a path whose parent is there and that is no file.
LEMMA MemCreateDirMakes ==
    ASSUME NEW f \in Maps, NoContentInDirectories(f), NEW p \in Paths \ {Root},
           Exists(f, Parent(p)), ~IsFile(f, p)
    PROVE  LET made == MemCreateDir(f, p) IN
           /\ made.code \in {"Ok", "DirectoryExists"}
           /\ made.map = Insert(f, p, DirectoryEntry)
<1>1. HasParent(f, p)
  BY DEF HasParent
<1>2. CASE IsDirectory(f, p)
  <2>1. Insert(f, p, DirectoryEntry) = f
    BY <1>2 DEF NoContentInDirectories, Insert, Maps
  <2> QED
    BY <1>1, <1>2, <2>1 DEF MemCreateDir, Failed
<1>3. CASE ~IsDirectory(f, p)
  BY <1>1, <1>3 DEF MemCreateDir, Done
<1> QED
  BY <1>2, <1>3

\* With no file in the way create_dir_all succeeds and makes every beginning of
\* its path a directory.
LEMMA CreateDirAllMakes ==
    ASSUME NEW f \in Maps, NoContentInDirectories(f), IsDirectory(f, Root), NEW p \in Paths,
           \A q \in Beginnings(p) : ~IsFile(f, q)
    PROVE  CreateDirAll(f, p) = Done(WithDirectories(f, Beginnings(p)))
<1> DEFINE b(n) == SubSeq(p, 1, n)
           made(n) == {b(m) : m \in 0 .. n}
           g(n) == WithDirectories(f, made(n))
           D[n \in 0 .. Len(p)] ==
               IF n = 0 THEN Done(f)
               ELSE LET last == Then(D[n - 1], LAMBDA h : MemCreateDir(h, SubSeq(p, 1, n)))
                    IN IF last.code = "DirectoryExists" THEN Done(last.map) ELSE last
           next(d, n) ==
               IF n = 0 THEN Done(f)
               ELSE LET last == Then(d[n - 1], LAMBDA h : MemCreateDir(h, SubSeq(p, 1, n)))
                    IN IF last.code = "DirectoryExists" THEN Done(last.map) ELSE last
           E == [n \in 0 .. Len(p) |-> Done(g(n))]
<1>1. /\ Len(p) \in Nat /\ p \in AnyPath
      /\ \A n \in 0 .. Len(p) : b(n) \in Paths /\ b(n) \in Beginnings(p)
  <2>1. p \in AnyPath
    BY PathsAreSequences
  <2> QED
    BY <2>1, LenProperties, BeginningsArePaths DEF AnyPath, Beginnings
<1>2. ASSUME NEW n \in 0 .. Len(p) PROVE E[n] = next(E, n)
  <2>1. CASE n = 0
    <3>1. b(0) = Root /\ made(0) = {Root}
      BY <1>1, OuterBeginnings
    <3>2. g(0) = f
      BY <3>1 DEF WithDirectories, NoContentInDirectories, Maps
    <3> QED
      BY <2>1, <3>2
  <2>2. CASE n # 0
    <3>1. n - 1 \in 0 .. Len(p) /\ n \in 1 .. Len(p)
      BY <1>1, <2>2
    <3>2. b(n) # Root /\ Parent(b(n)) = b(n - 1)
      <4>1. b(0) = Root
        BY <1>1, OuterBeginnings
      <4>2. n = 1 => n - 1 = 0
        OBVIOUS
      <4>3. b(n) # Root /\ Parent(b(n)) = IF n = 1 THEN Root ELSE b(n - 1)
        BY <1>1, <3>1, BeginningsParent
      <4> QED
        BY <4>1, <4>2, <4>3
    <3>3. made(n) = made(n - 1) \cup {b(n)} /\ b(n - 1) \in made(n - 1)
      <4>1. 0 .. n = (0 .. n - 1) \cup {n} /\ n - 1 \in 0 .. n - 1
        BY <1>1, <3>1
      <4> QED
        BY <4>1
    <3>4. /\ g(n - 1) \in Maps /\ NoContentInDirectories(g(n - 1))
          /\ Exists(g(n - 1), b(n - 1)) /\ ~IsFile(g(n - 1), b(n))
          /\ g(n) = Insert(g(n - 1), b(n), DirectoryEntry)
      <4>1. \A q \in Paths :
               /\ g(n - 1)[q] = IF q \in made(n - 1) THEN DirectoryEntry ELSE f[q]
               /\ g(n)[q] = IF q \in made(n) THEN DirectoryEntry ELSE f[q]
        BY DEF WithDirectories
      <4>2. b(n - 1) \in Paths /\ b(n) \in Paths /\ ~IsFile(f, b(n))
        BY <1>1, <3>1
      <4>3. g(n - 1) \in Maps
        BY EntryTypes DEF WithDirectories, Maps
      <4>4. g(n) = Insert(g(n - 1), b(n), DirectoryEntry)
        BY <3>3, <4>1, <4>2 DEF Insert, WithDirectories
      <4> HIDE DEF g, made
      <4> QED
        BY <3>3, <4>1, <4>2, <4>3, <4>4
        DEF NoContentInDirectories, IsDirectory, Exists, IsFile, DirectoryEntry
    <3> DEFINE m == MemCreateDir(g(n - 1), b(n))
    <3>5. m.code \in {"Ok", "DirectoryExists"} /\ m.map = g(n)
      <4> HIDE DEF g
      <4> QED
        BY <1>1, <3>1, <3>2, <3>4, MemCreateDirMakes
    <3>6. E[n - 1] = Done(g(n - 1))
      BY <3>1
    <3>7. Then(E[n - 1], LAMBDA h : MemCreateDir(h, SubSeq(p, 1, n))) = m
      BY <3>6 DEF Then, Done
    <3>8. m.code = "Ok" => m = Done(g(n))
      BY <3>5 DEF MemCreateDir, Done, Failed
    <3>9. E[n] = Done(g(n))
      OBVIOUS
    <3> QED
      BY <2>2, <3>5, <3>7, <3>8, <3>9
  <2> QED
    BY <2>1, <2>2
<1>3. D = [n \in 0 .. Len(p) |-> next(D, n)]
  <2>1. E = [n \in 0 .. Len(p) |-> next(E, n)]
    BY <1>2
  <2> HIDE DEF E
  <2> QED
    BY <2>1
<1>4. CreateDirAll(f, p) = D[Len(p)]
  BY DEF CreateDirAll
<1>5. E[Len(p)] = Done(WithDirectories(f, Beginnings(p)))
  <2>1. made(Len(p)) = Beginnings(p) /\ Len(p) \in 0 .. Len(p)
    BY <1>1 DEF Beginnings
  <2> QED
    BY <2>1
<1> HIDE DEF D, E
<1>6. ASSUME NEW n \in 0 .. Len(p) PROVE D[n] = E[n]
  <2> DEFINE Differ == {k \in 0 .. Len(p) : D[k] # E[k]}
  <2>1. ASSUME Differ # {} PROVE FALSE
    <3>1. PICK k \in Differ : \A i \in Differ : k <= i
      <4>1. Differ \in SUBSET Nat
        BY <1>1
      <4> HIDE DEF Differ
      <4> QED
        BY <2>1, <4>1, LeastElement
    <3>2. k \in 0 .. Len(p) /\ D[k] = next(D, k) /\ E[k] = next(E, k)
      BY <1>2, <1>3
    <3>3. ASSUME k # 0 PROVE D[k - 1] = E[k - 1]
      <4>1. k - 1 \in 0 .. Len(p) /\ ~(k <= k - 1)
        BY <1>1, <3>2, <3>3
      <4>2. k - 1 \notin Differ
        BY <3>1, <4>1
      <4> QED
        BY <4>1, <4>2
    <3> QED
      BY <3>1, <3>2, <3>3
  <2> QED
    BY <2>1
<1>7. Len(p) \in 0 .. Len(p)
  BY <1>1
<1> QED
  BY <1>4, <1>5, <1>6, <1>7

-----------------------------------------------------------------------------
(* The paths of the user and those of the marks.                            *)

\* The user's paths are closed under Parent, upwards and below a user's path.
LEMMA UserPathFacts ==
    /\ Root \in UserPaths /\ UserPaths \subseteq Paths /\ UserPaths \subseteq AnyPath
    /\ \A p \in UserPaths : Parent(p) \in UserPaths
    /\ \A p \in UserPaths : Beginnings(p) \subseteq UserPaths
    /\ \A q \in Paths \ {Root} : Parent(q) \in UserPaths \ {Root} => q \in UserPaths
<1>1. Root \in UserPaths /\ UserPaths \subseteq Paths /\ UserPaths \subseteq AnyPath
  BY PathsAssumption, PathsAreSequences DEF UserPaths
<1>2. ASSUME NEW q \in Paths \ {Root}, Parent(q) # Root PROVE Parent(q)[1] = q[1]
  <2>1. q \in AnyPath /\ Parent(q) \in AnyPath
    BY PathsAssumption, PathsAreSequences
  <2>2. Len(Parent(q)) # 0
    BY <1>2, <2>1, EmptySeq DEF Root, AnyPath
  <2>3. 1 \in 1 .. Len(q) - 1
    BY <2>1, <2>2, ParentIsShorter
  <2> QED
    BY <2>1, <2>3, ParentIsShorter
<1>3. ASSUME NEW p \in UserPaths PROVE Parent(p) \in UserPaths
  <2>1. CASE p = Root
    BY <1>1, <2>1 DEF Parent
  <2>2. CASE p # Root
    BY <1>2, <2>2, PathsAssumption DEF UserPaths
  <2> QED
    BY <2>1, <2>2
<1>4. ASSUME NEW q \in Paths \ {Root}, Parent(q) \in UserPaths \ {Root}
      PROVE  q \in UserPaths
  BY <1>2, <1>4 DEF UserPaths
<1>5. ASSUME NEW p \in UserPaths PROVE Beginnings(p) \subseteq UserPaths
  BY <1>1, <1>3, Upwards
<1> QED
  BY <1>1, <1>3, <1>4, <1>5

\* The directory of the marks of p's children.
LEMMA MarkDirFacts ==
    ASSUME NEW p \in UserPaths
    PROVE  /\ MarkDir(p) \in Paths \ UserPaths /\ MarkDir(p) # Root
           /\ MarkDir(p) \in AnyPath /\ Len(MarkDir(p)) = Len(p) + 1 /\ Len(p) \in Nat
           /\ MarkDir(p)[1] = WoDir
           /\ \A i \in 1 .. Len(p) : MarkDir(p)[i + 1] = p[i]
<1>1. p \in AnyPath /\ Len(p) \in Nat
  BY UserPathFacts, LenProperties DEF AnyPath
<1>2. WoDir \in Names
  <2>1. <<WoDir>> \in Paths /\ 1 \in DOMAIN <<WoDir>> /\ <<WoDir>>[1] = WoDir
    BY OverlayPathsAssumption
  <2> QED
    BY <2>1 DEF Names
<1>3. <<WoDir>> \in Seq(Names) /\ Len(<<WoDir>>) = 1 /\ <<WoDir>>[1] = WoDir
  BY <1>2
<1>4. /\ MarkDir(p) \in AnyPath /\ Len(MarkDir(p)) = Len(p) + 1
      /\ MarkDir(p)[1] = WoDir
      /\ \A i \in 1 .. Len(p) : MarkDir(p)[i + 1] = p[i]
  BY <1>1, <1>3, ConcatProperties DEF MarkDir, AnyPath
<1>5. MarkDir(p) # Root
  BY <1>1, <1>4, EmptySeq DEF Root
<1>6. MarkDir(p) \in Paths \ UserPaths
  BY <1>4, <1>5, OverlayPathsAssumption DEF UserPaths
<1> QED
  BY <1>1, <1>4, <1>5, <1>6

LEMMA MarkDirInjective ==
    ASSUME NEW p \in UserPaths, NEW q \in UserPaths, MarkDir(p) = MarkDir(q)
    PROVE  p = q
<1>1. /\ p \in Seq(Names) /\ q \in Seq(Names) /\ Len(p) \in Nat /\ Len(q) \in Nat
      /\ Len(p) = Len(q)
  BY UserPathFacts, MarkDirFacts DEF AnyPath
<1>2. ASSUME NEW i \in 1 .. Len(p) PROVE p[i] = q[i]
  <2>1. MarkDir(p)[i + 1] = p[i]
    BY MarkDirFacts
  <2>2. MarkDir(q)[i + 1] = q[i]
    BY <1>1, MarkDirFacts
  <2> QED
    BY <2>1, <2>2
<1> QED
  BY <1>1, <1>2, SeqEqual

\* A path's mark is in the directory of the marks of its parent's children.
LEMMA MarkFacts ==
    ASSUME NEW p \in UserPaths
    PROVE  /\ Mark(p) \in Paths \ UserPaths /\ Mark(p) # Root
           /\ Parent(Mark(p)) = MarkDir(Parent(p))
           /\ Mark(p)[Len(Mark(p))] = (IF p = Root THEN RootWo ELSE Wo[p[Len(p)]])
           /\ Len(Mark(p)) \in Nat \ {0, 1}
<1> DEFINE s == MarkDir(Parent(p))
           e == IF p = Root THEN RootWo ELSE Wo[p[Len(p)]]
<1>1. Parent(p) \in UserPaths /\ s \in AnyPath /\ Len(s) \in Nat \ {0} /\ s[1] = WoDir
  BY UserPathFacts, MarkDirFacts
<1>2. Mark(p) = Append(s, e)
  <2>1. CASE p = Root
    <3>1. MarkDir(Parent(p)) = <<WoDir>>
      BY <2>1, ConcatEmptySeq DEF Parent, MarkDir, Root
    <3> QED
      BY <2>1, <3>1 DEF Mark
  <2>2. CASE p # Root
    BY <2>2 DEF Mark
  <2> QED
    BY <2>1, <2>2
<1>3. /\ Len(Mark(p)) = Len(s) + 1 /\ Mark(p)[Len(s) + 1] = e
      /\ \A i \in 1 .. Len(s) : Mark(p)[i] = s[i]
  <2> DEFINE X == Names \cup {e}
  <2>1. s \in Seq(X) /\ e \in X
    BY <1>1, SeqMonotonic DEF AnyPath
  <2> HIDE DEF X, s, e
  <2> QED
    BY <1>2, <2>1, AppendProperties
<1>4. Mark(p) \in Paths /\ Mark(p) \in AnyPath
  BY OverlayPathsAssumption, PathsAreSequences
<1>5. Mark(p) # Root
  BY <1>1, <1>3, EmptySeq DEF Root
<1>6. Mark(p)[1] = WoDir
  <2>1. 1 \in 1 .. Len(s)
    BY <1>1
  <2> QED
    BY <1>1, <1>3, <2>1
<1>7. Mark(p) \notin UserPaths
  BY <1>5, <1>6 DEF UserPaths
<1>8. Parent(Mark(p)) = s
  <2>1. /\ Parent(Mark(p)) \in Seq(Names) /\ Len(Parent(Mark(p))) = Len(s)
        /\ \A i \in 1 .. Len(s) : Parent(Mark(p))[i] = Mark(p)[i]
    <3> HIDE DEF s
    <3> QED
      BY <1>1, <1>3, <1>4, <1>5, ParentIsShorter DEF AnyPath
  <2>2. s \in Seq(Names) /\ Len(s) \in Nat
    BY <1>1 DEF AnyPath
  <2> HIDE DEF s
  <2> QED
    BY <1>3, <2>1, <2>2, SeqEqual
<1> HIDE DEF s, e
<1>9. Len(Mark(p)) \in Nat \ {0, 1}
  BY <1>1, <1>3
<1> QED
  BY <1>3, <1>4, <1>5, <1>7, <1>8, <1>9 DEF s, e

LEMMA MarkDirParent ==
    ASSUME NEW p \in UserPaths
    PROVE  Parent(MarkDir(p)) = IF p = Root THEN Root ELSE MarkDir(Parent(p))
<1> DEFINE m == MarkDir(p)
           r == Parent(m)
<1>1. /\ m \in AnyPath /\ m # Root /\ Len(m) = Len(p) + 1 /\ Len(p) \in Nat
      /\ r \in AnyPath /\ Len(r) = Len(p)
      /\ \A i \in 1 .. Len(p) : r[i] = m[i]
  BY MarkDirFacts, ParentIsShorter
<1>2. CASE p = Root
  BY <1>1, <1>2, EmptySeq DEF Root, AnyPath
<1>3. CASE p # Root
  <2> DEFINE s == MarkDir(Parent(p))
  <2>1. /\ Len(p) \in Nat \ {0} /\ Len(Parent(p)) = Len(p) - 1
        /\ \A i \in 1 .. Len(p) - 1 : Parent(p)[i] = p[i]
    BY <1>3, UserPathFacts, ParentIsShorter
  <2>2. s \in AnyPath /\ Len(s) = Len(p)
    <3>1. Len(s) = Len(Parent(p)) + 1 /\ s \in AnyPath
      BY UserPathFacts, MarkDirFacts
    <3> HIDE DEF s
    <3> QED
      BY <2>1, <3>1
  <2>3. ASSUME NEW i \in 1 .. Len(p) PROVE r[i] = s[i]
    <3>1. CASE i = 1
      BY <1>1, <3>1, UserPathFacts, MarkDirFacts
    <3>2. CASE i # 1
      <4>1. i - 1 \in 1 .. Len(Parent(p)) /\ i - 1 \in 1 .. Len(p) /\ (i - 1) + 1 = i
        BY <2>1, <3>2
      <4>2. MarkDir(Parent(p))[(i - 1) + 1] = Parent(p)[i - 1]
        BY <4>1, UserPathFacts, MarkDirFacts
      <4>3. MarkDir(p)[(i - 1) + 1] = p[i - 1]
        BY <4>1, MarkDirFacts
      <4> QED
        BY <1>1, <2>1, <4>1, <4>2, <4>3
    <3> QED
      BY <3>1, <3>2
  <2> HIDE DEF r, s
  <2>4. r = s
    BY <1>1, <2>2, <2>3, SeqEqual DEF AnyPath
  <2> QED
    BY <1>3, <2>4 DEF r, s
<1> QED
  BY <1>2, <1>3

\* What create_dir_all makes for a mark: the root and directories of marks.
LEMMA MarkDirBeginnings ==
    ASSUME NEW p \in UserPaths
    PROVE  Beginnings(MarkDir(p)) \subseteq {Root} \cup {MarkDir(q) : q \in UserPaths}
<1> DEFINE S == {Root} \cup {MarkDir(q) : q \in UserPaths}
<1>1. S \subseteq AnyPath
  BY UserPathFacts, MarkDirFacts
<1>2. ASSUME NEW m \in S \ {Root} PROVE Parent(m) \in S
  <2>1. PICK q \in UserPaths : m = MarkDir(q)
    OBVIOUS
  <2> QED
    BY <2>1, MarkDirParent, UserPathFacts
<1>3. MarkDir(p) \in S /\ Root \in S
  OBVIOUS
<1> HIDE DEF S
<1>4. Beginnings(MarkDir(p)) \subseteq S
  BY <1>1, <1>2, <1>3, Upwards
<1> QED
  BY <1>4 DEF S

\* No mark is taken for another one, nor for a directory of marks.
LEMMA MarksDiffer ==
    ASSUME MarksAreDistinct, NEW p \in UserPaths, NEW q \in UserPaths
    PROVE  /\ Mark(p) = Mark(q) => p = q
           /\ Mark(p) # MarkDir(q)
<1> DEFINE last(r) == IF r = Root THEN RootWo ELSE Wo[r[Len(r)]]
<1>1. ASSUME Mark(p) = Mark(q) PROVE p = q
  <2>1. Parent(p) = Parent(q)
    BY <1>1, MarkFacts, MarkDirInjective, UserPathFacts
  <2>2. last(p) = last(q)
    BY <1>1, MarkFacts
  <2>3. CASE p = Root \/ q = Root
    BY <2>2, <2>3, NamesAssumption
  <2>4. CASE p # Root /\ q # Root
    <3>1. p[Len(p)] = q[Len(q)]
      BY <2>2, <2>4, NamesAssumption
    <3>2. /\ p \in Seq(Names) /\ q \in Seq(Names)
          /\ Len(p) \in Nat \ {0} /\ Len(q) \in Nat \ {0}
          /\ Len(Parent(p)) = Len(p) - 1 /\ Len(Parent(q)) = Len(q) - 1
          /\ \A i \in 1 .. Len(p) - 1 : Parent(p)[i] = p[i]
          /\ \A i \in 1 .. Len(q) - 1 : Parent(q)[i] = q[i]
      BY <2>4, UserPathFacts, ParentIsShorter DEF AnyPath
    <3>3. Len(p) = Len(q)
      BY <2>1, <3>2
    <3>4. ASSUME NEW i \in 1 .. Len(p) PROVE p[i] = q[i]
      <4>1. CASE i = Len(p)
        BY <3>1, <3>3, <4>1
      <4>2. CASE i # Len(p)
        BY <2>1, <3>2, <3>3, <4>2
      <4> QED
        BY <4>1, <4>2
    <3> QED
      BY <3>2, <3>3, <3>4, SeqEqual
  <2> QED
    BY <2>3, <2>4
<1>2. ASSUME Mark(p) = MarkDir(q) PROVE FALSE
  <2>1. Len(Mark(p)) = Len(q) + 1 /\ Len(q) \in Nat \ {0}
    <3>1. Len(MarkDir(q)) = Len(q) + 1 /\ Len(q) \in Nat
      BY MarkDirFacts
    <3>2. Len(Mark(p)) \in Nat \ {0, 1}
      BY MarkFacts
    <3> QED
      BY <1>2, <3>1, <3>2
  <2>2. q # Root
    BY <2>1, EmptySeq DEF Root
  <2>3. MarkDir(q)[Len(q) + 1] = q[Len(q)]
    <3>1. Len(q) \in 1 .. Len(q)
      BY <2>1
    <3> QED
      BY <3>1, MarkDirFacts
  <2>4. q[Len(q)] = last(p)
    BY <1>2, <2>1, <2>3, MarkFacts
  <2> QED
    BY <2>2, <2>4, NamesAssumption DEF MarksAreDistinct
<1> QED
  BY <1>1, <1>2

-----------------------------------------------------------------------------
(* Stacks of layers, apart from the state that holds one.                   *)

FoundIn(ls, p) ==
    p = Root \/ (~Exists(ls[1], Mark(p)) /\ \E i \in DOMAIN ls : Exists(ls[i], p))

TopIn(ls, p) ==
    IF p = Root THEN 1
    ELSE CHOOSE i \in DOMAIN ls :
            Exists(ls[i], p) /\ \A j \in 1 .. i - 1 : ~Exists(ls[j], p)

\* What a stack of layers shows.
Shows(ls) ==
    [p \in UserPaths |-> IF FoundIn(ls, p) THEN ls[TopIn(ls, p)][p] ELSE VacantEntry]

\* The overlay's view is what its layers show.
LEMMA ViewIsShown == View = Shows(layers) /\ View' = Shows(layers')
BY DEF View, Entry, Found, TopLayer, Upper, Shows, FoundIn, TopIn

\* The layers are trees and so is what is shown; marks are files, of paths
\* the first layer does not hold, in directories.
StackOK(ls) ==
    /\ ls \in Seq(Maps) /\ Len(ls) > 0 /\ 1 \in DOMAIN ls
    /\ \A i \in DOMAIN ls : IsTree(ls[i]) /\ NoContentInDirectories(ls[i])
    /\ \A p \in UserPaths :
          /\ Exists(ls[1], Mark(p)) => IsFile(ls[1], Mark(p)) /\ ~Exists(ls[1], p)
          /\ ~IsFile(ls[1], MarkDir(p))
    /\ \A p \in UserPaths \ {Root} :
          Exists(Shows(ls), p) => IsDirectory(Shows(ls), Parent(p))

\* The stack with g for its first layer.
Topped(ls, g) == [ls EXCEPT ![1] = g]

LEMMA ToppedStack ==
    ASSUME NEW ls \in Seq(Maps), Len(ls) > 0, NEW g \in Maps
    PROVE  /\ Topped(ls, g) \in Seq(Maps) /\ Len(Topped(ls, g)) = Len(ls)
           /\ DOMAIN ls = 1 .. Len(ls) /\ DOMAIN Topped(ls, g) = 1 .. Len(ls)
           /\ 1 \in 1 .. Len(ls) /\ Len(ls) \in Nat /\ ls[1] \in Maps
           /\ Topped(ls, g)[1] = g
           /\ \A i \in 1 .. Len(ls) : i # 1 => Topped(ls, g)[i] = ls[i]
<1>1. Len(ls) \in Nat /\ 1 \in 1 .. Len(ls) /\ DOMAIN ls = 1 .. Len(ls)
  BY LenProperties
<1>2. /\ Topped(ls, g) \in Seq(Maps) /\ Len(Topped(ls, g)) = Len(ls)
      /\ \A i \in 1 .. Len(ls) : Topped(ls, g)[i] = IF i = 1 THEN g ELSE ls[i]
  BY <1>1, ExceptSeq DEF Topped
<1>3. ls[1] \in Maps
  BY <1>1, ElementOfSeq
<1> QED
  BY <1>1, <1>2, <1>3, LenProperties

\* The layer a path is read from.
LEMMA TopFacts ==
    ASSUME NEW ls \in Seq(Maps), Len(ls) > 0, NEW p \in UserPaths, p # Root, FoundIn(ls, p)
    PROVE  /\ TopIn(ls, p) \in DOMAIN ls /\ Exists(ls[TopIn(ls, p)], p)
           /\ Exists(ls[1], p) => TopIn(ls, p) = 1
           /\ \A j \in DOMAIN ls : Exists(ls[j], p) => TopIn(ls, p) <= j
           /\ ls[TopIn(ls, p)] \in Maps
<1> DEFINE Holding == {i \in DOMAIN ls : Exists(ls[i], p)}
<1>1. DOMAIN ls = 1 .. Len(ls) /\ Len(ls) \in Nat
  BY LenProperties
<1>2. Holding \in SUBSET Nat /\ Holding # {}
  BY <1>1 DEF FoundIn
<1>3. PICK m \in Holding : \A k \in Holding : m <= k
  <2> HIDE DEF Holding
  <2> QED
    BY <1>2, LeastElement
<1>4. m \in DOMAIN ls /\ Exists(ls[m], p) /\ \A j \in 1 .. m - 1 : ~Exists(ls[j], p)
  <2>1. ASSUME NEW j \in 1 .. m - 1, Exists(ls[j], p) PROVE FALSE
    <3>1. j \in Holding /\ ~(m <= j)
      BY <1>1, <1>3, <2>1
    <3> QED
      BY <1>3, <3>1
  <2> QED
    BY <1>3, <2>1
<1> DEFINE top == TopIn(ls, p)
<1>5. top \in DOMAIN ls /\ Exists(ls[top], p) /\ \A j \in 1 .. top - 1 : ~Exists(ls[j], p)
  BY <1>4 DEF TopIn
<1> HIDE DEF top
<1>6. ASSUME NEW j \in DOMAIN ls, Exists(ls[j], p) PROVE top <= j
  <2>1. ~(top <= j) => j \in 1 .. top - 1
    BY <1>1, <1>5
  <2> QED
    BY <1>5, <1>6, <2>1
<1>7. Exists(ls[1], p) => top = 1
  <2>1. 1 \in DOMAIN ls /\ top \in Nat \ {0}
    BY <1>1, <1>5
  <2>2. Exists(ls[1], p) => top <= 1
    BY <1>6, <2>1
  <2> QED
    BY <2>1, <2>2
<1>8. ls[top] \in Maps
  BY <1>1, <1>5, ElementOfSeq
<1> QED
  BY <1>5, <1>6, <1>7, <1>8 DEF top

\* What is shown of a path.
LEMMA ShownEntry ==
    ASSUME NEW ls \in Seq(Maps), Len(ls) > 0, NEW p \in UserPaths
    PROVE  /\ Shows(ls)[p] \in Entries
           /\ p # Root => (Exists(Shows(ls), p) <=> FoundIn(ls, p))
           /\ p = Root => Shows(ls)[p] = ls[1][p]
           /\ p # Root /\ Exists(ls[1], Mark(p)) => Shows(ls)[p] = VacantEntry
           /\ ~Exists(ls[1], Mark(p)) /\ Exists(ls[1], p) => Shows(ls)[p] = ls[1][p]
<1>1. /\ ls[1] \in Maps /\ 1 \in DOMAIN ls
      /\ \A i \in DOMAIN ls : ls[i] \in Maps /\ ls[i][p] \in Entries
  <2>1. DOMAIN ls = 1 .. Len(ls) /\ Len(ls) \in Nat
    BY LenProperties
  <2> QED
    BY <2>1, ElementOfSeq, UserPathFacts DEF Maps
<1>2. CASE p = Root
  BY <1>1, <1>2 DEF Shows, FoundIn, TopIn
<1>3. CASE p # Root /\ ~FoundIn(ls, p)
  <2>1. Shows(ls)[p] = VacantEntry
    BY <1>3 DEF Shows
  <2> QED
    BY <1>1, <1>3, <2>1, EntryTypes DEF Exists, VacantEntry, FoundIn
<1>4. CASE p # Root /\ FoundIn(ls, p)
  <2>1. Shows(ls)[p] = ls[TopIn(ls, p)][p]
    BY <1>4 DEF Shows
  <2>2. /\ TopIn(ls, p) \in DOMAIN ls /\ Exists(ls[TopIn(ls, p)], p)
        /\ Exists(ls[1], p) => TopIn(ls, p) = 1
    BY <1>4, TopFacts
  <2>3. ~Exists(ls[1], Mark(p))
    BY <1>4 DEF FoundIn
  <2> QED
    BY <1>1, <1>4, <2>1, <2>2, <2>3 DEF Exists
<1> QED
  BY <1>2, <1>3, <1>4

\* A change of the first layer is not seen at a path whose entry and whose mark
\* it leaves alone.
LEMMA SameShown ==
    ASSUME NEW ls \in Seq(Maps), Len(ls) > 0, NEW g \in Maps, NEW p \in UserPaths,
           g[p] = ls[1][p], Exists(g, Mark(p)) <=> Exists(ls[1], Mark(p))
    PROVE  Shows(Topped(ls, g))[p] = Shows(ls)[p]
<1> DEFINE new == Topped(ls, g)
<1>1. /\ new \in Seq(Maps) /\ Len(new) > 0 /\ DOMAIN new = DOMAIN ls /\ new[1] = g
      /\ DOMAIN ls = 1 .. Len(ls) /\ Len(ls) \in Nat
      /\ \A i \in DOMAIN ls : i # 1 => new[i] = ls[i]
  <2>1. /\ new \in Seq(Maps) /\ Len(new) = Len(ls) /\ new[1] = g
        /\ DOMAIN ls = 1 .. Len(ls) /\ DOMAIN new = 1 .. Len(ls) /\ Len(ls) \in Nat
        /\ \A i \in 1 .. Len(ls) : i # 1 => new[i] = ls[i]
    BY ToppedStack
  <2> HIDE DEF new
  <2> QED
    BY <2>1
<1> HIDE DEF new
<1>2. \A i \in DOMAIN ls : new[i][p] = ls[i][p]
  BY <1>1
<1>3. FoundIn(new, p) <=> FoundIn(ls, p)
  BY <1>1, <1>2 DEF FoundIn, Exists
<1>4. p # Root /\ FoundIn(ls, p) => TopIn(new, p) = TopIn(ls, p)
  <2> SUFFICES ASSUME p # Root, FoundIn(ls, p) PROVE TopIn(new, p) = TopIn(ls, p)
    OBVIOUS
  <2>1. /\ TopIn(ls, p) \in DOMAIN ls /\ Exists(ls[TopIn(ls, p)], p)
        /\ \A j \in DOMAIN ls : Exists(ls[j], p) => TopIn(ls, p) <= j
    BY TopFacts
  <2>2. /\ TopIn(new, p) \in DOMAIN new /\ Exists(new[TopIn(new, p)], p)
        /\ \A j \in DOMAIN new : Exists(new[j], p) => TopIn(new, p) <= j
    BY <1>1, <1>3, TopFacts
  <2>3. TopIn(ls, p) <= TopIn(new, p) /\ TopIn(new, p) <= TopIn(ls, p)
    BY <1>1, <1>2, <2>1, <2>2 DEF Exists
  <2>4. TopIn(ls, p) \in Nat /\ TopIn(new, p) \in Nat
    BY <1>1, <2>1, <2>2
  <2> QED
    BY <2>3, <2>4
<1>5. CASE p = Root
  BY <1>1, <1>5, ShownEntry DEF new
<1>6. CASE p # Root /\ FoundIn(ls, p)
  <2>1. TopIn(ls, p) \in DOMAIN ls
    BY <1>6, TopFacts
  <2> QED
    BY <1>2, <1>3, <1>4, <1>6, <2>1 DEF Shows, new
<1>7. CASE p # Root /\ ~FoundIn(ls, p)
  BY <1>3, <1>7 DEF Shows, new
<1> QED
  BY <1>5, <1>6, <1>7

-----------------------------------------------------------------------------
(* The changes the calls make to the first layer, and what they show.       *)

\* Making directories of all beginnings of a path keeps a tree a tree and adds
\* only what was vacant.
LEMMA WithDirectoriesKeepsTree ==
    ASSUME NEW f \in Maps, IsTree(f), NoContentInDirectories(f), NEW p \in Paths,
           \A q \in Beginnings(p) : ~IsFile(f, q)
    PROVE  LET g == WithDirectories(f, Beginnings(p)) IN
           /\ g \in Maps /\ IsTree(g) /\ NoContentInDirectories(g)
           /\ \A q \in Beginnings(p) : q \in Paths /\ g[q] = DirectoryEntry
           /\ \A q \in Paths : Exists(f, q) \/ q \notin Beginnings(p) => g[q] = f[q]
<1> DEFINE B == Beginnings(p)
           g == WithDirectories(f, B)
<1>1. /\ B \subseteq Paths /\ Root \in B
      /\ \A q \in B : q # Root => Parent(q) \in B
  <2>1. p \in AnyPath
    BY PathsAreSequences
  <2> QED
    BY <2>1, BeginningsArePaths, OuterBeginnings, BeginningsAreClosed
<1> HIDE DEF B
<1>2. /\ g \in Maps
      /\ \A q \in Paths : g[q] = IF q \in B THEN DirectoryEntry ELSE f[q]
  BY EntryTypes DEF WithDirectories, Maps
<1> HIDE DEF g
<1>3. ASSUME NEW q \in Paths, Exists(f, q) \/ q \notin B PROVE g[q] = f[q]
  <2>1. CASE q \in B
    <3>1. ~IsFile(f, q)
      BY <2>1 DEF B
    <3>2. IsDirectory(f, q)
      BY <1>3, <2>1, <3>1, EntryFields DEF Maps, Kinds, IsDirectory, IsFile, Exists
    <3> QED
      BY <1>2, <2>1, <3>2 DEF NoContentInDirectories
  <2> QED
    BY <1>2, <2>1
<1>4. ASSUME NEW q \in B PROVE IsDirectory(g, q)
  <2>1. g[q] = DirectoryEntry
    BY <1>1, <1>2
  <2> QED
    BY <2>1 DEF IsDirectory, DirectoryEntry
<1>5. IsTree(g)
  <2>1. IsDirectory(g, Root)
    BY <1>1, <1>4
  <2>2. ASSUME NEW q \in Paths \ {Root}, Exists(g, q) PROVE IsDirectory(g, Parent(q))
    <3>1. CASE q \in B
      BY <1>1, <1>4, <3>1
    <3>2. CASE q \notin B
      <4>1. Exists(f, q) /\ Parent(q) \in Paths
        BY <1>2, <2>2, <3>2, PathsAssumption DEF Exists
      <4>2. IsDirectory(f, Parent(q))
        BY <4>1 DEF IsTree
      <4>3. g[Parent(q)] = f[Parent(q)]
        BY <1>3, <4>1, <4>2 DEF Exists, IsDirectory
      <4> QED
        BY <4>2, <4>3 DEF IsDirectory
    <3> QED
      BY <3>1, <3>2
  <2> QED
    BY <2>1, <2>2 DEF IsTree
<1>6. NoContentInDirectories(g)
  BY <1>2 DEF NoContentInDirectories, IsDirectory
<1> QED
  BY <1>1, <1>2, <1>3, <1>5, <1>6 DEF g, B

\* A stack whose first layer is replaced.
LEMMA ToppedOK ==
    ASSUME NEW ls, StackOK(ls), NEW g \in Maps, IsTree(g), NoContentInDirectories(g),
           \A p \in UserPaths :
              /\ Exists(g, Mark(p)) => IsFile(g, Mark(p)) /\ ~Exists(g, p)
              /\ ~IsFile(g, MarkDir(p)),
           \A p \in UserPaths \ {Root} :
              Exists(Shows(Topped(ls, g)), p) => IsDirectory(Shows(Topped(ls, g)), Parent(p))
    PROVE  StackOK(Topped(ls, g))
<1> DEFINE new == Topped(ls, g)
<1>1. ls \in Seq(Maps) /\ Len(ls) > 0 /\ \A i \in DOMAIN ls : NoContentInDirectories(ls[i])
  BY DEF StackOK
<1>2. /\ new \in Seq(Maps) /\ Len(new) = Len(ls) /\ new[1] = g
      /\ DOMAIN ls = 1 .. Len(ls) /\ DOMAIN new = 1 .. Len(ls)
      /\ \A i \in 1 .. Len(ls) : i # 1 => new[i] = ls[i]
  BY <1>1, ToppedStack
<1> HIDE DEF new
<1>3. /\ \A p \in UserPaths \ {Root} : Exists(Shows(new), p) => IsDirectory(Shows(new), Parent(p))
  BY DEF new
<1>4. StackOK(new)
  BY <1>1, <1>2, <1>3 DEF StackOK
<1> QED
  BY <1>4 DEF new

\* What holds of a stack that is right.
LEMMA StackFacts ==
    ASSUME NEW ls, StackOK(ls)
    PROVE  /\ ls \in Seq(Maps) /\ Len(ls) > 0 /\ ls[1] \in Maps /\ IsTree(ls[1])
           /\ NoContentInDirectories(ls[1])
           /\ Shows(ls) \in [UserPaths -> Entries]
           /\ IsDirectory(Shows(ls), Root) /\ ~Exists(ls[1], Mark(Root))
           /\ \A p \in UserPaths :
                /\ Exists(ls[1], p) => Shows(ls)[p] = ls[1][p]
                /\ IsDirectory(Shows(ls), p) => Shows(ls)[p] = DirectoryEntry
                /\ Exists(Shows(ls), p) => ~Exists(ls[1], Mark(p))
<1>1. /\ ls \in Seq(Maps) /\ Len(ls) > 0 /\ IsTree(ls[1])
      /\ \A i \in DOMAIN ls : NoContentInDirectories(ls[i])
      /\ \A p \in UserPaths : Exists(ls[1], Mark(p)) => ~Exists(ls[1], p)
  BY DEF StackOK
<1>2. ls[1] \in Maps /\ 1 \in DOMAIN ls
  <2>1. DOMAIN ls = 1 .. Len(ls) /\ Len(ls) \in Nat
    BY <1>1, LenProperties
  <2> QED
    BY <1>1, <2>1, ElementOfSeq
<1>3. \A p \in UserPaths : Shows(ls)[p] \in Entries
  BY <1>1, ShownEntry
<1>4. Shows(ls) \in [UserPaths -> Entries]
  BY <1>3 DEF Shows
<1>5. \A p \in UserPaths : Exists(ls[1], p) => Shows(ls)[p] = ls[1][p]
  BY <1>1, ShownEntry
<1>6. IsDirectory(ls[1], Root) /\ Root \in UserPaths
  BY <1>1, UserPathFacts DEF IsTree
<1>7. IsDirectory(Shows(ls), Root) /\ ~Exists(ls[1], Mark(Root))
  BY <1>1, <1>5, <1>6 DEF IsDirectory, Exists
<1>8. ASSUME NEW p \in UserPaths, Exists(Shows(ls), p) PROVE ~Exists(ls[1], Mark(p))
  <2>1. CASE p = Root
    BY <1>7, <2>1
  <2>2. CASE p # Root
    BY <1>1, <1>8, <2>2, ShownEntry DEF FoundIn
  <2> QED
    BY <2>1, <2>2
<1>9. ASSUME NEW p \in UserPaths, IsDirectory(Shows(ls), p)
      PROVE  Shows(ls)[p] = DirectoryEntry
  <2>1. FoundIn(ls, p)
    BY <1>9 DEF Shows, IsDirectory, VacantEntry
  <2>2. Shows(ls)[p] = ls[TopIn(ls, p)][p]
    BY <2>1 DEF Shows
  <2>3. TopIn(ls, p) \in DOMAIN ls
    <3>1. CASE p = Root
      BY <1>2, <3>1 DEF TopIn
    <3>2. CASE p # Root
      BY <1>1, <2>1, <3>2, TopFacts
    <3> QED
      BY <3>1, <3>2
  <2>4. p \in Paths
    BY UserPathFacts
  <2> QED
    BY <1>1, <1>9, <2>2, <2>3, <2>4 DEF NoContentInDirectories, IsDirectory
<1> QED
  BY <1>1, <1>2, <1>4, <1>5, <1>7, <1>8, <1>9

\* create_dir_all in the first layer, at a directory that is shown, succeeds
\* and is not seen.
LEMMA Mirrored ==
    ASSUME NEW ls, StackOK(ls), NEW p \in UserPaths, IsDirectory(Shows(ls), p)
    PROVE  LET g == WithDirectories(ls[1], Beginnings(p)) IN
           /\ CreateDirAll(ls[1], p) = Done(g)
           /\ g \in Maps /\ StackOK(Topped(ls, g)) /\ Shows(Topped(ls, g)) = Shows(ls)
           /\ IsDirectory(g, p)
           /\ \A q \in Paths : Exists(ls[1], q) \/ q \notin Beginnings(p) => g[q] = ls[1][q]
<1> DEFINE U == ls[1]
           B == Beginnings(p)
           g == WithDirectories(U, B)
           new == Topped(ls, g)
           Dirs == {q \in UserPaths : IsDirectory(Shows(ls), q)}
<1>1. /\ ls \in Seq(Maps) /\ Len(ls) > 0 /\ U \in Maps /\ IsTree(U)
      /\ NoContentInDirectories(U) /\ ~Exists(U, Mark(Root))
      /\ IsDirectory(Shows(ls), Root)
      /\ \A q \in UserPaths :
            /\ Exists(U, q) => Shows(ls)[q] = U[q]
            /\ IsDirectory(Shows(ls), q) => Shows(ls)[q] = DirectoryEntry
            /\ Exists(Shows(ls), q) => ~Exists(U, Mark(q))
  BY StackFacts
<1>2. /\ p \in Paths /\ p \in AnyPath /\ Root \in UserPaths /\ UserPaths \subseteq Paths
      /\ UserPaths \subseteq AnyPath /\ \A q \in UserPaths : Parent(q) \in UserPaths
  BY UserPathFacts
<1>3. B \subseteq Dirs
  <2>1. ASSUME NEW q \in Dirs \ {Root} PROVE Parent(q) \in Dirs
    <3>1. Exists(Shows(ls), q)
      BY DEF IsDirectory, Exists
    <3>2. IsDirectory(Shows(ls), Parent(q))
      BY <3>1 DEF StackOK
    <3> QED
      BY <1>2, <3>2
  <2>2. Dirs \in SUBSET AnyPath /\ Root \in Dirs /\ p \in Dirs
    BY <1>1, <1>2
  <2> HIDE DEF Dirs
  <2> QED
    BY <2>1, <2>2, Upwards
<1>4. \A q \in B : ~IsFile(U, q)
  BY <1>1, <1>3 DEF IsFile, IsDirectory, Exists
<1>5. /\ g \in Maps /\ IsTree(g) /\ NoContentInDirectories(g)
      /\ \A q \in B : q \in Paths /\ g[q] = DirectoryEntry
      /\ \A q \in Paths : Exists(U, q) \/ q \notin B => g[q] = U[q]
  BY <1>1, <1>2, <1>4, WithDirectoriesKeepsTree
<1>6. CreateDirAll(U, p) = Done(g)
  BY <1>1, <1>2, <1>4, CreateDirAllMakes DEF IsTree
<1>7. ASSUME NEW q \in UserPaths
      PROVE  g[Mark(q)] = U[Mark(q)] /\ g[MarkDir(q)] = U[MarkDir(q)]
  BY <1>3, <1>5, MarkFacts, MarkDirFacts
<1> HIDE DEF g, B, Dirs
<1>8. ASSUME NEW q \in UserPaths PROVE Shows(new)[q] = Shows(ls)[q]
  <2>1. CASE g[q] = U[q]
    BY <1>1, <1>5, <1>7, <2>1, SameShown DEF Exists
  <2>2. CASE g[q] # U[q]
    <3>1. q \in B /\ g[q] = DirectoryEntry /\ Shows(ls)[q] = DirectoryEntry
      BY <1>1, <1>2, <1>3, <1>5, <2>2 DEF Dirs
    <3>2. ~Exists(U, Mark(q))
      BY <1>1, <3>1 DEF Exists, DirectoryEntry
    <3>3. ~Exists(g, Mark(q)) /\ Exists(g, q)
      BY <1>7, <3>1, <3>2 DEF Exists, DirectoryEntry
    <3>4. new \in Seq(Maps) /\ Len(new) > 0 /\ new[1] = g
      BY <1>1, <1>5, ToppedStack
    <3>5. Shows(new)[q] = g[q]
      <4> HIDE DEF new
      <4> QED
        BY <3>3, <3>4, ShownEntry
    <3> QED
      BY <3>1, <3>5
  <2> QED
    BY <2>1, <2>2
<1>9. Shows(new) = Shows(ls)
  <2> HIDE DEF new
  <2> QED
    BY <1>8 DEF Shows
<1>10. ASSUME NEW q \in UserPaths
       PROVE  /\ Exists(g, Mark(q)) => IsFile(g, Mark(q)) /\ ~Exists(g, q)
              /\ ~IsFile(g, MarkDir(q))
  <2>1. /\ Exists(U, Mark(q)) => IsFile(U, Mark(q)) /\ ~Exists(U, q)
        /\ ~IsFile(U, MarkDir(q))
    BY DEF StackOK
  <2>2. q \in B => ~Exists(U, Mark(q))
    BY <1>1, <1>3 DEF Dirs, Exists, IsDirectory
  <2>3. q \notin B => g[q] = U[q]
    BY <1>2, <1>5
  <2> QED
    BY <1>7, <2>1, <2>2, <2>3 DEF Exists, IsFile
<1>11. \A q \in UserPaths \ {Root} : Exists(Shows(ls), q) => IsDirectory(Shows(ls), Parent(q))
  BY DEF StackOK
<1>12. StackOK(new)
  BY <1>5, <1>9, <1>10, <1>11, ToppedOK
<1>13. IsDirectory(g, p)
  BY <1>2, <1>5, OuterBeginnings DEF IsDirectory, DirectoryEntry, B
<1> QED
  BY <1>5, <1>6, <1>9, <1>12, <1>13 DEF g, B

\* An entry put where there is room, the mark of its path removed, is what is
\* seen there.
LEMMA Entered ==
    ASSUME MarksAreDistinct, NEW ls, StackOK(ls), NEW p \in UserPaths \ {Root},
           IsDirectory(ls[1], Parent(p)), NEW entry \in Entries,
           \/ entry = DirectoryEntry /\ ~Exists(Shows(ls), p)
           \/ entry.kind = "File" /\ ~IsDirectory(Shows(ls), p)
    PROVE  LET g == Remove(Insert(ls[1], p, entry), Mark(p)) IN
           /\ g \in Maps /\ StackOK(Topped(ls, g))
           /\ Shows(Topped(ls, g)) = Insert(Shows(ls), p, entry)
           /\ g[p] = entry /\ \A q \in UserPaths \ {p} : g[q] = ls[1][q]
<1> DEFINE U == ls[1]
           m == Mark(p)
           h == Insert(U, p, entry)
           g == Remove(h, m)
           new == Topped(ls, g)
<1>1. /\ ls \in Seq(Maps) /\ Len(ls) > 0 /\ U \in Maps /\ IsTree(U)
      /\ NoContentInDirectories(U) /\ Shows(ls) \in [UserPaths -> Entries]
      /\ \A q \in UserPaths : Exists(U, q) => Shows(ls)[q] = U[q]
  BY StackFacts
<1>2. /\ p \in Paths /\ Parent(p) \in UserPaths /\ UserPaths \subseteq Paths
      /\ Parent(p) # p /\ Parent(p) \in Paths
  <2>1. Len(p) \in Nat \ {0} /\ Len(Parent(p)) = Len(p) - 1
    BY UserPathFacts, ParentIsShorter
  <2> QED
    BY <2>1, UserPathFacts
<1>3. m \in Paths /\ m \notin UserPaths /\ m # Root
  BY MarkFacts
<1>4. /\ ~IsDirectory(U, p) /\ entry.kind # "Vacant"
      /\ entry.kind = "Directory" => entry = DirectoryEntry
  BY <1>1 DEF IsDirectory, Exists, DirectoryEntry
<1>5. /\ h \in Maps /\ IsTree(h)
      /\ \A q \in Paths : q # Parent(p) => Children(h, q) = Children(U, q)
  BY <1>1, <1>2, <1>4, MapTypes, InsertKeepsTree
<1>6. Children(h, m) = {}
  <2>1. Children(U, m) = {}
    <3>1. ~IsDirectory(U, m)
      <4>1. Exists(U, m) => IsFile(U, m)
        BY DEF StackOK
      <4> QED
        BY <4>1 DEF Exists, IsFile, IsDirectory
    <3> QED
      BY <3>1 DEF Children, StackOK, IsTree
  <2> QED
    BY <1>2, <1>3, <1>5, <2>1
<1>7. g \in Maps /\ IsTree(g)
  BY <1>3, <1>5, <1>6, MapTypes, RemoveKeepsTree
<1>8. /\ g[p] = entry /\ g[m] = VacantEntry
      /\ \A q \in Paths : q # p /\ q # m => g[q] = U[q]
  BY <1>1, <1>2, <1>3, <1>5 DEF Insert, Remove, Maps
<1> HIDE DEF g, h, m
<1>9. NoContentInDirectories(g)
  BY <1>1, <1>4, <1>8 DEF NoContentInDirectories, IsDirectory, VacantEntry
<1>10. ~Exists(g, m) /\ Exists(g, p)
  BY <1>4, <1>8 DEF Exists, VacantEntry
<1>11. ASSUME NEW q \in UserPaths \ {p} PROVE g[Mark(q)] = U[Mark(q)] /\ g[q] = U[q]
  <2>1. Mark(q) # m /\ Mark(q) # p /\ Mark(q) \in Paths
    BY MarksDiffer, MarkFacts DEF m
  <2> QED
    BY <1>2, <1>3, <1>8, <2>1
<1>12. new \in Seq(Maps) /\ Len(new) > 0 /\ new[1] = g
  BY <1>1, <1>7, ToppedStack
<1>13. ASSUME NEW q \in UserPaths \ {p} PROVE Shows(new)[q] = Shows(ls)[q]
  BY <1>1, <1>7, <1>11, SameShown DEF Exists
<1>14. Shows(new)[p] = entry
  <2> HIDE DEF new
  <2> QED
    BY <1>8, <1>10, <1>12, ShownEntry DEF m
<1>15. Shows(new) = Insert(Shows(ls), p, entry)
  <2> HIDE DEF new
  <2> QED
    BY <1>1, <1>13, <1>14 DEF Shows, Insert
<1>16. ASSUME NEW q \in UserPaths
       PROVE  /\ Exists(g, Mark(q)) => IsFile(g, Mark(q)) /\ ~Exists(g, q)
              /\ ~IsFile(g, MarkDir(q))
  <2>1. /\ Exists(U, Mark(q)) => IsFile(U, Mark(q)) /\ ~Exists(U, q)
        /\ ~IsFile(U, MarkDir(q))
    BY DEF StackOK
  <2>2. MarkDir(q) # p /\ MarkDir(q) # m /\ MarkDir(q) \in Paths
    BY MarkDirFacts, MarksDiffer DEF m
  <2>3. CASE q = p
    BY <1>8, <1>10, <2>1, <2>2, <2>3 DEF m, IsFile
  <2>4. CASE q # p
    BY <1>8, <1>11, <2>1, <2>2, <2>4 DEF Exists, IsFile
  <2> QED
    BY <2>3, <2>4
<1>17. ASSUME NEW q \in UserPaths \ {Root}, Exists(Shows(new), q)
       PROVE  IsDirectory(Shows(new), Parent(q))
  <2>1. Parent(q) \in UserPaths
    BY UserPathFacts
  <2>2. CASE q = p
    <3>1. Shows(new)[Parent(p)] = U[Parent(p)]
      BY <1>1, <1>2, <1>13 DEF IsDirectory, Exists
    <3> QED
      BY <2>2, <3>1 DEF IsDirectory
  <2>3. CASE q # p
    <3>1. Exists(Shows(ls), q)
      BY <1>13, <1>17, <2>3 DEF Exists
    <3>2. IsDirectory(Shows(ls), Parent(q))
      BY <3>1 DEF StackOK
    <3>3. Parent(q) # p
      BY <3>2 DEF IsDirectory, Exists
    <3> QED
      BY <1>13, <2>1, <3>2, <3>3 DEF IsDirectory
  <2> QED
    BY <2>2, <2>3
<1>18. StackOK(new)
  BY <1>7, <1>9, <1>16, <1>17, ToppedOK
<1> QED
  BY <1>7, <1>8, <1>11, <1>15, <1>18 DEF g, h, m

\* Removing what is shown at a path with nothing below it, from the first layer
\* and by a mark, succeeds and leaves nothing to be seen there.
LEMMA Marked ==
    ASSUME MarksAreDistinct, NEW ls, StackOK(ls), NEW p \in UserPaths \ {Root},
           Exists(Shows(ls), p),
           \A q \in UserPaths \ {Root} : Exists(Shows(ls), q) => Parent(q) # p
    PROVE  LET g == Insert(WithDirectories(Remove(ls[1], p), Beginnings(MarkDir(Parent(p)))),
                           Mark(p), FileEntry(<< >>)) IN
           /\ PutMark(Remove(ls[1], p), p) = Done(g)
           /\ g \in Maps /\ StackOK(Topped(ls, g))
           /\ Shows(Topped(ls, g)) = Remove(Shows(ls), p)
           /\ \A q \in UserPaths \ {p} : g[q] = ls[1][q]
<1> DEFINE U == ls[1]
           m == Mark(p)
           d == MarkDir(Parent(p))
           B == Beginnings(d)
           f == Remove(U, p)
           k == WithDirectories(f, B)
           g == Insert(k, m, FileEntry(<< >>))
           new == Topped(ls, g)
<1>1. /\ ls \in Seq(Maps) /\ Len(ls) > 0 /\ U \in Maps /\ IsTree(U)
      /\ NoContentInDirectories(U) /\ Shows(ls) \in [UserPaths -> Entries]
      /\ \A q \in UserPaths : Exists(U, q) => Shows(ls)[q] = U[q]
      /\ ~Exists(U, m)
  BY StackFacts
<1>2. /\ p \in Paths /\ p \in UserPaths /\ Parent(p) \in UserPaths /\ UserPaths \subseteq Paths
      /\ Root \in UserPaths
  BY UserPathFacts
<1>3. /\ m \in Paths /\ m \notin UserPaths /\ m # Root /\ Parent(m) = d
      /\ d \in Paths /\ d \notin UserPaths /\ d \in AnyPath
  BY <1>2, MarkFacts, MarkDirFacts
<1>4. /\ B \subseteq {Root} \cup {MarkDir(q) : q \in UserPaths} /\ d \in B
      /\ m \notin B /\ \A q \in UserPaths \ {Root} : q \notin B
      /\ \A q \in UserPaths : Mark(q) \notin B
  <2>1. B \subseteq {Root} \cup {MarkDir(q) : q \in UserPaths} /\ d \in B
    BY <1>2, <1>3, MarkDirBeginnings, OuterBeginnings
  <2>2. \A q \in UserPaths : Mark(q) \notin B
    BY <2>1, MarkFacts, MarksDiffer
  <2>3. \A q \in UserPaths \ {Root} : q \notin B
    BY <2>1, MarkDirFacts
  <2> QED
    BY <1>2, <2>1, <2>2, <2>3
<1>5. Children(U, p) = {}
  <2>1. ASSUME NEW q \in Children(U, p) PROVE FALSE
    <3>1. q \in Paths \ {Root} /\ Parent(q) = p /\ Exists(U, q)
      BY DEF Children
    <3>2. q \in UserPaths \ {Root}
      BY <3>1, UserPathFacts
    <3> QED
      BY <1>1, <3>1, <3>2 DEF Exists
  <2> QED
    BY <2>1
<1>6. /\ f \in Maps /\ IsTree(f) /\ f[p] = VacantEntry
      /\ \A q \in Paths : q # p => f[q] = U[q]
  <2>1. f \in Maps
    BY <1>1, <1>2, MapTypes
  <2>2. IsTree(f)
    BY <1>1, <1>2, <1>5, RemoveKeepsTree
  <2> QED
    BY <1>1, <1>2, <2>1, <2>2 DEF Remove, Maps
<1> HIDE DEF B, f
<1>7. NoContentInDirectories(f) /\ \A q \in B : ~IsFile(f, q)
  <2>1. NoContentInDirectories(f)
    BY <1>1, <1>6 DEF NoContentInDirectories, IsDirectory, VacantEntry
  <2>2. ASSUME NEW q \in UserPaths PROVE ~IsFile(f, MarkDir(q))
    <3>1. ~IsFile(U, MarkDir(q)) /\ MarkDir(q) \in Paths /\ MarkDir(q) # p
      BY MarkDirFacts DEF StackOK
    <3> QED
      BY <1>6, <3>1 DEF IsFile
  <2>3. ~IsFile(f, Root)
    BY <1>6 DEF IsTree, IsFile, IsDirectory
  <2> QED
    BY <1>4, <2>1, <2>2, <2>3
<1>8. /\ k \in Maps /\ IsTree(k) /\ NoContentInDirectories(k)
      /\ \A q \in B : q \in Paths /\ k[q] = DirectoryEntry
      /\ \A q \in Paths : Exists(f, q) \/ q \notin B => k[q] = f[q]
  BY <1>3, <1>6, <1>7, WithDirectoriesKeepsTree DEF B
<1>9. CreateDirAll(f, d) = Done(k)
  BY <1>3, <1>6, <1>7, CreateDirAllMakes DEF B, IsTree
<1> HIDE DEF k
<1>10. IsDirectory(k, d) /\ ~IsDirectory(k, m)
  <2>1. k[d] = DirectoryEntry
    BY <1>4, <1>8
  <2>2. k[m] = U[m]
    BY <1>2, <1>3, <1>4, <1>6, <1>8
  <2> QED
    BY <1>1, <2>1, <2>2 DEF IsDirectory, Exists, DirectoryEntry
<1>11. PutMark(f, p) = Done(g)
  <2>1. ParentIsDirectory(k, m) /\ HasParent(k, m)
    BY <1>3, <1>10 DEF ParentIsDirectory, HasParent, IsDirectory, Exists
  <2>2. CreateFile(k, m, << >>) = Done(g)
    BY <2>1 DEF CreateFile
  <2>3. Then(Done(k), LAMBDA x : CreateFile(x, m, << >>)) = CreateFile(k, m, << >>)
    BY DEF Then, Done
  <2> QED
    BY <1>3, <1>9, <2>2, <2>3 DEF PutMark
<1>12. g \in Maps /\ IsTree(g)
  <2>1. FileEntry(<< >>) \in Entries /\ FileEntry(<< >>).kind = "File"
    BY EmptyContent, EntryTypes DEF FileEntry
  <2> QED
    BY <1>3, <1>8, <1>10, <2>1, MapTypes, InsertKeepsTree
<1>13. g[m] = FileEntry(<< >>) /\ \A q \in Paths : q # m => g[q] = k[q]
  BY <1>3, <1>8 DEF Insert, Maps
<1> HIDE DEF g, m, d
<1>14. NoContentInDirectories(g)
  BY <1>8, <1>13 DEF NoContentInDirectories, IsDirectory, FileEntry
<1>15. IsFile(g, m) /\ Exists(g, m) /\ ~Exists(g, p)
  <2>1. g[p] = VacantEntry
    BY <1>2, <1>3, <1>4, <1>6, <1>8, <1>13
  <2> QED
    BY <1>13, <2>1 DEF IsFile, Exists, FileEntry, VacantEntry
<1>16. ASSUME NEW q \in UserPaths \ {p} PROVE g[Mark(q)] = U[Mark(q)] /\ g[q] = U[q]
  <2>1. Mark(q) # m /\ Mark(q) # p /\ Mark(q) \in Paths
    BY MarksDiffer, MarkFacts DEF m
  <2>2. g[Mark(q)] = U[Mark(q)]
    BY <1>4, <1>6, <1>8, <1>13, <2>1
  <2>3. q \in Paths /\ q # m
    BY <1>2, <1>3
  <2>4. Exists(f, q) \/ q \notin B
    <3>1. Exists(f, Root)
      BY <1>6 DEF IsTree, Exists, IsDirectory
    <3> QED
      BY <1>4, <3>1
  <2> QED
    BY <1>6, <1>8, <1>13, <2>2, <2>3, <2>4
<1>17. new \in Seq(Maps) /\ Len(new) > 0 /\ new[1] = g
  BY <1>1, <1>12, ToppedStack
<1>18. ASSUME NEW q \in UserPaths \ {p} PROVE Shows(new)[q] = Shows(ls)[q]
  BY <1>1, <1>12, <1>16, SameShown DEF Exists
<1>19. Shows(new)[p] = VacantEntry
  <2> HIDE DEF new
  <2> QED
    BY <1>2, <1>15, <1>17, ShownEntry DEF m
<1>20. Shows(new) = Remove(Shows(ls), p)
  <2> HIDE DEF new
  <2> QED
    BY <1>1, <1>18, <1>19 DEF Shows, Remove
<1>21. ASSUME NEW q \in UserPaths
       PROVE  /\ Exists(g, Mark(q)) => IsFile(g, Mark(q)) /\ ~Exists(g, q)
              /\ ~IsFile(g, MarkDir(q))
  <2>1. /\ Exists(U, Mark(q)) => IsFile(U, Mark(q)) /\ ~Exists(U, q)
        /\ ~IsFile(U, MarkDir(q))
    BY DEF StackOK
  <2>2. MarkDir(q) # p /\ MarkDir(q) # m /\ MarkDir(q) \in Paths
    BY <1>2, MarkDirFacts, MarksDiffer DEF m
  <2>3. ~IsFile(g, MarkDir(q))
    <3>1. g[MarkDir(q)] = k[MarkDir(q)]
      BY <1>13, <2>2
    <3>2. CASE MarkDir(q) \in B
      BY <1>8, <3>1, <3>2 DEF IsFile, DirectoryEntry
    <3>3. CASE MarkDir(q) \notin B
      BY <1>6, <1>8, <2>1, <2>2, <3>1, <3>3 DEF IsFile
    <3> QED
      BY <3>2, <3>3
  <2>4. CASE q = p
    BY <1>15, <2>3, <2>4 DEF m
  <2>5. CASE q # p
    BY <1>16, <2>1, <2>3, <2>5 DEF Exists, IsFile
  <2> QED
    BY <2>4, <2>5
<1>22. ASSUME NEW q \in UserPaths \ {Root}, Exists(Shows(new), q)
       PROVE  IsDirectory(Shows(new), Parent(q))
  <2>1. q # p
    BY <1>19, <1>22 DEF Exists, VacantEntry
  <2>2. Exists(Shows(ls), q)
    BY <1>18, <1>22, <2>1 DEF Exists
  <2>3. IsDirectory(Shows(ls), Parent(q)) /\ Parent(q) # p /\ Parent(q) \in UserPaths
    BY <2>2, UserPathFacts DEF StackOK
  <2> QED
    BY <1>18, <2>3 DEF IsDirectory
<1>23. StackOK(new)
  BY <1>12, <1>14, <1>21, <1>22, ToppedOK
<1> QED
  BY <1>11, <1>12, <1>16, <1>20, <1>23 DEF g, k, f, B, d, m

-----------------------------------------------------------------------------
(* The invariant.                                                           *)

\* What the theorems assume: of the client, of the names and of the layers the
\* overlay is made of.
Assumed == Polite /\ MarksAreDistinct /\ LayersAgree

\* An open handle writes to a file that the first layer holds.
WriterOK == writer.open => writer.path \in UserPaths \ {Root} /\ IsFile(Upper, writer.path)

OverlayInv == TypeOK /\ StackOK(layers) /\ WriterOK

\* Replacing the first layer by itself, and replacing it twice.
LEMMA ToppedAgain ==
    ASSUME NEW ls \in Seq(Maps), Len(ls) > 0, NEW f \in Maps, NEW g \in Maps
    PROVE  /\ Topped(Topped(ls, f), g) = Topped(ls, g)
           /\ Topped(ls, ls[1]) = ls
<1>1. DOMAIN ls = 1 .. Len(ls) /\ 1 \in DOMAIN ls
  BY LenProperties
<1>2. Topped(Topped(ls, f), g) = Topped(ls, g)
  BY <1>1 DEF Topped
<1>3. Topped(ls, ls[1]) = ls
  BY <1>1 DEF Topped
<1> QED
  BY <1>2, <1>3

\* The view, in terms of the layers.
LEMMA ViewFacts ==
    ASSUME StackOK(layers)
    PROVE  /\ View = Shows(layers) /\ Upper = layers[1] /\ Upper \in Maps
           /\ layers \in Seq(Maps) /\ Len(layers) > 0 /\ Topped(layers, Upper) = layers
           /\ View \in [UserPaths -> Entries] /\ IsDirectory(View, Root)
           /\ \A p \in UserPaths :
                /\ Exists(Upper, p) => View[p] = Upper[p]
                /\ Shown(p) <=> Exists(View, p)
                /\ View[p].kind \in Kinds
                /\ p # Root => (Found(p) <=> Exists(View, p))
                /\ p # Root /\ Exists(View, p) => IsDirectory(View, Parent(p))
<1>1. View = Shows(layers) /\ Upper = layers[1]
  BY ViewIsShown DEF Upper
<1>2. /\ layers \in Seq(Maps) /\ Len(layers) > 0 /\ Upper \in Maps
      /\ Shows(layers) \in [UserPaths -> Entries] /\ IsDirectory(Shows(layers), Root)
      /\ \A p \in UserPaths :
           /\ Exists(Upper, p) => Shows(layers)[p] = Upper[p]
           /\ Exists(Shows(layers), p) => ~Exists(Upper, Mark(p))
  BY <1>1, StackFacts
<1>3. Topped(layers, Upper) = layers
  BY <1>1, <1>2, ToppedAgain
<1>4. ASSUME NEW p \in UserPaths
      PROVE  /\ Shown(p) <=> Exists(View, p)
             /\ p # Root => (Found(p) <=> Exists(View, p))
             /\ p # Root /\ Exists(View, p) => IsDirectory(View, Parent(p))
             /\ View[p].kind \in Kinds
  <2>1. Shown(p) <=> Exists(View, p)
    BY <1>1, <1>2 DEF Shown
  <2>2. p # Root => (Found(p) <=> Exists(View, p))
    BY <1>1, <1>2, ShownEntry DEF Found, FoundIn
  <2>3. p # Root /\ Exists(View, p) => IsDirectory(View, Parent(p))
    BY <1>1 DEF StackOK
  <2>4. View[p].kind \in Kinds
    BY <1>1, <1>2, EntryFields
  <2> QED
    BY <2>1, <2>2, <2>3, <2>4
<1> QED
  BY <1>1, <1>2, <1>3, <1>4

\* A step that leaves a first layer that is right.
LEMMA Settled ==
    ASSUME StackOK(layers), NEW g \in Maps, StackOK(Topped(layers, g)),
           layers' = Topped(layers, g)
    PROVE  /\ StackOK(layers)' /\ layers' \in Seq(Maps)
           /\ View' = Shows(Topped(layers, g)) /\ Upper' = g
<1>1. layers \in Seq(Maps) /\ Len(layers) > 0
  BY DEF StackOK
<1>2. Topped(layers, g)[1] = g /\ Topped(layers, g) \in Seq(Maps)
  BY <1>1, ToppedStack
<1>3. View' = Shows(layers')
  BY ViewIsShown
<1> QED
  BY <1>2, <1>3 DEF Upper

\* ensure_has_parent below a directory that is shown.
LEMMA MirrorParentMakes ==
    ASSUME StackOK(layers), NEW p \in UserPaths \ {Root}, IsDirectory(View, Parent(p))
    PROVE  \E g \in Maps :
              /\ MirrorParent(p) = Done(g) /\ IsDirectory(g, Parent(p))
              /\ StackOK(Topped(layers, g)) /\ Shows(Topped(layers, g)) = View
              /\ \A q \in UserPaths : Exists(Upper, q) => g[q] = Upper[q]
              /\ g[p] = Upper[p] /\ Topped(layers, g)[1] = g
              /\ \A h \in Maps : Topped(Topped(layers, g), h) = Topped(layers, h)
<1> DEFINE g == WithDirectories(Upper, Beginnings(Parent(p)))
<1>1. Parent(p) \in UserPaths /\ UserPaths \subseteq Paths
  BY UserPathFacts
<1>2. /\ View = Shows(layers) /\ Upper = layers[1] /\ Shown(Parent(p))
      /\ layers \in Seq(Maps) /\ Len(layers) > 0
  BY <1>1, ViewFacts DEF Exists, IsDirectory
<1>3. /\ CreateDirAll(Upper, Parent(p)) = Done(g)
      /\ g \in Maps /\ StackOK(Topped(layers, g)) /\ Shows(Topped(layers, g)) = View
      /\ IsDirectory(g, Parent(p))
      /\ \A q \in Paths :
           Exists(Upper, q) \/ q \notin Beginnings(Parent(p)) => g[q] = Upper[q]
  BY <1>1, <1>2, Mirrored
<1>4. MirrorParent(p) = Done(g)
  BY <1>2, <1>3 DEF MirrorParent
<1> HIDE DEF g
<1>5. /\ Topped(layers, g)[1] = g
      /\ \A h \in Maps : Topped(Topped(layers, g), h) = Topped(layers, h)
  BY <1>2, <1>3, ToppedStack, ToppedAgain
<1>6. g[p] = Upper[p]
  <2>1. p \in Paths /\ p \notin Beginnings(Parent(p))
    BY UserPathFacts, BeginningsOfParent
  <2> QED
    BY <1>3, <2>1
<1> QED
  BY <1>1, <1>3, <1>4, <1>5, <1>6

\* Whether there is a mark or not, afterwards there is none.
LEMMA UnmarkRemoves ==
    ASSUME NEW f \in Maps, NEW p \in UserPaths
    PROVE  Unmark(f, p) = Done(Remove(f, Mark(p)))
<1>1. Mark(p) \in Paths
  BY MarkFacts
<1>2. CASE Exists(f, Mark(p))
  BY <1>2 DEF Unmark, RemoveFile
<1>3. CASE ~Exists(f, Mark(p))
  <2>1. f[Mark(p)] = VacantEntry
    BY <1>1, <1>3, EntryFields DEF Maps, Exists
  <2>2. Remove(f, Mark(p)) = f
    BY <1>1, <2>1 DEF Remove, Maps
  <2> QED
    BY <1>3, <2>2 DEF Unmark
<1> QED
  BY <1>2, <1>3

-----------------------------------------------------------------------------
(* The operators of AtomicFS.                                               *)

\* AtomicFS has its own copies of the operators of FsTree; they are the same.
LEMMA SameTree ==
    /\ Atomic!Root = Root /\ \A p : Atomic!Parent(p) = Parent(p)
    /\ \A f, p : /\ Atomic!Exists(f, p) <=> Exists(f, p)
                 /\ Atomic!IsFile(f, p) <=> IsFile(f, p)
                 /\ Atomic!IsDirectory(f, p) <=> IsDirectory(f, p)
                 /\ Atomic!Remove(f, p) = Remove(f, p)
    /\ \A f, p, entry : Atomic!Insert(f, p, entry) = Insert(f, p, entry)
    /\ \A f, p : Atomic!Children(f, p) =
                    {q \in UserPaths \ {Root} : Parent(q) = p /\ Exists(f, q)}
<1>1. Atomic!Root = Root /\ \A p : Atomic!Parent(p) = Parent(p)
  BY DEF Atomic!Root, Atomic!Parent, Root, Parent
<1>2. \A f, p : /\ Atomic!Exists(f, p) <=> Exists(f, p)
                /\ Atomic!IsFile(f, p) <=> IsFile(f, p)
                /\ Atomic!IsDirectory(f, p) <=> IsDirectory(f, p)
  BY DEF Atomic!Exists, Atomic!IsFile, Atomic!IsDirectory, Exists, IsFile, IsDirectory
<1>3. /\ \A f, p : Atomic!Remove(f, p) = Remove(f, p)
      /\ \A f, p, entry : Atomic!Insert(f, p, entry) = Insert(f, p, entry)
  BY DEF Atomic!Insert, Insert, Atomic!Remove, Remove, Atomic!VacantEntry, VacantEntry
<1>4. \A f, p : Atomic!Children(f, p) =
                   {q \in UserPaths \ {Root} : Parent(q) = p /\ Exists(f, q)}
  BY <1>1, <1>2 DEF Atomic!Children
<1> QED
  BY <1>1, <1>2, <1>3, <1>4

\* So are those that make entries, handles and answers.
LEMMA SameData ==
    /\ Atomic!DirectoryEntry = DirectoryEntry
    /\ \A content : Atomic!FileEntry(content) = FileEntry(content)
    /\ Atomic!ClosedHandle = ClosedHandle
    /\ \A p, content : Atomic!OpenHandle(p, content) = OpenHandle(p, content)
    /\ \A buf, pos, byte : Atomic!Overwrite(buf, pos, byte) = Overwrite(buf, pos, byte)
    /\ \A code : Atomic!Answer(code) = Answer(code)
    /\ \A op, p, answer : Atomic!Result(op, p, answer) = Result(op, p, answer)
    /\ \A f, p : Atomic!MetadataAnswer(f, p) = MetadataAnswer(f, p)
    /\ \A f, p : Atomic!ExistsAnswer(f, p) = ExistsAnswer(f, p)
<1>1. /\ Atomic!DirectoryEntry = DirectoryEntry
      /\ \A content : Atomic!FileEntry(content) = FileEntry(content)
      /\ Atomic!ClosedHandle = ClosedHandle
      /\ \A p, content : Atomic!OpenHandle(p, content) = OpenHandle(p, content)
  BY DEF Atomic!DirectoryEntry, DirectoryEntry, Atomic!FileEntry, FileEntry,
         Atomic!ClosedHandle, ClosedHandle, Atomic!OpenHandle, OpenHandle, Atomic!Root, Root
<1>2. \A buf, pos, byte : Atomic!Overwrite(buf, pos, byte) = Overwrite(buf, pos, byte)
  BY DEF Atomic!Overwrite, Overwrite
<1>3. /\ \A code : Atomic!Answer(code) = Answer(code)
      /\ \A op, p, answer : Atomic!Result(op, p, answer) = Result(op, p, answer)
  BY DEF Atomic!Answer, Answer, Atomic!Result, Result
<1>4. /\ \A f, p : Atomic!MetadataAnswer(f, p) = MetadataAnswer(f, p)
      /\ \A f, p : Atomic!ExistsAnswer(f, p) = ExistsAnswer(f, p)
  BY <1>3, SameTree
  DEF Atomic!MetadataAnswer, MetadataAnswer, Atomic!ExistsAnswer, ExistsAnswer
<1> QED
  BY <1>1, <1>2, <1>3, <1>4

\* The client's result, as AtomicFS has it.
LEMMA TellAtomic ==
    ASSUME NEW op \in Ops, NEW p \in UserPaths, NEW answer \in Answers, Tell(op, p, answer)
    PROVE  /\ Atomic!Tell("client", op, p, [answer EXCEPT !.entries = @ \cap UserPaths])
           /\ res' \in Results
<1> DEFINE seen(r) == [r EXCEPT !.answer.entries = @ \cap UserPaths]
           told == [answer EXCEPT !.entries = @ \cap UserPaths]
<1>1. res' = [op |-> op, path |-> p, answer |-> answer]
  BY DEF Tell, Result
<1>2. seen(res') = [op |-> op, path |-> p, answer |-> told]
  BY <1>1
<1>3. Alone(seen(res')) = [Alone(seen(res)) EXCEPT !["client"] = Atomic!Result(op, p, told)]
  BY <1>2, SameData DEF Alone, Result
<1>4. res' \in Results
  BY <1>1, UserPathFacts DEF Results
<1> QED
  BY <1>3, <1>4 DEF Atomic!Tell

\* An answer that lists nothing.
LEMMA TellCode ==
    ASSUME NEW op \in Ops, NEW p \in UserPaths, NEW code \in Codes, Tell(op, p, Answer(code))
    PROVE  /\ Atomic!Tell("client", op, p, Atomic!Answer(code))
           /\ res' \in Results
<1>1. Answer(code) \in Answers
  BY EmptyContent DEF Answer, Answers, Kinds
<1>2. [Answer(code) EXCEPT !.entries = @ \cap UserPaths] = Answer(code)
  <2>1. Answer(code).entries \cap UserPaths = {}
    BY DEF Answer
  <2>2. Answer(code).entries = {}
    BY DEF Answer
  <2>3. ASSUME NEW r \in Answers PROVE [r EXCEPT !.entries = r.entries] = r
    BY DEF Answers
  <2> QED
    BY <1>1, <2>1, <2>2, <2>3
<1> QED
  BY <1>1, <1>2, TellAtomic, SameData

\* A call that is refused.
LEMMA RefuseAtomic ==
    ASSUME NEW op \in Ops, NEW p \in UserPaths, NEW code \in Codes, Tell(op, p, Answer(code)),
           View' = View, writer' = writer
    PROVE  Atomic!Refuse("client", op, p, code)
BY TellCode DEF Atomic!Refuse, Alone

-----------------------------------------------------------------------------
(* Every step keeps the invariant and is a step of AtomicFS.                *)

\* A call that answers a code and leaves a first layer that shows the same, with
\* the files it has held, changes nothing that can be seen.
LEMMA Refused ==
    ASSUME OverlayInv, NEW op \in Ops, NEW p \in UserPaths, NEW code \in Codes,
           NEW g \in Maps, StackOK(Topped(layers, g)), Shows(Topped(layers, g)) = View,
           \A q \in UserPaths : Exists(Upper, q) => g[q] = Upper[q],
           Leave(op, p, [map |-> g, code |-> code]), UNCHANGED writer
    PROVE  OverlayInv' /\ Atomic!Refuse("client", op, p, code)
<1>1. layers' = Topped(layers, g) /\ Tell(op, p, Answer(code))
  BY DEF Leave, Topped
<1>2. StackOK(layers)' /\ layers' \in Seq(Maps) /\ View' = View /\ Upper' = g
  BY <1>1, Settled DEF OverlayInv
<1>3. res' \in Results /\ Atomic!Refuse("client", op, p, code)
  BY <1>1, <1>2, TellCode, RefuseAtomic
<1>4. TypeOK'
  BY <1>2, <1>3 DEF OverlayInv, TypeOK
<1>5. WriterOK'
  BY <1>2 DEF OverlayInv, WriterOK, IsFile, Exists
<1> QED
  BY <1>2, <1>3, <1>4, <1>5 DEF OverlayInv

\* The same when the first layer is left alone.
LEMMA RefusedAtOnce ==
    ASSUME OverlayInv, NEW op \in Ops, NEW p \in UserPaths, NEW code \in Codes,
           Leave(op, p, Failed(Upper, code)), UNCHANGED writer
    PROVE  OverlayInv' /\ Atomic!Refuse("client", op, p, code)
<1>1. /\ Upper \in Maps /\ Topped(layers, Upper) = layers /\ View = Shows(layers)
      /\ StackOK(layers)
  BY ViewFacts DEF OverlayInv
<1> QED
  BY <1>1, Refused DEF Failed

\* A call that changes what is shown at one path.
LEMMA Answered ==
    ASSUME OverlayInv, NEW op \in Ops, NEW p \in UserPaths, NEW g \in Maps,
           StackOK(Topped(layers, g)), Leave(op, p, Done(g)), writer' \in Handles(Nat),
           writer'.open => writer'.path \in UserPaths \ {Root} /\ IsFile(g, writer'.path)
    PROVE  /\ OverlayInv' /\ View' = Shows(Topped(layers, g))
           /\ Atomic!Tell("client", op, p, Atomic!Answer("Ok"))
<1>1. layers' = Topped(layers, g) /\ Tell(op, p, Answer("Ok"))
  BY DEF Leave, Topped, Done
<1>2. /\ StackOK(layers)' /\ layers' \in Seq(Maps) /\ View' = Shows(Topped(layers, g))
      /\ Upper' = g
  BY <1>1, Settled DEF OverlayInv
<1>3. res' \in Results /\ Atomic!Tell("client", op, p, Atomic!Answer("Ok"))
  BY <1>1, TellCode DEF Codes
<1>4. TypeOK'
  BY <1>2, <1>3 DEF TypeOK
<1>5. WriterOK'
  BY <1>2 DEF WriterOK
<1> QED
  BY <1>2, <1>3, <1>4, <1>5 DEF OverlayInv

\* Where there is no room nothing can be created.
LEMMA NoRoom ==
    ASSUME StackOK(layers), NEW p \in UserPaths, NEW outcome,
           p = Root => outcome = Failed(Upper, "NoParent"),
           p = Root \/ ~IsDirectory(View, Parent(p))
    PROVE  /\ InDirectory(p, outcome) = Failed(Upper, "NoParent")
           /\ ~Atomic!HasRoom(p)
<1>1. InDirectory(p, outcome) = Failed(Upper, "NoParent")
  BY DEF InDirectory, Parent
<1>2. ~Atomic!HasRoom(p)
  BY SameTree DEF Atomic!HasRoom
<1> QED
  BY <1>1, <1>2

\* create_dir: refused, perhaps after directories nobody sees were made, or entered.
LEMMA CreateDirStep ==
    ASSUME Assumed, OverlayInv, NEW p \in UserPaths, CreateDirCall(p)
    PROVE  OverlayInv' /\ Atomic!CreateDir("client", p)
<1> DEFINE outcome == Then(Then(MirrorParent(p), LAMBDA f : CreateDir(f, p)),
                           LAMBDA f : Unmark(f, p))
<1>1. /\ Leave("create_dir", p, InDirectory(p, outcome)) /\ UNCHANGED writer
      /\ Exists(View, p) => Exists(Upper, p)
  BY DEF CreateDirCall, Assumed, Issue, Rules
<1>2. /\ StackOK(layers) /\ MarksAreDistinct /\ p \in Paths /\ Parent(p) \in UserPaths
      /\ "create_dir" \in Ops /\ {"NoParent", "FileExists", "DirectoryExists"} \subseteq Codes
  BY UserPathFacts DEF OverlayInv, Assumed, Ops, Codes
<1>3. /\ Upper \in Maps
      /\ \A q \in UserPaths :
           /\ Exists(Upper, q) => View[q] = Upper[q]
           /\ Shown(q) <=> Exists(View, q)
           /\ View[q].kind \in Kinds
  BY <1>2, ViewFacts
<1>4. CASE p = Root \/ ~IsDirectory(View, Parent(p))
  <2>1. p = Root => outcome = Failed(Upper, "NoParent")
    BY DEF Then, MirrorParent, Failed
  <2> HIDE DEF outcome
  <2>2. InDirectory(p, outcome) = Failed(Upper, "NoParent") /\ ~Atomic!HasRoom(p)
    BY <1>2, <1>4, <2>1, NoRoom
  <2> QED
    BY <1>1, <1>2, <2>2, RefusedAtOnce DEF Atomic!CreateDir
<1>5. CASE p # Root /\ IsDirectory(View, Parent(p))
  <2>1. PICK g \in Maps :
           /\ MirrorParent(p) = Done(g) /\ IsDirectory(g, Parent(p))
           /\ StackOK(Topped(layers, g)) /\ Shows(Topped(layers, g)) = View
           /\ \A q \in UserPaths : Exists(Upper, q) => g[q] = Upper[q]
           /\ Topped(layers, g)[1] = g
           /\ \A h \in Maps : Topped(Topped(layers, g), h) = Topped(layers, h)
    BY <1>2, <1>5, MirrorParentMakes
  <2>2. Atomic!HasRoom(p) /\ InDirectory(p, outcome) = outcome
    BY <1>2, <1>3, <1>5, SameTree DEF Atomic!HasRoom, InDirectory, Exists, IsDirectory
  <2>3. CreateDir(g, p) = IF IsFile(g, p) THEN Failed(g, "FileExists")
                          ELSE IF IsDirectory(g, p) THEN Failed(g, "DirectoryExists")
                          ELSE Done(Insert(g, p, DirectoryEntry))
    BY <1>5, <2>1
    DEF CreateDir, ParentIsDirectory, MemCreateDir, HasParent, Exists, IsDirectory
  <2>4. outcome = Then(CreateDir(g, p), LAMBDA f : Unmark(f, p))
    BY <2>1 DEF Then, Done
  <2>5. CASE Exists(View, p)
    <3>1. g[p] = View[p]
      BY <1>1, <1>3, <2>1, <2>5
    <3>2. IsFile(View, p) \/ IsDirectory(View, p)
      BY <1>3, <2>5 DEF Kinds, Exists, IsFile, IsDirectory
    <3>3. CASE IsFile(View, p)
      <4>1. outcome = Failed(g, "FileExists")
        BY <2>3, <2>4, <3>1, <3>3 DEF IsFile, Then, Failed
      <4>2. OverlayInv' /\ Atomic!Refuse("client", "create_dir", p, "FileExists")
        BY <1>1, <1>2, <2>1, <2>2, <4>1, Refused DEF Failed
      <4> QED
        BY <2>2, <3>3, <4>2, SameTree DEF Atomic!CreateDir
    <3>4. CASE IsDirectory(View, p)
      <4>1. outcome = Failed(g, "DirectoryExists")
        BY <2>3, <2>4, <3>1, <3>4 DEF IsFile, IsDirectory, Then, Failed
      <4>2. OverlayInv' /\ Atomic!Refuse("client", "create_dir", p, "DirectoryExists")
        BY <1>1, <1>2, <2>1, <2>2, <4>1, Refused DEF Failed
      <4> QED
        BY <2>2, <3>4, <4>2, SameTree DEF Atomic!CreateDir
    <3> QED
      BY <3>2, <3>3, <3>4
  <2>6. CASE ~Exists(View, p)
    <3> DEFINE h == Remove(Insert(g, p, DirectoryEntry), Mark(p))
    <3>1. ~Exists(g, p)
      BY <2>1, <2>6, StackFacts DEF Exists
    <3>2. CreateDir(g, p) = Done(Insert(g, p, DirectoryEntry))
      BY <2>3, <3>1 DEF Exists, IsFile, IsDirectory
    <3>3. outcome = Done(h)
      <4>1. Insert(g, p, DirectoryEntry) \in Maps
        BY <1>2, EntryTypes, MapTypes
      <4> QED
        BY <2>4, <3>2, <4>1, UnmarkRemoves DEF Then, Done
    <3>4. /\ h \in Maps /\ StackOK(Topped(Topped(layers, g), h))
          /\ Shows(Topped(Topped(layers, g), h)) = Insert(View, p, DirectoryEntry)
          /\ \A q \in UserPaths \ {p} : h[q] = g[q]
      BY <1>2, <1>5, <2>1, <2>6, EntryTypes, Entered
    <3> HIDE DEF h
    <3>5. /\ StackOK(Topped(layers, h))
          /\ Shows(Topped(layers, h)) = Insert(View, p, DirectoryEntry)
      BY <2>1, <3>4
    <3>6. /\ writer' \in Handles(Nat)
          /\ writer'.open => writer'.path \in UserPaths \ {Root} /\ IsFile(h, writer'.path)
      <4>1. writer' = writer /\ writer \in Handles(Nat) /\ WriterOK
        BY <1>1 DEF OverlayInv, TypeOK
      <4>2. ~Exists(Upper, p)
        BY <1>3, <2>6 DEF Exists
      <4> QED
        BY <2>1, <3>4, <4>1, <4>2 DEF WriterOK, IsFile, Exists
    <3>7. /\ OverlayInv' /\ View' = Insert(View, p, DirectoryEntry)
          /\ Atomic!Tell("client", "create_dir", p, Atomic!Answer("Ok"))
      BY <1>1, <1>2, <2>2, <3>3, <3>4, <3>5, <3>6, Answered
    <3> QED
      BY <1>1, <2>2, <2>6, <3>7, SameTree, SameData DEF Atomic!CreateDir, Alone
  <2> QED
    BY <2>5, <2>6
<1> QED
  BY <1>4, <1>5

\* Creating a file with some content where there is room, and removing its mark.
LEMMA FileEntered ==
    ASSUME MarksAreDistinct, StackOK(layers), NEW p \in UserPaths \ {Root},
           ~IsDirectory(View, p), NEW content \in Contents,
           NEW g \in Maps, IsDirectory(g, Parent(p)),
           StackOK(Topped(layers, g)), Shows(Topped(layers, g)) = View,
           Topped(layers, g)[1] = g,
           \A h \in Maps : Topped(Topped(layers, g), h) = Topped(layers, h)
    PROVE  LET h == Remove(Insert(g, p, FileEntry(content)), Mark(p)) IN
           /\ CreateFile(g, p, content) = Done(Insert(g, p, FileEntry(content)))
           /\ Unmark(Insert(g, p, FileEntry(content)), p) = Done(h)
           /\ h \in Maps /\ StackOK(Topped(layers, h))
           /\ Shows(Topped(layers, h)) = Insert(View, p, FileEntry(content))
           /\ h[p] = FileEntry(content) /\ \A q \in UserPaths \ {p} : h[q] = g[q]
<1> DEFINE h == Remove(Insert(g, p, FileEntry(content)), Mark(p))
<1>1. FileEntry(content) \in Entries /\ FileEntry(content).kind = "File" /\ p \in Paths
  BY EntryTypes, UserPathFacts DEF FileEntry
<1>2. CreateFile(g, p, content) = Done(Insert(g, p, FileEntry(content)))
  BY DEF CreateFile, ParentIsDirectory, HasParent, Exists, IsDirectory
<1>3. Unmark(Insert(g, p, FileEntry(content)), p) = Done(h)
  BY <1>1, MapTypes, UnmarkRemoves
<1>4. /\ h \in Maps /\ StackOK(Topped(Topped(layers, g), h))
      /\ Shows(Topped(Topped(layers, g), h)) = Insert(View, p, FileEntry(content))
      /\ h[p] = FileEntry(content) /\ \A q \in UserPaths \ {p} : h[q] = g[q]
  BY <1>1, Entered
<1> HIDE DEF h
<1>5. Topped(Topped(layers, g), h) = Topped(layers, h)
  BY <1>4
<1> QED
  BY <1>2, <1>3, <1>4, <1>5 DEF h

\* create_file: the file, its mark gone, and the handle on it.
LEMMA CreateFileStep ==
    ASSUME Assumed, OverlayInv, NEW p \in UserPaths, CreateFileCall(p)
    PROVE  OverlayInv' /\ Atomic!CreateFile("client", p)
<1> DEFINE outcome == Then(Then(MirrorParent(p), LAMBDA f : CreateFile(f, p, << >>)),
                           LAMBDA f : Unmark(f, p))
           answer == InDirectory(p, outcome)
<1>1. /\ Leave("create_file", p, answer) /\ ~writer.open /\ ~IsDirectory(View, p)
      /\ writer' = IF answer.code = "Ok" THEN OpenHandle(p, << >>) ELSE writer
  BY DEF CreateFileCall, Assumed, Issue, Rules
<1>2. /\ StackOK(layers) /\ MarksAreDistinct /\ p \in Paths /\ Parent(p) \in UserPaths
      /\ "create_file" \in Ops /\ "NoParent" \in Codes
  BY UserPathFacts DEF OverlayInv, Assumed, Ops, Codes
<1>3. CASE p = Root \/ ~IsDirectory(View, Parent(p))
  <2>1. p = Root => outcome = Failed(Upper, "NoParent")
    BY DEF Then, MirrorParent, Failed
  <2> HIDE DEF outcome
  <2>2. answer = Failed(Upper, "NoParent") /\ ~Atomic!HasRoom(p)
    BY <1>2, <1>3, <2>1, NoRoom
  <2>3. UNCHANGED writer
    BY <1>1, <2>2 DEF Failed
  <2> QED
    BY <1>1, <1>2, <2>2, <2>3, RefusedAtOnce DEF Atomic!CreateFile
<1>4. CASE p # Root /\ IsDirectory(View, Parent(p))
  <2>1. PICK g \in Maps :
           /\ MirrorParent(p) = Done(g) /\ IsDirectory(g, Parent(p))
           /\ StackOK(Topped(layers, g)) /\ Shows(Topped(layers, g)) = View
           /\ \A q \in UserPaths : Exists(Upper, q) => g[q] = Upper[q]
           /\ Topped(layers, g)[1] = g
           /\ \A h \in Maps : Topped(Topped(layers, g), h) = Topped(layers, h)
    BY <1>2, <1>4, MirrorParentMakes
  <2>2. Atomic!HasRoom(p) /\ answer = outcome
    BY <1>2, <1>4, ViewFacts, SameTree
    DEF Atomic!HasRoom, InDirectory, Exists, IsDirectory
  <2> DEFINE h == Remove(Insert(g, p, FileEntry(<< >>)), Mark(p))
  <2>3. /\ CreateFile(g, p, << >>) = Done(Insert(g, p, FileEntry(<< >>)))
        /\ Unmark(Insert(g, p, FileEntry(<< >>)), p) = Done(h)
        /\ h \in Maps /\ StackOK(Topped(layers, h))
        /\ Shows(Topped(layers, h)) = Insert(View, p, FileEntry(<< >>))
        /\ h[p] = FileEntry(<< >>)
    BY <1>1, <1>2, <1>4, <2>1, EmptyContent, FileEntered
  <2>4. outcome = Done(h)
    BY <2>1, <2>3 DEF Then, Done
  <2> HIDE DEF h, outcome
  <2>5. writer' = OpenHandle(p, << >>) /\ writer' \in Handles(Nat)
    BY <1>1, <1>2, <2>2, <2>4, EmptyContent, EntryTypes DEF Done
  <2>6. writer'.path = p /\ IsFile(h, p)
    BY <2>3, <2>5 DEF OpenHandle, IsFile, FileEntry
  <2>7. /\ OverlayInv' /\ View' = Insert(View, p, FileEntry(<< >>))
        /\ Atomic!Tell("client", "create_file", p, Atomic!Answer("Ok"))
    BY <1>1, <1>2, <1>4, <2>2, <2>3, <2>4, <2>5, <2>6, Answered
  <2> QED
    BY <1>1, <2>2, <2>5, <2>7, SameTree, SameData DEF Atomic!CreateFile, Alone
<1> QED
  BY <1>3, <1>4

\* append_file: a file a lower layer holds is copied up, which nobody sees.
LEMMA AppendFileStep ==
    ASSUME Assumed, OverlayInv, NEW p \in UserPaths, AppendFileCall(p)
    PROVE  OverlayInv' /\ Atomic!AppendFile("client", p)
<1> DEFINE outcome == CopyUp(p)
<1>1. /\ Leave("append_file", p, outcome) /\ ~writer.open
      /\ ~IsDirectory(View, p) /\ IsDirectory(View, Parent(p))
      /\ writer' = IF outcome.code = "Ok" THEN OpenHandle(p, outcome.map[p].content)
                                          ELSE writer
  BY DEF AppendFileCall, Assumed, Issue, Rules
<1>2. /\ StackOK(layers) /\ MarksAreDistinct /\ p \in Paths /\ Parent(p) \in UserPaths
      /\ "append_file" \in Ops /\ "FileNotFound" \in Codes
  BY UserPathFacts DEF OverlayInv, Assumed, Ops, Codes
<1>3. /\ View = Shows(layers) /\ Upper \in Maps /\ Topped(layers, Upper) = layers
      /\ View \in [UserPaths -> Entries]
      /\ Exists(Upper, p) => View[p] = Upper[p]
      /\ p # Root /\ View[p].kind \in Kinds
      /\ Found(p) <=> Exists(View, p)
  BY <1>1, <1>2, ViewFacts
\* What is seen stays; the handle holds the file's content.
<1>4. ASSUME NEW h \in Maps, StackOK(Topped(layers, h)), Shows(Topped(layers, h)) = View,
             outcome = Done(h), IsFile(View, p), h[p] = View[p]
      PROVE  OverlayInv' /\ Atomic!AppendFile("client", p)
  <2> HIDE DEF outcome
  <2>1. View[p].content \in Contents
    BY <1>2, <1>3, EntryFields
  <2>2. writer' = OpenHandle(p, View[p].content) /\ writer' \in Handles(Nat)
    BY <1>1, <1>2, <1>4, <2>1, EntryTypes DEF Done
  <2>3. writer'.path = p /\ IsFile(h, p)
    BY <1>4, <2>2 DEF OpenHandle, IsFile
  <2>4. /\ OverlayInv' /\ View' = View
        /\ Atomic!Tell("client", "append_file", p, Atomic!Answer("Ok"))
    BY <1>1, <1>2, <1>3, <1>4, <2>2, <2>3, Answered
  <2> QED
    BY <1>1, <1>4, <2>2, <2>4, SameTree, SameData DEF Atomic!AppendFile, Alone
<1>5. CASE Exists(Upper, p)
  <2>1. outcome = Done(Upper) /\ IsFile(View, p)
    BY <1>1, <1>3, <1>5 DEF CopyUp, Exists, IsFile, IsDirectory, Kinds
  <2> HIDE DEF outcome
  <2> QED
    BY <1>2, <1>3, <1>4, <1>5, <2>1
<1>6. CASE ~Exists(Upper, p)
  <2>1. PICK g \in Maps :
           /\ MirrorParent(p) = Done(g) /\ IsDirectory(g, Parent(p))
           /\ StackOK(Topped(layers, g)) /\ Shows(Topped(layers, g)) = View
           /\ \A q \in UserPaths : Exists(Upper, q) => g[q] = Upper[q]
           /\ g[p] = Upper[p] /\ Topped(layers, g)[1] = g
           /\ \A h \in Maps : Topped(Topped(layers, g), h) = Topped(layers, h)
    BY <1>1, <1>2, <1>3, MirrorParentMakes
  <2>2. CASE ~Found(p)
    <3>1. outcome = Failed(g, "FileNotFound")
      BY <1>6, <2>1, <2>2 DEF CopyUp, Then, Done, Failed
    <3> HIDE DEF outcome
    <3>2. UNCHANGED writer
      BY <1>1, <3>1 DEF Failed
    <3>3. OverlayInv' /\ Atomic!Refuse("client", "append_file", p, "FileNotFound")
      BY <1>1, <1>2, <2>1, <3>1, <3>2, Refused DEF Failed
    <3> QED
      BY <1>3, <2>2, <3>3, SameTree DEF Atomic!AppendFile
  <2>3. CASE Found(p)
    <3> DEFINE lower == layers[TopLayer(p)]
               content == View[p].content
               h == Remove(Insert(g, p, FileEntry(content)), Mark(p))
    <3>1. View[p] = lower[p] /\ IsFile(View, p)
      BY <1>1, <1>3, <2>3 DEF View, Entry, Exists, IsFile, IsDirectory, Kinds
    <3>2. content \in Contents /\ View[p] = FileEntry(content)
      BY <1>2, <1>3, <3>1 DEF Entries, IsFile, VacantEntry, FileEntry
    <3> DEFINE k == Insert(g, p, FileEntry(content))
    <3>3. /\ CreateFile(g, p, content) = Done(k) /\ Unmark(k, p) = Done(h)
          /\ h \in Maps /\ StackOK(Topped(layers, h))
          /\ Shows(Topped(layers, h)) = Insert(View, p, FileEntry(content))
          /\ h[p] = FileEntry(content)
      BY <1>1, <1>2, <1>3, <2>1, <3>2, FileEntered
    <3>4. k = h
      <4>1. ~Exists(g, Mark(p))
        <5>1. Exists(Shows(Topped(layers, g)), p)
          BY <1>3, <2>1, <2>3
        <5> QED
          BY <2>1, <5>1, StackFacts
      <4>2. Mark(p) # p /\ Mark(p) \in Paths
        BY MarkFacts
      <4>3. ~Exists(k, Mark(p))
        BY <4>1, <4>2 DEF Insert, Exists, Maps
      <4> HIDE DEF k, h
      <4> QED
        BY <3>3, <4>3 DEF Unmark, Done
    <3>5. outcome = Done(k)
      <4>1. CopyFile(lower, p, g, p) = CreateFile(g, p, content)
        BY <1>6, <2>1, <3>1 DEF CopyFile, Exists, IsFile
      <4> QED
        BY <1>6, <2>1, <2>3, <3>3, <4>1 DEF CopyUp, Then, Done
    <3>6. Insert(View, p, FileEntry(content)) = View
      BY <1>3, <3>2 DEF Insert
    <3> HIDE DEF h, k, outcome
    <3> QED
      BY <1>4, <3>1, <3>2, <3>3, <3>4, <3>5, <3>6
  <2> QED
    BY <2>2, <2>3
<1> QED
  BY <1>5, <1>6

\* Removing what has nothing below it: removed from the first layer if it is
\* there, its mark put in any case.
LEMMA RemovedAndMarked ==
    ASSUME MarksAreDistinct, OverlayInv, NEW p \in UserPaths \ {Root}, Exists(View, p),
           \A q \in UserPaths \ {Root} : Exists(View, q) => Parent(q) # p,
           NEW op \in Ops, NEW removed, Exists(Upper, p) => removed = Done(Remove(Upper, p)),
           Leave(op, p, RemoveAndMark(p, removed)), UNCHANGED writer,
           ~(writer.open /\ writer.path = p)
    PROVE  /\ OverlayInv' /\ View' = Remove(View, p)
           /\ Atomic!Tell("client", op, p, Atomic!Answer("Ok"))
<1> DEFINE f == Remove(Upper, p)
           g == Insert(WithDirectories(f, Beginnings(MarkDir(Parent(p)))),
                       Mark(p), FileEntry(<< >>))
<1>1. /\ View = Shows(layers) /\ Upper = layers[1] /\ Upper \in Maps /\ Found(p)
      /\ StackOK(layers) /\ p \in Paths
  BY ViewFacts, UserPathFacts DEF OverlayInv
<1>2. /\ PutMark(f, p) = Done(g)
      /\ g \in Maps /\ StackOK(Topped(layers, g))
      /\ Shows(Topped(layers, g)) = Remove(View, p)
      /\ \A q \in UserPaths \ {p} : g[q] = Upper[q]
  BY <1>1, Marked
<1> HIDE DEF g
<1>3. (IF Exists(Upper, p) THEN removed ELSE Done(Upper)) = Done(f)
  <2>1. ~Exists(Upper, p) => f = Upper
    BY <1>1, EntryFields DEF Remove, Exists, Maps
  <2> QED
    BY <2>1
<1> HIDE DEF f
<1>4. RemoveAndMark(p, removed) = Done(g)
  <2>1. Then(Done(f), LAMBDA x : PutMark(x, p)) = PutMark(f, p)
    BY DEF Then, Done
  <2> QED
    BY <1>1, <1>2, <1>3, <2>1 DEF RemoveAndMark
<1>5. /\ writer' \in Handles(Nat)
      /\ writer'.open => writer'.path \in UserPaths \ {Root} /\ IsFile(g, writer'.path)
  BY <1>2 DEF OverlayInv, TypeOK, WriterOK, IsFile
<1> QED
  BY <1>2, <1>4, <1>5, Answered

\* remove_file: a tree has nothing below a file, so it can be removed and marked.
LEMMA RemoveFileStep ==
    ASSUME Assumed, OverlayInv, NEW p \in UserPaths, RemoveFileCall(p)
    PROVE  OverlayInv' /\ Atomic!RemoveFile("client", p)
<1> DEFINE removed == RemoveFile(Upper, p)
<1>1. /\ Leave("remove_file", p, RemoveAndMark(p, removed)) /\ UNCHANGED writer
      /\ ~IsDirectory(View, p) /\ ~(writer.open /\ writer.path = p)
      /\ MarksAreDistinct /\ StackOK(layers)
  BY DEF RemoveFileCall, Assumed, Issue, Rules, OverlayInv
<1>2. "remove_file" \in Ops /\ "FileNotFound" \in Codes
  BY DEF Ops, Codes
<1>3. /\ p # Root /\ (Found(p) <=> Exists(View, p)) /\ View[p].kind \in Kinds
      /\ \A q \in UserPaths \ {Root} : Exists(View, q) => IsDirectory(View, Parent(q))
  BY <1>1, ViewFacts
<1>4. CASE ~Exists(View, p)
  <2>1. RemoveAndMark(p, removed) = Failed(Upper, "FileNotFound")
    BY <1>3, <1>4 DEF RemoveAndMark
  <2>2. OverlayInv' /\ Atomic!Refuse("client", "remove_file", p, "FileNotFound")
    BY <1>1, <1>2, <2>1, RefusedAtOnce
  <2> QED
    BY <1>4, <2>2, SameTree DEF Atomic!RemoveFile
<1>5. CASE Exists(View, p)
  <2>1. IsFile(View, p)
    BY <1>1, <1>3, <1>5 DEF Exists, IsFile, IsDirectory, Kinds
  <2>2. \A q \in UserPaths \ {Root} : Exists(View, q) => Parent(q) # p
    BY <1>1, <1>3
  <2>3. Exists(Upper, p) => removed = Done(Remove(Upper, p))
    BY DEF RemoveFile
  <2> HIDE DEF removed
  <2>4. /\ OverlayInv' /\ View' = Remove(View, p)
        /\ Atomic!Tell("client", "remove_file", p, Atomic!Answer("Ok"))
    BY <1>1, <1>2, <1>3, <1>5, <2>2, <2>3, RemovedAndMarked
  <2> QED
    BY <1>1, <2>1, <2>4, SameTree DEF Atomic!RemoveFile, Alone
<1> QED
  BY <1>4, <1>5

\* remove_dir: what the first layer has below is shown, and the rules exclude that
\* only a lower one has something.
LEMMA RemoveDirStep ==
    ASSUME Assumed, OverlayInv, NEW p \in UserPaths, RemoveDirCall(p)
    PROVE  OverlayInv' /\ Atomic!RemoveDir("client", p)
<1> DEFINE removed == RemoveDir(Upper, p)
           Seen == {q \in UserPaths \ {Root} : Parent(q) = p /\ Exists(View, q)}
<1>1. /\ Leave("remove_dir", p, RemoveAndMark(p, removed)) /\ UNCHANGED writer
      /\ p # Root /\ ~IsFile(View, p)
      /\ Children(View, p) = {} \/ Children(Upper, p) # {}
      /\ MarksAreDistinct /\ StackOK(layers) /\ WriterOK
  BY DEF RemoveDirCall, Assumed, Issue, Rules, OverlayInv
<1>2. "remove_dir" \in Ops /\ {"FileNotFound", "NotEmpty"} \subseteq Codes
  BY DEF Ops, Codes
<1>3. /\ (Found(p) <=> Exists(View, p)) /\ View[p].kind \in Kinds /\ IsTree(Upper)
      /\ Upper \in Maps
      /\ \A q \in UserPaths : Exists(Upper, q) => View[q] = Upper[q]
  BY <1>1, ViewFacts DEF StackOK, Upper
<1>4. Seen \subseteq Children(View, p) /\ Children(Upper, p) \subseteq Seen
  <2>1. UserPaths \subseteq Paths
    BY UserPathFacts
  <2>2. Seen \subseteq Children(View, p)
    BY <2>1 DEF Children
  <2>3. ASSUME NEW q \in Children(Upper, p) PROVE q \in Seen
    <3>1. q \in Paths \ {Root} /\ Parent(q) = p /\ Exists(Upper, q)
      BY DEF Children
    <3>2. q \in UserPaths
      BY <1>1, <3>1, UserPathFacts
    <3> QED
      BY <1>3, <3>1, <3>2 DEF Exists
  <2> QED
    BY <2>2, <2>3
<1>5. Atomic!Children(View, p) = Seen
  BY SameTree
<1>6. CASE ~Exists(View, p)
  <2>1. RemoveAndMark(p, removed) = Failed(Upper, "FileNotFound")
    BY <1>3, <1>6 DEF RemoveAndMark
  <2>2. OverlayInv' /\ Atomic!Refuse("client", "remove_dir", p, "FileNotFound")
    BY <1>1, <1>2, <2>1, RefusedAtOnce
  <2> QED
    BY <1>6, <2>2, SameTree DEF Atomic!RemoveDir
<1>7. CASE Exists(View, p) /\ Children(Upper, p) # {}
  <2>1. Exists(Upper, p)
    BY <1>3, <1>7 DEF Children, IsTree, IsDirectory, Exists
  <2>2. removed = Failed(Upper, "NotEmpty")
    BY <1>7, <2>1 DEF RemoveDir
  <2>3. RemoveAndMark(p, removed) = Failed(Upper, "NotEmpty")
    BY <1>3, <1>7, <2>1, <2>2 DEF RemoveAndMark, Then, Failed
  <2>4. OverlayInv' /\ Atomic!Refuse("client", "remove_dir", p, "NotEmpty")
    BY <1>1, <1>2, <2>3, RefusedAtOnce
  <2>5. Atomic!Children(View, p) # {}
    BY <1>4, <1>5, <1>7
  <2> QED
    BY <2>4, <2>5 DEF Atomic!RemoveDir
<1>8. CASE Exists(View, p) /\ Children(Upper, p) = {}
  <2>1. Seen = {}
    BY <1>1, <1>4, <1>8
  <2>2. IsDirectory(View, p)
    BY <1>1, <1>3, <1>8 DEF Exists, IsFile, IsDirectory, Kinds
  <2>3. Exists(Upper, p) => removed = Done(Remove(Upper, p))
    BY <1>8 DEF RemoveDir
  <2>4. ~(writer.open /\ writer.path = p)
    BY <1>1, <1>3 DEF WriterOK, IsFile, Exists
  <2>5. \A q \in UserPaths \ {Root} : Exists(View, q) => Parent(q) # p
    BY <2>1
  <2> HIDE DEF removed, Seen
  <2>6. /\ OverlayInv' /\ View' = Remove(View, p)
        /\ Atomic!Tell("client", "remove_dir", p, Atomic!Answer("Ok"))
    BY <1>1, <1>2, <1>8, <2>3, <2>4, <2>5, RemovedAndMarked
  <2>7. Atomic!Children(View, p) = {}
    BY <1>5, <2>1
  <2> QED
    BY <1>1, <2>2, <2>6, <2>7, SameTree DEF Atomic!RemoveDir, Alone
<1> QED
  BY <1>6, <1>7, <1>8

\* A call that only looks.
LEMMA Looked ==
    ASSUME OverlayInv, NEW op \in Ops, NEW p \in UserPaths, NEW answer \in Answers,
           Tell(op, p, answer), UNCHANGED <<layers, writer>>
    PROVE  /\ OverlayInv' /\ View' = View /\ writer' = writer
           /\ Atomic!Tell("client", op, p, [answer EXCEPT !.entries = @ \cap UserPaths])
           /\ answer.entries = {} => Atomic!Tell("client", op, p, answer)
<1>1. /\ StackOK(layers) /\ View = Shows(layers) /\ Upper \in Maps
      /\ layers' = Topped(layers, Upper) /\ Topped(layers, Upper) = layers
  BY ViewFacts DEF OverlayInv
<1>2. StackOK(layers)' /\ layers' \in Seq(Maps) /\ View' = View /\ Upper' = Upper
  BY <1>1, Settled
<1>3. /\ res' \in Results
      /\ Atomic!Tell("client", op, p, [answer EXCEPT !.entries = @ \cap UserPaths])
  BY TellAtomic
<1>4. answer.entries = {} => [answer EXCEPT !.entries = @ \cap UserPaths] = answer
  <2>1. answer.entries = {} => answer.entries \cap UserPaths = answer.entries
    OBVIOUS
  <2>2. [answer EXCEPT !.entries = answer.entries] = answer
    BY DEF Answers
  <2> QED
    BY <2>1, <2>2
<1>5. TypeOK' /\ WriterOK'
  BY <1>2, <1>3 DEF OverlayInv, TypeOK, WriterOK
<1> QED
  BY <1>2, <1>3, <1>4, <1>5 DEF OverlayInv

\* open_file: what is read is what is shown.
LEMMA OpenFileStep ==
    ASSUME Assumed, OverlayInv, NEW p \in UserPaths, OpenFileCall(p)
    PROVE  OverlayInv' /\ Atomic!OpenFile("client", p)
<1>1. /\ StackOK(layers) /\ View \in [UserPaths -> Entries] /\ View[p].kind \in Kinds
      /\ View[p].content \in Contents /\ "open_file" \in Ops
  <2>1. StackOK(layers) /\ View \in [UserPaths -> Entries]
    BY ViewFacts DEF OverlayInv
  <2> QED
    BY <2>1, EntryFields DEF Ops
<1>2. UNCHANGED <<layers, writer>>
  BY DEF OpenFileCall, Look
<1>3. CASE ~IsFile(View, p)
  <2> DEFINE code == IF Exists(View, p) THEN "NotAFile" ELSE "FileNotFound"
  <2>1. Tell("open_file", p, Answer(code)) /\ code \in Codes
    BY <1>3 DEF OpenFileCall, Look, Codes
  <2>2. Answer(code) \in Answers
    BY <2>1, EmptyContent DEF Answer, Answers, Kinds
  <2>3. OverlayInv' /\ View' = View /\ writer' = writer
    BY <1>1, <1>2, <2>1, <2>2, Looked
  <2>4. Atomic!Refuse("client", "open_file", p, code)
    BY <1>1, <2>1, <2>3, RefuseAtomic
  <2>5. Exists(View, p) => IsDirectory(View, p)
    BY <1>1, <1>3 DEF Exists, IsFile, IsDirectory, Kinds
  <2> QED
    BY <2>3, <2>4, <2>5, SameTree DEF Atomic!OpenFile
<1>4. CASE IsFile(View, p)
  <2> DEFINE answer == [Answer("Ok") EXCEPT !.content = View[p].content]
  <2>1. Tell("open_file", p, answer)
    BY <1>4 DEF OpenFileCall, Look, IsFile, Exists
  <2>2. answer \in Answers /\ answer.entries = {}
    BY <1>1, EmptyContent DEF Answer, Answers, Kinds, Codes
  <2> HIDE DEF answer
  <2>3. /\ OverlayInv' /\ View' = View /\ writer' = writer
        /\ Atomic!Tell("client", "open_file", p, answer)
    BY <1>1, <1>2, <2>1, <2>2, Looked
  <2> QED
    BY <1>4, <2>3, SameTree, SameData DEF Atomic!OpenFile, Alone, answer
<1> QED
  BY <1>3, <1>4

\* The user's paths of a listing are those shown below its directory.
LEMMA ListingIsShown ==
    ASSUME StackOK(layers), NEW p \in UserPaths
    PROVE  /\ Listing(p) \subseteq Paths
           /\ Listing(p) \cap UserPaths = Atomic!Children(View, p)
<1>1. \A f : Children(f, p) = {q \in Paths \ {Root} : Parent(q) = p /\ Exists(f, q)}
  BY DEF Children
<1>2. Listing(p) \subseteq Paths
  BY <1>1 DEF Listing
<1>3. ASSUME NEW q \in UserPaths
      PROVE  q \in Listing(p) <=> q # Root /\ Parent(q) = p /\ Exists(View, q)
  <2>1. q \in Paths /\ Mark(q) \in Paths \ {Root} /\ Parent(Mark(q)) = MarkDir(Parent(q))
    BY UserPathFacts, MarkFacts
  <2>2. Exists(Upper, Mark(q)) => Exists(Upper, MarkDir(Parent(q)))
    BY <2>1 DEF StackOK, IsTree, IsDirectory, Exists, Upper
  <2>3. Parent(q) = p =>
          (Exists(Upper, Mark(q)) <=>
             Exists(Upper, MarkDir(p)) /\ Mark(q) \in Children(Upper, MarkDir(p)))
    BY <2>1, <2>2 DEF Children
  <2>4. q \in Listing(p) <=>
          /\ \E i \in DOMAIN layers : q # Root /\ Parent(q) = p /\ Exists(layers[i], q)
          /\ ~(Exists(Upper, MarkDir(p)) /\ Mark(q) \in Children(Upper, MarkDir(p)))
    BY <1>1, <2>1 DEF Listing
  <2>5. q # Root =>
          (Exists(View, q) <=>
             ~Exists(Upper, Mark(q)) /\ \E i \in DOMAIN layers : Exists(layers[i], q))
    BY ViewFacts DEF Found
  <2> QED
    BY <2>3, <2>4, <2>5
<1>4. Atomic!Children(View, p) =
        {q \in UserPaths \ {Root} : Parent(q) = p /\ Exists(View, q)}
  BY SameTree
<1> QED
  BY <1>2, <1>3, <1>4

\* read_dir, metadata and exists answer what is shown.
LEMMA LookStep ==
    ASSUME Assumed, OverlayInv, NEW p \in UserPaths,
           ReadDirCall(p) \/ MetadataCall(p) \/ ExistsCall(p)
    PROVE  OverlayInv' /\ Atomic!Look("client", p)
<1>1. /\ StackOK(layers) /\ View \in [UserPaths -> Entries]
      /\ (Shown(p) <=> Exists(View, p))
      /\ {"read_dir", "metadata", "exists"} \subseteq Ops
  BY ViewFacts DEF OverlayInv, Ops
<1>2. UNCHANGED <<layers, writer>>
  BY DEF ReadDirCall, MetadataCall, ExistsCall, Look
<1>3. \A code \in Codes : Answer(code) \in Answers
  BY EmptyContent DEF Answer, Answers, Kinds
<1>4. {"Ok", "FileNotFound", "True", "False"} \subseteq Codes
  BY DEF Codes
<1>5. CASE ReadDirCall(p)
  <2>1. CASE Exists(View, p)
    <3> DEFINE answer == [Answer("Ok") EXCEPT !.entries = Listing(p)]
    <3>1. Tell("read_dir", p, answer)
      BY <1>5, <2>1 DEF ReadDirCall, Look
    <3>2. answer \in Answers
      BY <1>1, <1>4, ListingIsShown, EmptyContent DEF Answer, Answers, Kinds
    <3>3. [answer EXCEPT !.entries = @ \cap UserPaths] =
            [Answer("Ok") EXCEPT !.entries = Atomic!Children(View, p)]
      BY <1>1, ListingIsShown DEF Answer
    <3> HIDE DEF answer
    <3>4. /\ OverlayInv' /\ View' = View /\ writer' = writer
          /\ Atomic!Tell("client", "read_dir", p,
                         [answer EXCEPT !.entries = @ \cap UserPaths])
      BY <1>1, <1>2, <3>1, <3>2, Looked
    <3>5. Atomic!ReadDirAnswer(View, p) =
            [Answer("Ok") EXCEPT !.entries = Atomic!Children(View, p)]
      BY <2>1, SameTree, SameData DEF Atomic!ReadDirAnswer
    <3> QED
      BY <3>3, <3>4, <3>5 DEF Atomic!Look, Alone
  <2>2. CASE ~Exists(View, p)
    <3>1. Tell("read_dir", p, Answer("FileNotFound"))
      BY <1>5, <2>2 DEF ReadDirCall, Look
    <3>2. Answer("FileNotFound").entries = {}
      BY DEF Answer
    <3>3. /\ OverlayInv' /\ View' = View /\ writer' = writer
          /\ Atomic!Tell("client", "read_dir", p, Answer("FileNotFound"))
      BY <1>1, <1>2, <1>3, <1>4, <3>1, <3>2, Looked
    <3>4. Atomic!ReadDirAnswer(View, p) = Answer("FileNotFound")
      BY <2>2, SameTree, SameData DEF Atomic!ReadDirAnswer
    <3> QED
      BY <3>3, <3>4 DEF Atomic!Look, Alone
  <2> QED
    BY <2>1, <2>2
<1>6. CASE MetadataCall(p)
  <2>1. Tell("metadata", p, MetadataAnswer(View, p))
    BY <1>6 DEF MetadataCall, Look
  <2>2. /\ View[p].kind \in Kinds /\ Len(View[p].content) \in Nat
    BY <1>1, EntryFields DEF Contents
  <2>3. MetadataAnswer(View, p) \in Answers /\ MetadataAnswer(View, p).entries = {}
    BY <2>2, <1>4, EmptyContent DEF MetadataAnswer, Answer, Answers, Kinds
  <2>4. /\ OverlayInv' /\ View' = View /\ writer' = writer
        /\ Atomic!Tell("client", "metadata", p, MetadataAnswer(View, p))
    BY <1>1, <1>2, <2>1, <2>3, Looked
  <2> QED
    BY <2>4, SameData DEF Atomic!Look, Alone
<1>7. CASE ExistsCall(p)
  <2>1. Tell("exists", p, ExistsAnswer(View, p))
    BY <1>1, <1>7 DEF ExistsCall, Look, ExistsAnswer
  <2>2. ExistsAnswer(View, p) \in Answers /\ ExistsAnswer(View, p).entries = {}
    BY <1>3, <1>4 DEF ExistsAnswer, Answer
  <2>3. /\ OverlayInv' /\ View' = View /\ writer' = writer
        /\ Atomic!Tell("client", "exists", p, ExistsAnswer(View, p))
    BY <1>1, <1>2, <2>1, <2>2, Looked
  <2> QED
    BY <2>3, SameData DEF Atomic!Look, Alone
<1> QED
  BY <1>5, <1>6, <1>7

\* A write changes the handle only.
LEMMA WriteStep ==
    ASSUME OverlayInv, NEW byte \in Bytes, Write(byte)
    PROVE  OverlayInv' /\ Atomic!EditHandle("client")
<1>1. /\ writer \in Handles(Nat) /\ writer.open /\ UNCHANGED <<layers, res>>
      /\ writer' = [writer EXCEPT !.buf = Overwrite(writer.buf, writer.pos, byte),
                                  !.pos = writer.pos + 1]
  BY DEF Write, OverlayInv, TypeOK
<1>2. Overwrite(writer.buf, writer.pos, byte) \in Contents
  BY <1>1, OverwriteType DEF Handles
<1>3. writer' \in Handles(Nat) /\ writer'.open = writer.open /\ writer'.path = writer.path
  <2>1. PICK buf \in Contents : buf = Overwrite(writer.buf, writer.pos, byte)
    BY <1>2
  <2>2. PICK pos \in Nat : pos = writer.pos + 1
    BY <1>1 DEF Handles
  <2>3. writer' = [writer EXCEPT !.buf = buf, !.pos = pos]
    BY <1>1, <2>1, <2>2
  <2> QED
    BY <1>1, <2>3 DEF Handles
<1>4. /\ StackOK(layers) /\ View = Shows(layers) /\ Upper \in Maps
      /\ layers' = Topped(layers, Upper) /\ Topped(layers, Upper) = layers
  BY <1>1, ViewFacts DEF OverlayInv
<1>5. StackOK(layers)' /\ layers' \in Seq(Maps) /\ View' = View /\ Upper' = Upper
  BY <1>4, Settled
<1>6. OverlayInv'
  BY <1>1, <1>3, <1>5 DEF OverlayInv, TypeOK, WriterOK
<1>7. Atomic!EditHandle("client")
  BY <1>1, <1>5, SameData DEF Atomic!EditHandle, Alone
<1> QED
  BY <1>6, <1>7

\* A flush or a drop puts the buffer where the first layer has a file.
LEMMA PublishStep ==
    ASSUME Assumed, OverlayInv, Flush \/ Drop
    PROVE  OverlayInv' /\ Atomic!PublishHandle("client")
<1> DEFINE p == writer.path
           entry == FileEntry(writer.buf)
           g == Insert(Upper, p, entry)
<1>1. /\ writer.open /\ writer \in Handles(Nat) /\ res' = res /\ res \in Results
      /\ writer' \in {writer, ClosedHandle}
      /\ layers' = Topped(layers, g)
      /\ p \in UserPaths \ {Root} /\ IsFile(Upper, p)
      /\ StackOK(layers) /\ MarksAreDistinct
  BY DEF Flush, Drop, Publish, Topped, Upper, OverlayInv, TypeOK, WriterOK, Assumed
<1>2. /\ View = Shows(layers) /\ Upper = layers[1] /\ Upper \in Maps /\ IsTree(Upper)
      /\ View \in [UserPaths -> Entries]
      /\ \A q \in UserPaths : Exists(Upper, q) => View[q] = Upper[q]
  BY <1>1, ViewFacts, StackFacts
<1>3. Parent(p) \in UserPaths /\ p \in Paths /\ Mark(p) \in Paths /\ Mark(p) # p
  BY <1>1, UserPathFacts, MarkFacts
<1>4. Exists(Upper, p) /\ IsDirectory(Upper, Parent(p)) /\ ~IsDirectory(View, p)
  BY <1>1, <1>2, <1>3 DEF IsTree, Exists, IsFile, IsDirectory
<1>5. entry \in Entries /\ entry.kind = "File"
  BY <1>1, EntryTypes DEF Handles, FileEntry
<1>6. g \in Maps /\ Remove(g, Mark(p)) = g
  <2>1. ~Exists(Upper, Mark(p))
    BY <1>1, <1>4 DEF StackOK, Upper
  <2>2. g \in Maps
    BY <1>2, <1>3, <1>5, MapTypes
  <2>3. g[Mark(p)] = Upper[Mark(p)]
    BY <1>2, <1>3 DEF Insert, Maps
  <2>4. g[Mark(p)] = VacantEntry
    BY <1>2, <1>3, <2>1, <2>3, EntryFields DEF Maps, Exists
  <2> HIDE DEF g
  <2> QED
    BY <1>3, <2>2, <2>4 DEF Remove, Maps
<1>7. /\ StackOK(Topped(layers, g))
      /\ Shows(Topped(layers, g)) = Insert(View, p, entry)
      /\ g[p] = entry
  <2> HIDE DEF entry
  <2> QED
    BY <1>1, <1>2, <1>4, <1>5, <1>6, Entered
<1> HIDE DEF g
<1>8. /\ StackOK(layers)' /\ layers' \in Seq(Maps) /\ View' = Insert(View, p, entry)
      /\ Upper' = g
  BY <1>1, <1>6, <1>7, Settled
<1>9. TypeOK'
  BY <1>1, <1>8, EntryTypes DEF TypeOK
<1>10. WriterOK'
  BY <1>1, <1>5, <1>7, <1>8 DEF WriterOK, IsFile, ClosedHandle
<1>11. Atomic!HasRoom(p) /\ ~Atomic!IsDirectory(View, p)
  BY <1>1, <1>2, <1>3, <1>4, SameTree DEF Atomic!HasRoom, IsDirectory, Exists
<1>12. Atomic!PublishHandle("client")
  <2>1. Alone(writer)["client"] = writer
    BY DEF Alone
  <2>2. Alone(writer)' \in
          {Alone(writer), [Alone(writer) EXCEPT !["client"] = ClosedHandle]}
    BY <1>1 DEF Alone
  <2> QED
    BY <1>1, <1>8, <1>11, <2>1, <2>2, SameTree, SameData DEF Atomic!PublishHandle
<1> QED
  BY <1>8, <1>9, <1>10, <1>12 DEF OverlayInv

\* Without ".whiteout" a tree has nothing below it either.
LEMMA NoMarksAtFirst ==
    ASSUME NEW f \in Maps, IsTree(f), ~Exists(f, <<WoDir>>), NEW q \in Paths \ UserPaths
    PROVE  ~Exists(f, q)
<1> DEFINE S == {r \in Paths : Exists(f, r)}
<1>1. q \in Seq(Names) /\ Len(q) \in Nat \ {0} /\ q[1] = WoDir
  <2>1. q \in AnyPath /\ q # Root /\ q[1] = WoDir
    BY PathsAreSequences DEF UserPaths
  <2> QED
    BY <2>1, ParentIsShorter DEF AnyPath
<1>2. <<WoDir>> \in Beginnings(q)
  <2>1. /\ SubSeq(q, 1, 1) \in Seq(Names) /\ Len(SubSeq(q, 1, 1)) = 1
        /\ SubSeq(q, 1, 1)[1] = WoDir
    BY <1>1
  <2>2. WoDir \in Names
    BY <1>1, ElementOfSeq
  <2>3. <<WoDir>> \in Seq(Names) /\ Len(<<WoDir>>) = 1 /\ <<WoDir>>[1] = WoDir
    BY <2>2
  <2>4. SubSeq(q, 1, 1) = <<WoDir>>
    <3>1. \A i \in 1 .. 1 : SubSeq(q, 1, 1)[i] = <<WoDir>>[i]
      BY <2>1, <2>3
    <3> QED
      BY <2>1, <2>3, <3>1, SeqEqual
  <2> QED
    BY <1>1, <2>4 DEF Beginnings
<1>3. Exists(f, q) => Beginnings(q) \subseteq S
  <2>1. S \in SUBSET AnyPath
    BY PathsAreSequences
  <2>2. Root \in S
    BY PathsAssumption DEF IsTree, IsDirectory, Exists
  <2>3. \A r \in S \ {Root} : Parent(r) \in S
    BY PathsAssumption DEF IsTree, IsDirectory, Exists
  <2>4. Exists(f, q) => q \in S
    OBVIOUS
  <2> HIDE DEF S
  <2> QED
    BY <2>1, <2>2, <2>3, <2>4, Upwards
<1> QED
  BY <1>2, <1>3

\* The layers an overlay is made of show a tree.
LEMMA InitOverlay == Assumed /\ Init => OverlayInv
<1> SUFFICES ASSUME Assumed, Init PROVE OverlayInv
  OBVIOUS
<1>1. PICK ls \in InitialLayers : layers = ls
  BY DEF Init
<1>2. Len(ls) > 0 /\ ls \in Seq(Maps) /\ DOMAIN ls = 1 .. Len(ls) /\ 1 \in DOMAIN ls
  BY LayersAssumption, LenProperties
<1>3. ASSUME NEW i \in DOMAIN ls
      PROVE  /\ ls[i] \in Maps /\ IsTree(ls[i]) /\ NoContentInDirectories(ls[i])
             /\ \A q \in Paths \ UserPaths : ~Exists(ls[i], q)
             /\ \A j \in DOMAIN ls, p \in UserPaths :
                   IsFile(ls[i], p) => ~IsDirectory(ls[j], p)
  <2>1. ls[i] \in Maps
    BY <1>2, ElementOfSeq
  <2>2. /\ IsTree(ls[i]) /\ NoContentInDirectories(ls[i]) /\ ~Exists(ls[i], <<WoDir>>)
        /\ \A j \in DOMAIN ls, p \in UserPaths :
              IsFile(ls[i], p) => ~IsDirectory(ls[j], p)
    BY DEF Assumed, LayersAgree, NoContentInDirectories
  <2> QED
    BY <2>1, <2>2, NoMarksAtFirst
<1>4. \A p \in UserPaths :
         /\ ~Exists(ls[1], Mark(p)) /\ ~Exists(ls[1], MarkDir(p)) /\ ~IsFile(ls[1], MarkDir(p))
  BY <1>2, <1>3, MarkFacts, MarkDirFacts DEF Exists, IsFile
<1>5. ASSUME NEW p \in UserPaths \ {Root}, Exists(Shows(ls), p)
      PROVE  IsDirectory(Shows(ls), Parent(p))
  <2> DEFINE i == TopIn(ls, p)
             j == TopIn(ls, Parent(p))
  <2>1. Parent(p) \in UserPaths /\ p \in Paths
    BY UserPathFacts
  <2>2. FoundIn(ls, p)
    BY <1>2, <1>5, ShownEntry
  <2>3. i \in DOMAIN ls /\ Exists(ls[i], p)
    BY <1>2, <2>2, TopFacts
  <2> HIDE DEF i
  <2>4. IsDirectory(ls[i], Parent(p))
    BY <1>3, <2>1, <2>3 DEF IsTree
  <2>5. FoundIn(ls, Parent(p))
    BY <1>4, <2>1, <2>3, <2>4 DEF FoundIn, Exists, IsDirectory
  <2>6. CASE Parent(p) = Root
    BY <1>2, <1>3, <2>1, <2>6, ShownEntry DEF IsTree, IsDirectory
  <2>7. CASE Parent(p) # Root
    <3>1. j \in DOMAIN ls /\ Exists(ls[j], Parent(p))
      BY <1>2, <2>1, <2>5, <2>7, TopFacts
    <3>2. Shows(ls)[Parent(p)] = ls[j][Parent(p)]
      BY <2>1, <2>5 DEF Shows
    <3> HIDE DEF j
    <3>3. ~IsFile(ls[j], Parent(p))
      BY <1>3, <2>1, <2>3, <2>4, <3>1
    <3>4. ls[j][Parent(p)].kind \in Kinds
      BY <1>3, <2>1, <3>1, UserPathFacts, EntryFields DEF Maps
    <3> QED
      BY <3>1, <3>2, <3>3, <3>4 DEF Kinds, Exists, IsFile, IsDirectory
  <2> QED
    BY <2>6, <2>7
<1>6. StackOK(ls)
  BY <1>2, <1>3, <1>4, <1>5 DEF StackOK
<1>7. TypeOK
  <2>1. res = [op |-> "none", path |-> Root, answer |-> Answer("Ok")]
    BY DEF Init, NoResult, Result
  <2>2. Answer("Ok") \in Answers
    BY EmptyContent DEF Answer, Answers, Kinds, Codes
  <2>3. res \in Results
    BY <2>1, <2>2, PathsAssumption DEF Results
  <2> QED
    BY <1>1, <1>2, <2>3, EntryTypes DEF Init, TypeOK
<1>8. WriterOK
  BY DEF Init, WriterOK, ClosedHandle
<1> QED
  BY <1>1, <1>6, <1>7, <1>8 DEF OverlayInv

-----------------------------------------------------------------------------
(* The theorems.                                                            *)

\* Every step keeps the invariant and, but for what nobody sees, is a step of
\* AtomicFS.
LEMMA OverlayStep ==
    ASSUME Assumed, OverlayInv, [Next]_vars
    PROVE  OverlayInv' /\ [Atomic!Next]_(Atomic!vars)
<1>1. CASE UNCHANGED vars
  <2>1. StackOK(layers) /\ layers' = Topped(layers, Upper) /\ Upper \in Maps
        /\ Topped(layers, Upper) = layers /\ View = Shows(layers)
    BY <1>1, ViewFacts DEF vars, OverlayInv
  <2>2. StackOK(layers)' /\ View' = View /\ Upper' = Upper
    BY <2>1, Settled
  <2>3. OverlayInv'
    BY <1>1, <2>2 DEF vars, OverlayInv, TypeOK, WriterOK
  <2> QED
    BY <1>1, <2>2, <2>3 DEF vars, Atomic!vars, Alone
<1>2. ASSUME NEW p \in UserPaths, Call(p) PROVE OverlayInv' /\ Atomic!Call("client", p)
  BY <1>2, CreateDirStep, CreateFileStep, AppendFileStep, OpenFileStep, RemoveFileStep,
     RemoveDirStep, LookStep
  DEF Call, Atomic!Call
<1>3. CASE \E byte \in Bytes : Write(byte)
  BY <1>3, WriteStep DEF Atomic!Next
<1>4. CASE Flush \/ Drop
  BY <1>4, PublishStep DEF Atomic!Next
<1> QED
  BY <1>1, <1>2, <1>3, <1>4 DEF Next, Atomic!Next

\* The layers stay trees; they, the handle and the answers keep their types.
THEOREM LayersStayTrees == Assumed => (Spec => []LayersInv)
<1> SUFFICES ASSUME Assumed PROVE Spec => []LayersInv
  OBVIOUS
<1>1. OverlayInv /\ [Next]_vars => OverlayInv'
  BY OverlayStep
<1>2. Init => OverlayInv
  BY InitOverlay
<1>3. OverlayInv => LayersInv
  BY DEF OverlayInv, StackOK, LayersInv, LayersAreTrees
<1> QED
  BY <1>1, <1>2, <1>3, PTL DEF Spec

\* A mark only ever hides lower layers: whatever is removed, created again,
\* copied up or published late, what the first layer holds is shown.
THEOREM MarksAreRight == Assumed => (Spec => []MarksHideOnlyLower)
<1> SUFFICES ASSUME Assumed PROVE Spec => []MarksHideOnlyLower
  OBVIOUS
<1>1. OverlayInv /\ [Next]_vars => OverlayInv'
  BY OverlayStep
<1>2. Init => OverlayInv
  BY InitOverlay
<1>3. OverlayInv => MarksHideOnlyLower
  BY DEF OverlayInv, StackOK, MarksHideOnlyLower, Upper
<1> QED
  BY <1>1, <1>2, <1>3, PTL DEF Spec

\* To a polite client any number of layers that agree, with their marks, is one
\* plain file system on which every call is one step.
THEOREM OverlayIsAtomic == Assumed => (Spec => AtomicSpec)
<1> SUFFICES ASSUME Assumed PROVE Spec => AtomicSpec
  OBVIOUS
<1>1. OverlayInv /\ [Next]_vars => OverlayInv' /\ [Atomic!Next]_(Atomic!vars)
  BY OverlayStep
<1>2. Init => OverlayInv
  BY InitOverlay
<1>3. Init => Atomic!Init
  <2> SUFFICES ASSUME Init PROVE Atomic!Init
    OBVIOUS
  <2>1. StackOK(layers)
    BY <1>2 DEF OverlayInv
  <2>2. /\ IsDirectory(View, Root)
        /\ \A p \in UserPaths \ {Root} : Exists(View, p) => IsDirectory(View, Parent(p))
    BY <2>1, ViewFacts
  <2>3. Atomic!IsTree(View)
    BY <2>2, SameTree DEF Atomic!IsTree
  <2>4. [res EXCEPT !.answer.entries = @ \cap UserPaths] = Atomic!NoResult
    <3>1. res = [op |-> "none", path |-> Root, answer |-> Answer("Ok")]
      BY DEF Init, NoResult, Result
    <3>2. Atomic!NoResult = res
      BY <3>1, SameTree, SameData DEF Atomic!NoResult, Result
    <3>3. [Answer("Ok") EXCEPT !.entries = @ \cap UserPaths] = Answer("Ok")
      <4>1. Answer("Ok") \in Answers
        BY EmptyContent DEF Answer, Answers, Kinds, Codes
      <4>2. Answer("Ok").entries \cap UserPaths = Answer("Ok").entries
        BY DEF Answer
      <4>3. ASSUME NEW r \in Answers PROVE [r EXCEPT !.entries = r.entries] = r
        BY DEF Answers
      <4> QED
        BY <4>1, <4>2, <4>3
    <3> QED
      BY <3>1, <3>2, <3>3
  <2> QED
    BY <2>3, <2>4, SameData DEF Init, Alone, Atomic!Init
<1> QED
  BY <1>1, <1>2, <1>3, PTL DEF Atomic!Spec, AtomicSpec, Spec
=============================================================================
