------------------------------ MODULE FsTreeProofs ------------------------------
(* Lemmas about the file map, paths and write handles of FsTree, which the     *)
(* proofs about several file systems share.                                    *)
EXTENDS FsTree, SequenceTheorems, WellFoundedInduction, TLAPS

-----------------------------------------------------------------------------
(* Facts about the operators of FsTree.                                     *)

\* Writing a byte at any position of a buffer, past its end too, leaves a
\* buffer of bytes.
LEMMA OverwriteType ==
    ASSUME NEW buf \in Contents, NEW pos \in Nat, NEW byte \in Bytes
    PROVE  Overwrite(buf, pos, byte) \in Contents
<1> DEFINE n == IF pos < Len(buf) THEN Len(buf) ELSE pos + 1
           at(i) == IF i = pos + 1 THEN byte ELSE IF i <= Len(buf) THEN buf[i] ELSE 0
<1>1. n \in Nat
  BY DEF Contents
<1>2. \A i \in 1 .. n : at(i) \in Bytes \cup {0}
  BY DEF Contents
<1>3. [i \in 1 .. n |-> at(i)] \in Seq(Bytes \cup {0})
  BY <1>1, <1>2, IsASeq
<1>4. QED
  BY <1>3 DEF Overwrite, Contents

\* The empty content is one.
LEMMA EmptyContent == << >> \in Contents
BY DEF Contents

\* What an entry is made of.
LEMMA EntryFields ==
    \A entry \in Entries :
        /\ entry.kind \in Kinds
        /\ entry.content \in Contents
        /\ entry.kind = "Vacant" <=> entry = VacantEntry
BY EmptyContent DEF Entries, VacantEntry, Kinds

\* The entries, handles and answers the actions store are of the right type.
LEMMA EntryTypes ==
    /\ VacantEntry \in Entries
    /\ DirectoryEntry \in Entries
    /\ \A content \in Contents : FileEntry(content) \in Entries
    /\ ClosedHandle \in Handles(Nat)
    /\ \A p \in Paths, content \in Contents : OpenHandle(p, content) \in Handles(Nat)
<1>1. Root \in Paths
  BY PathsAssumption
<1>2. \A content \in Contents : Len(content) \in Nat
  BY DEF Contents
<1>3. QED
  BY <1>1, <1>2, EmptyContent
  DEF VacantEntry, DirectoryEntry, FileEntry, Entries, Kinds, ClosedHandle,
      OpenHandle, Handles

LEMMA AnswerTypes ==
    ASSUME NEW f \in Maps, NEW p \in Paths
    PROVE  /\ \A code \in Codes : Answer(code) \in Answers
           /\ ReadDirAnswer(f, p) \in Answers
           /\ MetadataAnswer(f, p) \in Answers
           /\ ExistsAnswer(f, p) \in Answers
<1>1. \A code \in Codes : Answer(code) \in Answers
  BY EmptyContent DEF Answer, Answers, Kinds
<1>2. f[p].kind \in Kinds /\ f[p].content \in Contents /\ Len(f[p].content) \in Nat
  BY EntryFields DEF Maps, Contents
<1>3. Children(f, p) \subseteq Paths
  BY DEF Children
<1>4. "Ok" \in Codes /\ "FileNotFound" \in Codes /\ "True" \in Codes /\ "False" \in Codes
  BY DEF Codes
<1>5. ReadDirAnswer(f, p) \in Answers
  BY <1>1, <1>3, <1>4, EmptyContent DEF ReadDirAnswer, Answer, Answers, Kinds
<1>6. MetadataAnswer(f, p) \in Answers
  BY <1>1, <1>2, <1>4, EmptyContent DEF MetadataAnswer, Answer, Answers
<1>7. ExistsAnswer(f, p) \in Answers
  BY <1>1, <1>4 DEF ExistsAnswer
<1> QED
  BY <1>1, <1>5, <1>6, <1>7

\* Inserting or removing an entry gives a map again.
LEMMA MapTypes ==
    ASSUME NEW f \in Maps, NEW p \in Paths
    PROVE  /\ \A entry \in Entries : Insert(f, p, entry) \in Maps
           /\ Remove(f, p) \in Maps
BY EntryTypes DEF Maps, Insert, Remove

\* Putting an entry into an existing directory keeps a tree a tree and every
\* directory a directory, unless a file replaces a directory.
LEMMA InsertKeepsTree ==
    ASSUME NEW f \in Maps, IsTree(f), NEW p \in Paths, NEW entry \in Entries,
           p # Root, IsDirectory(f, Parent(p)), entry.kind # "Vacant",
           entry.kind = "File" => ~IsDirectory(f, p)
    PROVE  /\ IsTree(Insert(f, p, entry))
           /\ \A q \in Paths : IsDirectory(f, q) => IsDirectory(Insert(f, p, entry), q)
           /\ \A q \in Paths : q # Parent(p) =>
                Children(Insert(f, p, entry), q) = Children(f, q)
<1> DEFINE g == Insert(f, p, entry)
<1>1. g[p] = entry /\ \A q \in Paths : q # p => g[q] = f[q]
  BY DEF Insert, Maps
<1>2. \A q \in Paths : IsDirectory(f, q) => IsDirectory(g, q)
  BY <1>1, EntryFields DEF IsDirectory, Kinds
<1>3. \A q \in Paths : q # p => (Exists(g, q) <=> Exists(f, q))
  BY <1>1 DEF Exists
<1>4. IsTree(g)
  BY <1>2, <1>3, PathsAssumption DEF IsTree
<1>5. \A q \in Paths : q # Parent(p) => Children(g, q) = Children(f, q)
  BY <1>3 DEF Children
<1>6. QED
  BY <1>2, <1>4, <1>5

\* Removing an entry other than the root with nothing below it keeps a tree a
\* tree; no other directory is lost and no entry is gained.
LEMMA RemoveKeepsTree ==
    ASSUME NEW f \in Maps, IsTree(f), NEW p \in Paths, p # Root, Children(f, p) = {}
    PROVE  /\ IsTree(Remove(f, p))
           /\ \A q \in Paths : q # p /\ IsDirectory(f, q) => IsDirectory(Remove(f, p), q)
           /\ \A q \in Paths : Children(Remove(f, p), q) \subseteq Children(f, q)
<1> DEFINE g == Remove(f, p)
<1>1. g[p] = VacantEntry /\ \A q \in Paths : q # p => g[q] = f[q]
  BY DEF Remove, Maps
<1>2. ~Exists(g, p) /\ \A q \in Paths : q # p => (Exists(g, q) <=> Exists(f, q))
  BY <1>1 DEF Exists, VacantEntry
<1>3. \A q \in Paths : q # p /\ IsDirectory(f, q) => IsDirectory(g, q)
  BY <1>1 DEF IsDirectory
<1>4. \A q \in Paths \ {Root} : Exists(g, q) => Parent(q) # p
  BY <1>2 DEF Children
<1>5. IsTree(g)
  BY <1>2, <1>3, <1>4, PathsAssumption DEF IsTree
<1>6. \A q \in Paths : Children(g, q) \subseteq Children(f, q)
  BY <1>2 DEF Children
<1>7. QED
  BY <1>3, <1>5, <1>6

-----------------------------------------------------------------------------
(* The beginnings of a path.                                                *)

\* A beginning's parent is the beginning before it.
LEMMA BeginningsParent ==
    ASSUME NEW p \in AnyPath, NEW k \in 1 .. Len(p)
    PROVE  /\ SubSeq(p, 1, k) # Root
           /\ Parent(SubSeq(p, 1, k)) = IF k = 1 THEN Root ELSE SubSeq(p, 1, k - 1)
<1> DEFINE b == SubSeq(p, 1, k)
<1>1. p \in Seq(Names) /\ Len(p) \in Nat
  BY LenProperties DEF AnyPath
<1>2. b \in Seq(Names) /\ Len(b) = k
  BY <1>1
<1>3. b # Root
  BY <1>2, EmptySeq DEF Root
<1>4. Parent(b) = SubSeq(b, 1, k - 1)
  BY <1>2, <1>3 DEF Parent
<1>5. CASE k = 1
  <2>1. SubSeq(b, 1, 0) = << >>
    BY SubSeqEmpty
  <2> QED
    BY <1>3, <1>4, <1>5, <2>1 DEF Root
<1>6. CASE k # 1
  <2>1. SubSeq(b, 1, k - 1) = SubSeq(p, 1 + 1 - 1, 1 + (k - 1) - 1)
    <3>1. /\ 1 \in 1 .. Len(p) /\ k \in 1 .. Len(p)
          /\ 1 \in 1 .. k - 1 + 1 /\ k - 1 \in 1 .. k - 1 + 1
      BY <1>1, <1>6
    <3> QED
      BY <1>1, <3>1, SubSeqOfSubSeq
  <2>2. 1 + 1 - 1 = 1 /\ 1 + (k - 1) - 1 = k - 1
    BY <1>1
  <2> QED
    BY <1>3, <1>4, <1>6, <2>1, <2>2
<1> QED
  BY <1>5, <1>6

\* A set of numbers has a least one.
LEMMA LeastElement ==
    ASSUME NEW S \in SUBSET Nat, S # {}
    PROVE  \E m \in S : \A k \in S : m <= k
<1>1. PICK m \in S : \A k \in S : <<k, m>> \notin OpToRel(<, Nat)
  BY NatLessThanWellFounded, WFMin
<1>2. ASSUME NEW k \in S PROVE m <= k
  <2>1. <<k, m>> \in OpToRel(<, Nat) <=> k < m
    BY DEF OpToRel
  <2>2. ~(k < m)
    BY <1>1, <2>1
  <2>3. k \in Nat /\ m \in Nat
    OBVIOUS
  <2> QED
    BY <2>2, <2>3
<1> QED
  BY <1>2

Beginnings(p) == {SubSeq(p, 1, n) : n \in 0 .. Len(p)}

\* The root and the path itself are among a path's beginnings.
LEMMA OuterBeginnings ==
    ASSUME NEW p \in AnyPath
    PROVE  /\ Root \in Beginnings(p) /\ p \in Beginnings(p)
           /\ SubSeq(p, 1, 0) = Root /\ SubSeq(p, 1, Len(p)) = p
           /\ Beginnings(Root) = {Root}
<1>1. Len(p) \in Nat
  BY LenProperties DEF AnyPath
<1>2. SubSeq(p, 1, 0) = << >> /\ SubSeq(p, 1, Len(p)) = p
  BY <1>1, SubSeqEmpty, SubSeqFull DEF AnyPath
<1>3. Len(Root) = 0 /\ SubSeq(Root, 1, 0) = Root
  BY EmptySeq, SubSeqEmpty DEF Root
<1>4. Beginnings(Root) = {SubSeq(Root, 1, n) : n \in {0}}
  <2>1. 0 .. Len(Root) = {0}
    BY <1>3
  <2> QED
    BY <2>1 DEF Beginnings
<1>5. 0 \in 0 .. Len(p) /\ Len(p) \in 0 .. Len(p)
  BY <1>1
<1>6. Root \in Beginnings(p) /\ p \in Beginnings(p)
  BY <1>2, <1>5 DEF Beginnings, Root
<1> QED
  BY <1>2, <1>3, <1>4, <1>6 DEF Root

\* What holds of a path and passes from paths to their parents holds of its
\* beginnings.
LEMMA Upwards ==
    ASSUME NEW S \in SUBSET AnyPath, \A q \in S \ {Root} : Parent(q) \in S,
           Root \in S, NEW p \in S
    PROVE  Beginnings(p) \subseteq S
<1> DEFINE b(n) == SubSeq(p, 1, n)
           Out == {k \in 0 .. Len(p) : b(Len(p) - k) \notin S}
<1>1. Len(p) \in Nat
  BY LenProperties DEF AnyPath
<1>2. ASSUME Out # {} PROVE FALSE
  <2>1. PICK m \in Out : \A k \in Out : m <= k
    <3>1. Out \in SUBSET Nat
      OBVIOUS
    <3> QED
      BY <1>2, <3>1, LeastElement
  <2>2. m # 0 /\ m # Len(p)
    <3>1. Len(p) - 0 = Len(p) /\ Len(p) - Len(p) = 0
      BY <1>1
    <3>2. b(0) \in S /\ b(Len(p)) \in S
      BY OuterBeginnings
    <3> QED
      BY <2>1, <3>1, <3>2
  <2>3. m - 1 \in 0 .. Len(p) /\ m - 1 \notin Out
    BY <1>1, <2>1, <2>2
  <2>4. b(Len(p) - (m - 1)) \in S
    BY <2>3
  <2> DEFINE n == Len(p) - (m - 1)
  <2>5. n \in 1 .. Len(p) /\ n # 1 /\ n - 1 = Len(p) - m
    BY <1>1, <2>1, <2>2
  <2>6. b(n) # Root /\ Parent(b(n)) = b(n - 1)
    BY <2>5, BeginningsParent
  <2>7. b(Len(p) - m) \in S
    BY <2>4, <2>5, <2>6
  <2> QED
    BY <2>1, <2>7
<1>3. ASSUME NEW n \in 0 .. Len(p) PROVE b(n) \in S
  <2>1. Len(p) - n \in 0 .. Len(p) /\ Len(p) - (Len(p) - n) = n
    BY <1>1
  <2> QED
    BY <1>2, <2>1
<1> QED
  BY <1>3 DEF Beginnings

\* A path and its parent.
LEMMA ParentIsShorter ==
    ASSUME NEW p \in AnyPath, p # Root
    PROVE  /\ Len(p) \in Nat \ {0}
           /\ Parent(p) \in AnyPath /\ Len(Parent(p)) = Len(p) - 1
           /\ \A i \in 1 .. Len(p) - 1 : Parent(p)[i] = p[i]
<1>1. Len(p) \in Nat \ {0} /\ Parent(p) = SubSeq(p, 1, Len(p) - 1)
  BY EmptySeq DEF AnyPath, Root, Parent
<1>2. PICK n \in Nat : n = Len(p) - 1
  BY <1>1
<1>3. \A i \in 1 .. n : p[i] \in Names
  BY <1>1, <1>2, ElementOfSeq DEF AnyPath
<1>4. /\ SubSeq(p, 1, n) \in Seq(Names) /\ Len(SubSeq(p, 1, n)) = n
      /\ \A i \in 1 .. n : SubSeq(p, 1, n)[i] = p[i]
  BY <1>2, <1>3, SubSeqProperties
<1> QED
  BY <1>1, <1>2, <1>4 DEF AnyPath

\* The beginnings of a path but the path itself are those of its parent.
LEMMA BeginningsOfParent ==
    ASSUME NEW p \in AnyPath, p # Root
    PROVE  /\ Parent(p) \in AnyPath
           /\ Beginnings(p) = Beginnings(Parent(p)) \cup {p}
           /\ p \notin Beginnings(Parent(p))
<1> DEFINE r == Parent(p)
<1>1. Len(p) \in Nat \ {0}
  BY ParentIsShorter
<1>2. /\ r \in AnyPath /\ Len(r) = Len(p) - 1
      /\ \A i \in 1 .. Len(r) : r[i] = p[i]
  BY ParentIsShorter
<1>3. ASSUME NEW n \in 0 .. Len(r) PROVE SubSeq(r, 1, n) = SubSeq(p, 1, n)
  <2>1. /\ SubSeq(r, 1, n) \in AnyPath /\ SubSeq(p, 1, n) \in AnyPath
        /\ Len(SubSeq(r, 1, n)) = n /\ Len(SubSeq(p, 1, n)) = n
    BY <1>1, <1>2 DEF AnyPath
  <2>2. \A i \in 1 .. n : SubSeq(r, 1, n)[i] = SubSeq(p, 1, n)[i]
    BY <1>1, <1>2 DEF AnyPath
  <2> QED
    BY <2>1, <2>2, SeqEqual DEF AnyPath
<1>4. Beginnings(p) = Beginnings(r) \cup {p}
  <2>1. 0 .. Len(p) = (0 .. Len(r)) \cup {Len(p)}
    BY <1>1, <1>2
  <2>2. SubSeq(p, 1, Len(p)) = p
    BY OuterBeginnings
  <2> QED
    BY <1>3, <2>1, <2>2 DEF Beginnings
<1>5. ASSUME NEW q \in Beginnings(r) PROVE Len(q) < Len(p)
  <2>1. PICK n \in 0 .. Len(r) : q = SubSeq(r, 1, n)
    BY DEF Beginnings
  <2>2. Len(q) = n
    BY <1>1, <1>2, <2>1 DEF AnyPath
  <2> QED
    BY <1>1, <1>2, <2>1, <2>2
<1> QED
  BY <1>1, <1>2, <1>4, <1>5

\* Paths are closed under beginnings.
LEMMA BeginningsArePaths ==
    ASSUME NEW p \in Paths
    PROVE  Beginnings(p) \subseteq Paths
BY PathsAssumption, PathsAreSequences, Upwards

LEMMA BeginningsAreClosed ==
    ASSUME NEW p \in AnyPath, NEW q \in Beginnings(p), q # Root
    PROVE  Parent(q) \in Beginnings(p)
<1>1. Len(p) \in Nat /\ SubSeq(p, 1, 0) = Root
  BY LenProperties, OuterBeginnings DEF AnyPath
<1>2. PICK n \in 0 .. Len(p) : q = SubSeq(p, 1, n)
  BY DEF Beginnings
<1>3. n \in 1 .. Len(p)
  BY <1>1, <1>2
<1>4. Parent(q) = IF n = 1 THEN Root ELSE SubSeq(p, 1, n - 1)
  BY <1>2, <1>3, BeginningsParent
<1>5. 0 \in 0 .. Len(p) /\ n - 1 \in 0 .. Len(p)
  BY <1>1, <1>3
<1> QED
  BY <1>1, <1>4, <1>5 DEF Beginnings

-----------------------------------------------------------------------------
(* Paths below paths.                                                       *)

\* Every path is below itself.
LEMMA BelowItself == \A p \in AnyPath : Below(p, p)
BY DEF AnyPath, Below

\* What a directory below r lists is below r.
LEMMA ChildrenAreBelow ==
    ASSUME NEW f, NEW p \in AnyPath, NEW r \in AnyPath, Below(p, r), NEW c \in Children(f, p)
    PROVE  Below(c, r)
<1>1. c \in AnyPath /\ c # << >> /\ p = SubSeq(c, 1, Len(c) - 1)
  BY PathsAreSequences DEF Children, Parent, Root, AnyPath
<1>2. Len(c) \in Nat /\ Len(c) > 0 /\ Len(p) = Len(c) - 1
  <2>1. Len(c) \in Nat \ {0} /\ Len(p) \in Nat
    BY <1>1, EmptySeq DEF AnyPath
  <2>2. \A i \in 1 .. Len(c) - 1 : c[i] \in Names
    BY <1>1, <2>1, ElementOfSeq DEF AnyPath
  <2>3. PICK n \in Nat : n = Len(c) - 1
    BY <2>1
  <2>4. Len(p) = IF 1 <= n THEN n - 1 + 1 ELSE 0
    BY <1>1, <2>2, <2>3, SubSeqProperties
  <2>5. Len(p) = n
    BY <2>4
  <2> QED
    BY <2>1, <2>3, <2>5
<1>3. \A i \in 1 .. Len(p) : p[i] = c[i]
  BY <1>1, <1>2 DEF AnyPath
<1>4. Len(r) \in Nat /\ Len(r) <= Len(p)
  BY DEF Below, AnyPath
<1>5. SubSeq(c, 1, Len(r)) = SubSeq(p, 1, Len(r))
  <2>1. /\ SubSeq(c, 1, Len(r)) \in AnyPath /\ SubSeq(p, 1, Len(r)) \in AnyPath
        /\ Len(SubSeq(c, 1, Len(r))) = Len(r) /\ Len(SubSeq(p, 1, Len(r))) = Len(r)
    BY <1>1, <1>2, <1>4 DEF AnyPath
  <2>2. \A i \in 1 .. Len(r) : SubSeq(c, 1, Len(r))[i] = SubSeq(p, 1, Len(r))[i]
    BY <1>1, <1>2, <1>3, <1>4 DEF AnyPath
  <2> QED
    BY <2>1, <2>2, SeqEqual DEF AnyPath
<1> QED
  BY <1>1, <1>2, <1>4, <1>5 DEF Below, AnyPath

\* A path is below its beginnings.
LEMMA BelowItsBeginnings ==
    ASSUME NEW p \in AnyPath, NEW n \in 1 .. Len(p)
    PROVE  SubSeq(p, 1, n) \in AnyPath /\ Below(p, SubSeq(p, 1, n))
BY DEF AnyPath, Below

\* Whatever is put behind q gives a path below q.
LEMMA RebasedIsBelow ==
    ASSUME NEW p \in AnyPath, NEW root \in AnyPath, NEW q \in AnyPath
    PROVE  Rebase(p, root, q) \in AnyPath /\ Below(Rebase(p, root, q), q)
<1> DEFINE rest == SubSeq(p, Len(root) + 1, Len(p))
<1>1. rest \in AnyPath
  BY DEF AnyPath
<1> HIDE DEF rest
<1>2. /\ q \o rest \in AnyPath
      /\ Len(q \o rest) = Len(q) + Len(rest) /\ Len(q) \in Nat /\ Len(rest) \in Nat
      /\ \A i \in 1 .. Len(q) : (q \o rest)[i] = q[i]
  BY <1>1 DEF AnyPath
<1>3. SubSeq(q \o rest, 1, Len(q)) = q
  <2>1. /\ SubSeq(q \o rest, 1, Len(q)) \in AnyPath
        /\ Len(SubSeq(q \o rest, 1, Len(q))) = Len(q)
    BY <1>2 DEF AnyPath
  <2>2. \A i \in 1 .. Len(q) : SubSeq(q \o rest, 1, Len(q))[i] = q[i]
    BY <1>2 DEF AnyPath
  <2> QED
    BY <2>1, <2>2, SeqEqual DEF AnyPath
<1> QED
  BY <1>2, <1>3 DEF Rebase, Below, rest

\* p is below q when q's names are its first.
LEMMA BelowByNames ==
    ASSUME NEW p \in AnyPath, NEW q \in AnyPath
    PROVE  Below(p, q) <=> Len(q) <= Len(p) /\ \A i \in 1 .. Len(q) : p[i] = q[i]
<1>1. Len(p) \in Nat /\ Len(q) \in Nat
  BY DEF AnyPath
<1>2. ASSUME Len(q) <= Len(p)
      PROVE  /\ SubSeq(p, 1, Len(q)) \in AnyPath
             /\ Len(SubSeq(p, 1, Len(q))) = Len(q)
             /\ \A i \in 1 .. Len(q) : SubSeq(p, 1, Len(q))[i] = p[i]
  BY <1>1, <1>2 DEF AnyPath
<1>3. ASSUME Below(p, q), NEW i \in 1 .. Len(q) PROVE p[i] = q[i]
  BY <1>2, <1>3 DEF Below
<1>4. ASSUME Len(q) <= Len(p), \A i \in 1 .. Len(q) : p[i] = q[i] PROVE SubSeq(p, 1, Len(q)) = q
  BY <1>2, <1>4, SeqEqual DEF AnyPath
<1> QED
  BY <1>3, <1>4 DEF Below

LEMMA BelowTransitive ==
    ASSUME NEW p \in AnyPath, NEW q \in AnyPath, NEW r \in AnyPath, Below(p, q), Below(q, r)
    PROVE  Below(p, r)
<1>1. Len(p) \in Nat /\ Len(q) \in Nat /\ Len(r) \in Nat
  BY DEF AnyPath
<1> QED
  BY <1>1, BelowByNames

\* Two paths put together.
LEMMA JoinedPath ==
    ASSUME NEW b \in AnyPath, NEW p \in AnyPath
    PROVE  /\ b \o p \in AnyPath
           /\ Len(b) \in Nat /\ Len(p) \in Nat /\ Len(b \o p) = Len(b) + Len(p)
           /\ \A i \in 1 .. Len(b) + Len(p) :
                 (b \o p)[i] = IF i <= Len(b) THEN b[i] ELSE p[i - Len(b)]
BY DEF AnyPath

\* Joining keeps below below.
LEMMA JoinKeepsBelow ==
    ASSUME NEW b \in AnyPath, NEW p \in AnyPath, NEW q \in AnyPath, Below(p, q)
    PROVE  Below(b \o p, b \o q)
<1>1. /\ b \o p \in AnyPath /\ b \o q \in AnyPath
      /\ Len(b) \in Nat /\ Len(p) \in Nat /\ Len(q) \in Nat
      /\ Len(b \o p) = Len(b) + Len(p) /\ Len(b \o q) = Len(b) + Len(q)
  BY JoinedPath
<1>2. Len(q) <= Len(p) /\ \A i \in 1 .. Len(q) : p[i] = q[i]
  BY BelowByNames
<1>3. ASSUME NEW i \in 1 .. Len(b) + Len(q) PROVE (b \o p)[i] = (b \o q)[i]
  <2>1. i \in 1 .. Len(b) + Len(p) /\ (i > Len(b) => i - Len(b) \in 1 .. Len(q))
    BY <1>1, <1>2
  <2> QED
    BY <1>1, <1>2, <2>1, JoinedPath
<1> DEFINE x == b \o p
           y == b \o q
<1>4. Len(y) <= Len(x) /\ \A i \in 1 .. Len(y) : x[i] = y[i]
  BY <1>1, <1>2, <1>3
<1> HIDE DEF x, y
<1>5. x \in AnyPath /\ y \in AnyPath
  BY <1>1 DEF x, y
<1>6. Below(x, y)
  BY <1>4, <1>5, BelowByNames
<1> QED
  BY <1>6 DEF x, y

LEMMA JoinAssociates ==
    ASSUME NEW b \in AnyPath, NEW c \in AnyPath, NEW p \in AnyPath
    PROVE  (b \o c) \o p = b \o (c \o p)
BY ConcatAssociative DEF AnyPath

\* The root is put in front of nothing, and everything is below it.
LEMMA JoinWithRoot ==
    ASSUME NEW p \in AnyPath
    PROVE  Root \in AnyPath /\ p \o Root = p /\ Root \o p = p /\ Below(p, Root)
<1>1. Root \in AnyPath /\ p \o Root = p /\ Root \o p = p
  BY EmptySeq, ConcatEmptySeq DEF AnyPath, Root
<1>2. Len(Root) = 0 /\ Len(p) \in Nat
  BY DEF Root, AnyPath
<1>3. \A i \in 1 .. Len(Root) : p[i] = Root[i]
  BY <1>2
<1> QED
  BY <1>1, <1>2, <1>3, BelowByNames

\* A joined path begins with what it is joined to.
LEMMA JoinedIsBelow ==
    ASSUME NEW b \in AnyPath, NEW p \in AnyPath
    PROVE  Below(b \o p, b) /\ b \in Beginnings(b \o p)
<1>1. /\ b \o p \in AnyPath /\ Len(b) \in Nat /\ Len(p) \in Nat
      /\ Len(b \o p) = Len(b) + Len(p)
  BY JoinedPath
<1>2. Below(b \o p, b \o Root) /\ b \o Root = b
  BY JoinWithRoot, JoinKeepsBelow
<1>3. b = SubSeq(b \o p, 1, Len(b)) /\ Len(b) \in 0 .. Len(b \o p)
  BY <1>1, <1>2 DEF Below
<1> QED
  BY <1>2, <1>3 DEF Beginnings

\* A path is its parent and one name more.
LEMMA LastName ==
    ASSUME NEW p \in AnyPath, p # Root
    PROVE  /\ p[Len(p)] \in Names /\ <<p[Len(p)]>> \in AnyPath
           /\ p = Parent(p) \o <<p[Len(p)]>>
<1> DEFINE x == p[Len(p)]
           y == Parent(p) \o <<x>>
<1>1. /\ Len(p) \in Nat \ {0} /\ Parent(p) \in AnyPath /\ Len(Parent(p)) = Len(p) - 1
      /\ \A i \in 1 .. Len(p) - 1 : Parent(p)[i] = p[i]
  BY ParentIsShorter
<1>2. x \in Names
  BY <1>1, ElementOfSeq DEF AnyPath
<1>3. <<x>> \in AnyPath /\ Len(<<x>>) = 1 /\ <<x>>[1] = x
  BY <1>2 DEF AnyPath
<1>4. /\ y \in AnyPath /\ Len(y) = Len(p)
      /\ \A i \in 1 .. Len(p) : y[i] = IF i <= Len(p) - 1 THEN Parent(p)[i] ELSE x
  <2>1. PICK s : s = <<x>>
    OBVIOUS
  <2>2. PICK a \in AnyPath : a = Parent(p)
    BY <1>1
  <2>3. s \in AnyPath /\ Len(s) = 1 /\ s[1] = x /\ y = a \o s
    BY <1>3, <2>1, <2>2
  <2> HIDE DEF y, x
  <2>4. /\ y \in AnyPath /\ Len(y) = Len(a) + Len(s)
        /\ \A i \in 1 .. Len(a) + Len(s) :
              y[i] = IF i <= Len(a) THEN a[i] ELSE s[i - Len(a)]
    BY <2>3, JoinedPath
  <2>5. Len(a) = Len(p) - 1
    BY <1>1, <2>2
  <2>6. Len(y) = Len(p)
    BY <1>1, <2>3, <2>4, <2>5
  <2>7. ASSUME NEW i \in 1 .. Len(p)
        PROVE  y[i] = IF i <= Len(p) - 1 THEN Parent(p)[i] ELSE x
    <3>1. i \in 1 .. Len(a) + Len(s)
      BY <1>1, <2>3, <2>5
    <3>2. CASE i <= Len(p) - 1
      BY <2>2, <2>4, <2>5, <3>1, <3>2
    <3>3. CASE ~(i <= Len(p) - 1)
      <4>1. i - Len(a) = 1
        BY <1>1, <2>5, <3>3
      <4> QED
        BY <2>3, <2>4, <2>5, <3>1, <3>3, <4>1
    <3> QED
      BY <3>2, <3>3
  <2> QED
    BY <2>4, <2>6, <2>7
<1> HIDE DEF x, y
<1>5. \A i \in 1 .. Len(p) : y[i] = p[i]
  <2>1. TAKE i \in 1 .. Len(p)
  <2>2. ~(i <= Len(p) - 1) => i = Len(p)
    BY <1>1
  <2> QED
    BY <1>1, <1>4, <2>2 DEF x
<1>6. y = p
  BY <1>4, <1>5, SeqEqual DEF AnyPath
<1> QED
  BY <1>2, <1>3, <1>6 DEF x, y

\* What is put in front of both does not matter to Rebase.
LEMMA RebaseOfJoined ==
    ASSUME NEW b \in AnyPath, NEW p \in AnyPath, NEW q \in AnyPath, NEW r \in AnyPath,
           Below(p, q)
    PROVE  Rebase(b \o p, b \o q, r) = Rebase(p, q, r)
<1> DEFINE x == b \o p
<1>1. /\ x \in AnyPath /\ Len(b) \in Nat /\ Len(p) \in Nat /\ Len(q) \in Nat
      /\ Len(x) = Len(b) + Len(p) /\ Len(b \o q) = Len(b) + Len(q)
  BY JoinedPath
<1>2. Len(q) <= Len(p)
  BY DEF Below
<1>3. SubSeq(x, Len(b) + Len(q) + 1, Len(b) + Len(p)) = SubSeq(p, Len(q) + 1, Len(p))
  <2>1. CASE Len(q) = Len(p)
    BY <1>1, <2>1, SubSeqEmpty
  <2>2. CASE Len(q) # Len(p)
    <3>1. /\ Len(b) + Len(q) + 1 \in Len(b) + 1 .. Len(b) + Len(p)
          /\ Len(b) + Len(p) \in Len(b) + 1 .. Len(b) + Len(p)
          /\ Len(b) + Len(q) + 1 - Len(b) = Len(q) + 1
          /\ Len(b) + Len(p) - Len(b) = Len(p)
      BY <1>1, <1>2, <2>2
    <3>2. SubSeq(x, Len(b) + Len(q) + 1, Len(b) + Len(p))
          = SubSeq(p, Len(b) + Len(q) + 1 - Len(b), Len(b) + Len(p) - Len(b))
      BY <3>1, SubSeqOfConcat2 DEF AnyPath
    <3> QED
      BY <3>1, <3>2
  <2> QED
    BY <2>1, <2>2
<1> QED
  BY <1>1, <1>3 DEF Rebase

-----------------------------------------------------------------------------
(* Paths that are below others, and where Rebase puts them.                 *)

\* A path below p is p and the rest, which Rebase puts behind another.
LEMMA RestOfBelow ==
    ASSUME NEW z \in AnyPath, NEW p \in AnyPath, Below(z, p)
    PROVE  \E rest \in AnyPath : /\ z = p \o rest
                                 /\ \A q \in AnyPath : Rebase(z, p, q) = q \o rest
<1> DEFINE rest == SubSeq(z, Len(p) + 1, Len(z))
<1>1. /\ Len(z) \in Nat /\ Len(p) \in Nat /\ Len(p) <= Len(z)
      /\ \A i \in 1 .. Len(p) : z[i] = p[i]
  BY BelowByNames DEF AnyPath
<1>2. /\ rest \in AnyPath /\ Len(rest) = Len(z) - Len(p)
      /\ \A i \in 1 .. Len(z) - Len(p) : rest[i] = z[Len(p) + i]
  BY <1>1 DEF AnyPath
<1>3. \A q \in AnyPath : Rebase(z, p, q) = q \o rest
  BY DEF Rebase
<1> HIDE DEF rest
<1> DEFINE y == p \o rest
<1>4. /\ y \in AnyPath /\ Len(y) = Len(p) + Len(rest)
      /\ \A i \in 1 .. Len(p) + Len(rest) :
            y[i] = IF i <= Len(p) THEN p[i] ELSE rest[i - Len(p)]
  BY <1>2, JoinedPath
<1> HIDE DEF y
<1>5. ASSUME NEW i \in 1 .. Len(z) PROVE y[i] = z[i]
  <2>1. CASE i <= Len(p)
    BY <1>1, <1>2, <1>4, <2>1
  <2>2. CASE ~(i <= Len(p))
    <3>1. i - Len(p) \in 1 .. Len(z) - Len(p) /\ Len(p) + (i - Len(p)) = i
      BY <1>1, <2>2
    <3> QED
      BY <1>1, <1>2, <1>4, <2>2, <3>1
  <2> QED
    BY <2>1, <2>2
<1>6. Len(y) = Len(z)
  BY <1>1, <1>2, <1>4
<1>7. y = z
  BY <1>4, <1>5, <1>6, SeqEqual DEF AnyPath
<1> QED
  BY <1>2, <1>3, <1>7 DEF y

LEMMA RebaseOfRest ==
    ASSUME NEW p \in AnyPath, NEW rest \in AnyPath, NEW q \in AnyPath
    PROVE  Rebase(p \o rest, p, q) = q \o rest
<1>1. Root \in AnyPath /\ Below(rest, Root) /\ p \o Root = p
  BY JoinWithRoot
<1>2. Rebase(p \o rest, p \o Root, q) = Rebase(rest, Root, q)
  <2>1. \A x \in AnyPath : Below(rest, x) => Rebase(p \o rest, p \o x, q) = Rebase(rest, x, q)
    BY RebaseOfJoined
  <2> QED
    BY <1>1, <2>1
<1>3. SubSeq(rest, 1, Len(rest)) = rest /\ Len(Root) + 1 = 1
  <2>1. Len(Root) = 0
    BY DEF Root
  <2> QED
    BY <2>1, OuterBeginnings
<1> QED
  BY <1>1, <1>2, <1>3 DEF Rebase

\* Rebase can be undone, and takes p to q.
LEMMA RebaseBack ==
    ASSUME NEW z \in AnyPath, NEW p \in AnyPath, NEW q \in AnyPath, Below(z, p)
    PROVE  Rebase(Rebase(z, p, q), q, p) = z
<1>1. PICK rest \in AnyPath : /\ z = p \o rest
                             /\ \A x \in AnyPath : Rebase(z, p, x) = x \o rest
  BY RestOfBelow
<1>2. Rebase(z, p, q) = q \o rest
  BY <1>1
<1>3. Rebase(q \o rest, q, p) = p \o rest
  BY RebaseOfRest
<1> QED
  BY <1>1, <1>2, <1>3

LEMMA RebaseOfTop ==
    ASSUME NEW p \in AnyPath, NEW q \in AnyPath
    PROVE  Rebase(p, p, q) = q
<1>1. Root \in AnyPath /\ p \o Root = p /\ q \o Root = q
  BY JoinWithRoot
<1>2. Rebase(p \o Root, p, q) = q \o Root
  BY <1>1, RebaseOfRest
<1> QED
  BY <1>1, <1>2

\* Of two paths above one, one is above the other.
LEMMA BelowBoth ==
    ASSUME NEW z \in AnyPath, NEW a \in AnyPath, NEW b \in AnyPath, Below(z, a), Below(z, b)
    PROVE  Below(a, b) \/ Below(b, a)
<1>1. Len(a) \in Nat /\ Len(b) \in Nat
  BY DEF AnyPath
<1>2. /\ \A i \in 1 .. Len(a) : z[i] = a[i]
      /\ \A i \in 1 .. Len(b) : z[i] = b[i]
  BY BelowByNames
<1>3. CASE Len(b) <= Len(a)
  BY <1>1, <1>2, <1>3, BelowByNames
<1>4. CASE Len(a) <= Len(b)
  BY <1>1, <1>2, <1>4, BelowByNames
<1> QED
  BY <1>1, <1>3, <1>4

\* Whatever lies below p, but p itself, has its parent there.
LEMMA ParentBelow ==
    ASSUME NEW z \in AnyPath, NEW p \in AnyPath, Below(z, p), z # p
    PROVE  /\ z # Root /\ Len(p) < Len(z)
           /\ Parent(z) \in AnyPath /\ Below(Parent(z), p)
<1>1. /\ Len(z) \in Nat /\ Len(p) \in Nat /\ Len(p) <= Len(z)
      /\ \A i \in 1 .. Len(p) : z[i] = p[i]
  BY BelowByNames DEF AnyPath
<1>2. Len(p) # Len(z)
  BY <1>1, SeqEqual DEF AnyPath
<1>3. z # Root
  <2>1. Len(Root) = 0
    BY DEF Root
  <2> QED
    BY <1>1, <1>2, <2>1
<1>4. /\ Parent(z) \in AnyPath /\ Len(Parent(z)) = Len(z) - 1
      /\ \A i \in 1 .. Len(z) - 1 : Parent(z)[i] = z[i]
  BY <1>3, ParentIsShorter
<1>5. Len(p) <= Len(z) - 1
  BY <1>1, <1>2
<1>6. Len(p) <= Len(Parent(z)) /\ \A i \in 1 .. Len(p) : Parent(z)[i] = p[i]
  BY <1>1, <1>4, <1>5
<1> QED
  BY <1>1, <1>2, <1>3, <1>4, <1>6, BelowByNames

\* A path is below its parent.
LEMMA BelowParent ==
    ASSUME NEW z \in AnyPath
    PROVE  Parent(z) \in AnyPath /\ Below(z, Parent(z))
<1>1. CASE z = Root
  BY <1>1, BelowItself DEF Parent
<1>2. CASE z # Root
  <2>1. /\ Len(z) \in Nat \ {0} /\ Parent(z) \in AnyPath /\ Len(Parent(z)) = Len(z) - 1
        /\ \A i \in 1 .. Len(z) - 1 : Parent(z)[i] = z[i]
    BY <1>2, ParentIsShorter
  <2> QED
    BY <2>1, BelowByNames
<1> QED
  BY <1>1, <1>2

\* In a tree, what is above an entry is a directory, which has a child on the
\* way to that entry.
LEMMA ChildTowards ==
    ASSUME NEW f \in Maps, IsTree(f), NEW z \in Paths, NEW d \in Paths,
           Below(z, d), z # d, Exists(f, z)
    PROVE  IsDirectory(f, d) /\ \E c \in Children(f, d) : Below(z, c)
<1> DEFINE n == Len(d) + 1
           c == SubSeq(z, 1, n)
           S == {x \in Paths : Exists(f, x)}
<1>1. z \in AnyPath /\ d \in AnyPath /\ S \subseteq AnyPath
  BY PathsAreSequences
<1>2. Len(z) \in Nat /\ Len(d) \in Nat /\ Len(d) < Len(z)
  BY <1>1, ParentBelow DEF AnyPath
<1>3. n \in 1 .. Len(z) /\ n - 1 = Len(d)
  BY <1>2
<1>4. Beginnings(z) \subseteq S
  <2>1. Root \in S /\ \A q \in S \ {Root} : Parent(q) \in S
    BY PathsAssumption DEF IsTree, Exists, IsDirectory
  <2> QED
    BY <1>1, <2>1, Upwards
<1>5. c \in S /\ c # Root
  <2>1. n \in 0 .. Len(z)
    BY <1>2, <1>3
  <2> QED
    BY <1>1, <1>3, <1>4, <2>1, BeginningsParent DEF Beginnings
<1>6. Parent(c) = d
  <2>1. SubSeq(z, 1, Len(d)) = d
    BY DEF Below
  <2>2. n = 1 => d = Root
    <3>1. ASSUME n = 1 PROVE Len(d) = 0
      BY <1>2, <3>1
    <3> QED
      BY <1>1, <3>1, EmptySeq DEF AnyPath, Root
  <2> HIDE DEF n
  <2>3. Parent(c) = IF n = 1 THEN Root ELSE SubSeq(z, 1, n - 1)
    BY <1>1, <1>3, BeginningsParent
  <2> QED
    BY <1>3, <2>1, <2>2, <2>3
<1>7. Below(z, c)
  BY <1>1, <1>3, BelowItsBeginnings
<1> HIDE DEF c
<1> QED
  BY <1>5, <1>6, <1>7 DEF Children, IsTree

=============================================================================
