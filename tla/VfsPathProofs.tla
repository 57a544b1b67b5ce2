----------------------------- MODULE VfsPathProofs -----------------------------
(* Theorems about the compound methods of VfsPath on a MemoryFS, for any      *)
(* threads, paths and scripts.  Nothing is assumed of the discipline of the    *)
(* clients.                                                                   *)
EXTENDS VfsPath, MemoryFSProofs

-----------------------------------------------------------------------------
(* Agendas.                                                                 *)

\* What request r may change: Reach without its bound to Paths.
Touches(r, p) ==
    \/ r.op \in {"create_dir", "write_file"} /\ p = r.path
    \/ r.op = "create_dir_all" /\ Below(r.path, p)
    \/ r.op \in RemovingOps /\ Below(p, r.path)
    \/ r.op \in CopyingOps /\ Below(p, r.dest)

\* The step is one of request r's: whatever it changes, r may change.
Inside(r, it) ==
    /\ it.do \in {"create_dir", "ensure_dir", "create_file", "remove_file"} => Touches(r, it.path)
    /\ it.do = "remove_file" => r.op \in RemovingOps
    /\ it.do \in {"remove_dir_all", "list", "children", "remove_dir"} =>
          r.op \in RemovingOps /\ Below(it.path, r.path)
    /\ it.do = "children" => \A c \in it.left : Below(c, r.path)
    /\ it.do = "walk" => r.op \in CopyingOps /\ it.dest = r.dest
    /\ it.do = "copy_entry" => r.op \in CopyingOps /\ Below(it.dest, r.dest)

\* Whoever opens a handle drops it later.
DropsAhead(s) ==
    \A i \in DOMAIN s : s[i].do = "create_file" =>
        \E j \in DOMAIN s : i < j /\ s[j].do = "drop"

Fits(r, s) ==
    /\ s \in Seq(Items)
    /\ \A i \in DOMAIN s : Inside(r, s[i])
    /\ DropsAhead(s)

LEMMA NothingFits == \A r : Fits(r, << >>)
<1>1. << >> \in Seq(Items) /\ DOMAIN << >> = {}
  BY EmptySeq
<1> QED
  BY <1>1 DEF Fits, DropsAhead

LEMMA OneFits ==
    ASSUME NEW r, NEW it \in Items, Inside(r, it), it.do # "create_file"
    PROVE  Fits(r, <<it>>)
<1>1. <<it>> \in Seq(Items) /\ DOMAIN <<it>> = {1} /\ <<it>>[1] = it
  OBVIOUS
<1> QED
  BY <1>1 DEF Fits, DropsAhead

\* One agenda after another.
LEMMA ConcatFits ==
    ASSUME NEW r, NEW s, NEW u, Fits(r, s), Fits(r, u)
    PROVE  Fits(r, s \o u)
<1>1. s \in Seq(Items) /\ u \in Seq(Items)
  BY DEF Fits
<1>2. /\ s \o u \in Seq(Items)
      /\ Len(s) \in Nat /\ Len(u) \in Nat
      /\ DOMAIN s = 1 .. Len(s) /\ DOMAIN u = 1 .. Len(u)
      /\ DOMAIN (s \o u) = 1 .. Len(s) + Len(u)
      /\ \A i \in 1 .. Len(s) + Len(u) :
            (s \o u)[i] = IF i <= Len(s) THEN s[i] ELSE u[i - Len(s)]
  BY <1>1, ConcatProperties, LenProperties
<1>3. ASSUME NEW i \in DOMAIN (s \o u) PROVE Inside(r, (s \o u)[i])
  <2>1. CASE i <= Len(s)
    BY <1>2, <2>1 DEF Fits
  <2>2. CASE i > Len(s)
    <3>1. i - Len(s) \in DOMAIN u
      BY <1>2, <2>2
    <3> QED
      BY <1>2, <2>2, <3>1 DEF Fits
  <2> QED
    BY <1>2, <2>1, <2>2
<1>4. ASSUME NEW i \in DOMAIN (s \o u), (s \o u)[i].do = "create_file"
      PROVE  \E j \in DOMAIN (s \o u) : i < j /\ (s \o u)[j].do = "drop"
  <2>1. CASE i <= Len(s)
    <3>1. i \in DOMAIN s /\ s[i].do = "create_file"
      BY <1>2, <1>4, <2>1
    <3>2. PICK j \in DOMAIN s : i < j /\ s[j].do = "drop"
      BY <3>1 DEF Fits, DropsAhead
    <3> QED
      BY <1>2, <3>2
  <2>2. CASE i > Len(s)
    <3>1. i - Len(s) \in DOMAIN u /\ u[i - Len(s)].do = "create_file"
      BY <1>2, <1>4, <2>2
    <3>2. PICK j \in DOMAIN u : i - Len(s) < j /\ u[j].do = "drop"
      BY <3>1 DEF Fits, DropsAhead
    <3>3. /\ Len(s) + j \in DOMAIN (s \o u) /\ i < Len(s) + j
          /\ (s \o u)[Len(s) + j] = u[j]
      BY <1>2, <3>2
    <3> QED
      BY <3>2, <3>3
  <2> QED
    BY <1>2, <2>1, <2>2
<1> QED
  BY <1>2, <1>3, <1>4 DEF Fits, DropsAhead

\* What is left when the first step is struck off.
LEMMA TailFits ==
    ASSUME NEW r, NEW s, Fits(r, s), s # << >>
    PROVE  Fits(r, Tail(s)) /\ Head(s) \in Items /\ Inside(r, Head(s))
<1>1. /\ s \in Seq(Items) /\ Len(s) \in Nat \ {0} /\ DOMAIN s = 1 .. Len(s)
      /\ Tail(s) \in Seq(Items) /\ Len(Tail(s)) = Len(s) - 1
      /\ DOMAIN Tail(s) = 1 .. Len(s) - 1
      /\ Head(s) \in Items
  BY EmptySeq, LenProperties, HeadTailProperties DEF Fits
<1>2. Head(s) = s[1] /\ \A i \in 1 .. Len(s) - 1 : Tail(s)[i] = s[i + 1]
  BY <1>1
<1>3. ASSUME NEW i \in DOMAIN Tail(s) PROVE Inside(r, Tail(s)[i])
  BY <1>1, <1>2 DEF Fits
<1>4. ASSUME NEW i \in DOMAIN Tail(s), Tail(s)[i].do = "create_file"
      PROVE  \E j \in DOMAIN Tail(s) : i < j /\ Tail(s)[j].do = "drop"
  <2>1. i + 1 \in DOMAIN s /\ s[i + 1].do = "create_file"
    BY <1>1, <1>2, <1>4
  <2>2. PICK j \in DOMAIN s : i + 1 < j /\ s[j].do = "drop"
    BY <2>1 DEF Fits, DropsAhead
  <2>3. j - 1 \in DOMAIN Tail(s) /\ i < j - 1 /\ Tail(s)[j - 1] = s[j]
    BY <1>1, <1>2, <2>2
  <2> QED
    BY <2>2, <2>3
<1> QED
  BY <1>1, <1>2, <1>3, <1>4 DEF Fits, DropsAhead

-----------------------------------------------------------------------------
(* What the methods begin with fits their requests.                         *)

LEMMA DoItem ==
    ASSUME NEW do \in Steps, NEW p \in AnyPath
    PROVE  /\ Do(do, p) \in Items
           /\ Do(do, p).do = do /\ Do(do, p).path = p /\ Do(do, p).left = {}
<1>1. Root \in AnyPath /\ << >> \in Seq(AnyPath)
  BY EmptySeq DEF Root, AnyPath
<1> QED
  BY <1>1 DEF Do, Items

LEMMA InDirectoryFits ==
    ASSUME NEW r, NEW p \in AnyPath
    PROVE  Fits(r, InDirectory(p))
<1> DEFINE a == Do("parent_exists", p)
           b == Do("parent_is_dir", p)
<1>1. /\ a \in Items /\ b \in Items
      /\ a.do = "parent_exists" /\ b.do = "parent_is_dir"
  BY DoItem DEF Steps
<1> HIDE DEF a, b
<1>2. Fits(r, <<a, b>>)
  <2>1. /\ <<a, b>> \in Seq(Items) /\ DOMAIN <<a, b>> = 1 .. 2
        /\ <<a, b>>[1] = a /\ <<a, b>>[2] = b
    BY <1>1
  <2> QED
    BY <1>1, <2>1 DEF Fits, Inside, DropsAhead
<1> QED
  BY <1>2 DEF InDirectory, a, b

LEMMA AppendFits ==
    ASSUME NEW r, NEW s, Fits(r, s), NEW it \in Items, Inside(r, it), it.do # "create_file"
    PROVE  Fits(r, Append(s, it))
<1>1. Append(s, it) = s \o <<it>>
  BY AppendIsConcat DEF Fits
<1> QED
  BY <1>1, OneFits, ConcatFits

LEMMA CreateDirFits ==
    ASSUME NEW r, NEW p \in AnyPath, Touches(r, p)
    PROVE  Fits(r, CreateDirSteps(p))
<1>1. Inside(r, Do("create_dir", p)) /\ Do("create_dir", p) \in Items
  BY DoItem DEF Steps, Inside
<1> QED
  BY <1>1, DoItem, InDirectoryFits, AppendFits DEF CreateDirSteps, Steps

LEMMA CreateDirAllFits ==
    ASSUME NEW r, r.op = "create_dir_all", r.path \in AnyPath
    PROVE  Fits(r, CreateDirAllSteps(r.path))
<1> DEFINE p == r.path
           s == CreateDirAllSteps(p)
<1>1. Len(p) \in Nat
  BY DEF AnyPath
<1>2. \A n \in 1 .. Len(p) :
          /\ Do("ensure_dir", SubSeq(p, 1, n)) \in Items
          /\ Inside(r, Do("ensure_dir", SubSeq(p, 1, n)))
          /\ Do("ensure_dir", SubSeq(p, 1, n)).do = "ensure_dir"
  BY BelowItsBeginnings, DoItem DEF Steps, Inside, Touches
<1>3. /\ s \in Seq(Items) /\ DOMAIN s = 1 .. Len(p)
      /\ \A n \in 1 .. Len(p) : s[n] = Do("ensure_dir", SubSeq(p, 1, n))
  BY <1>1, <1>2, IsASeq DEF CreateDirAllSteps
<1> QED
  BY <1>2, <1>3 DEF Fits, DropsAhead

LEMMA OpenNewShape ==
    ASSUME NEW p \in AnyPath
    PROVE  LET s == OpenNewSteps(p) IN
           /\ s \in Seq(Items) /\ Len(s) = 4
           /\ s[1] = Do("parent_exists", p) /\ s[2] = Do("parent_is_dir", p)
           /\ s[3] = Do("create_file", p) /\ s[4] = Do("fill", p)
<1> DEFINE a == Do("parent_exists", p)
           b == Do("parent_is_dir", p)
           c == Do("create_file", p)
           d == Do("fill", p)
<1>1. a \in Items /\ b \in Items /\ c \in Items /\ d \in Items
  BY DoItem DEF Steps
<1>2. OpenNewSteps(p) = <<a, b>> \o <<c, d>>
  BY DEF OpenNewSteps, InDirectory
<1> HIDE DEF a, b, c, d
<1>3. /\ <<a, b>> \in Seq(Items) /\ <<c, d>> \in Seq(Items)
      /\ Len(<<a, b>>) = 2 /\ Len(<<c, d>>) = 2
      /\ <<a, b>>[1] = a /\ <<a, b>>[2] = b /\ <<c, d>>[1] = c /\ <<c, d>>[2] = d
  BY <1>1
<1>4. LET s == <<a, b>> \o <<c, d>> IN
      /\ s \in Seq(Items) /\ Len(s) = 4 /\ s[1] = a /\ s[2] = b /\ s[3] = c /\ s[4] = d
  BY <1>3, ConcatProperties
<1> QED
  BY <1>2, <1>4 DEF a, b, c, d

LEMMA WriteFileFits ==
    ASSUME NEW r, NEW p \in AnyPath, Touches(r, p)
    PROVE  Fits(r, WriteFileSteps(p))
<1> DEFINE s == WriteFileSteps(p)
           n == OpenNewSteps(p)
           e == Do("drop", p)
<1>1. /\ n \in Seq(Items) /\ Len(n) = 4 /\ e \in Items /\ e.do = "drop"
      /\ n[1].do = "parent_exists" /\ n[2].do = "parent_is_dir"
      /\ n[3].do = "create_file" /\ n[3].path = p /\ n[4].do = "fill"
  BY OpenNewShape, DoItem DEF Steps
<1>2. s = Append(n, e)
  BY DEF WriteFileSteps
<1> HIDE DEF n, e
<1>3. /\ s \in Seq(Items) /\ Len(s) = 5
      /\ s[1] = n[1] /\ s[2] = n[2] /\ s[3] = n[3] /\ s[4] = n[4] /\ s[5] = e
  <2>1. n \in Seq(Items) /\ e \in Items
    BY <1>1
  <2>2. /\ s \in Seq(Items) /\ Len(s) = Len(n) + 1 /\ s[Len(n) + 1] = e
        /\ \A i \in 1 .. Len(n) : s[i] = n[i]
    BY <1>2, <2>1, AppendProperties
  <2> HIDE DEF s
  <2> QED
    BY <1>1, <2>2
<1> HIDE DEF s
<1>4. DOMAIN s = 1 .. 5
  BY <1>3
<1>5. ASSUME NEW i \in DOMAIN s PROVE Inside(r, s[i])
  BY <1>1, <1>3, <1>4, <1>5 DEF Inside
<1>6. DropsAhead(s)
  BY <1>1, <1>3, <1>4 DEF DropsAhead
<1> QED
  BY <1>3, <1>5, <1>6 DEF Fits, s

LEMMA CopyFileFits ==
    ASSUME NEW r, NEW p \in AnyPath, NEW q \in AnyPath, Touches(r, q)
    PROVE  Fits(r, CopyFileSteps(p, q))
<1> DEFINE a == Do("absent", q)
           b == Do("open", p)
<1>1. /\ a \in Items /\ b \in Items /\ a.do = "absent" /\ b.do = "open"
  BY DoItem DEF Steps
<1>2. Fits(r, WriteFileSteps(q))
  BY WriteFileFits
<1>3. CopyFileSteps(p, q) = <<a, b>> \o WriteFileSteps(q)
  BY DEF CopyFileSteps
<1> HIDE DEF a, b
<1>4. Fits(r, <<a, b>>)
  <2>1. /\ <<a, b>> \in Seq(Items) /\ DOMAIN <<a, b>> = 1 .. 2
        /\ <<a, b>>[1] = a /\ <<a, b>>[2] = b
    BY <1>1
  <2> QED
    BY <1>1, <2>1 DEF Fits, Inside, DropsAhead
<1> QED
  BY <1>2, <1>3, <1>4, ConcatFits

\* move_file's agenda, step by step.
LEMMA MoveFileShape ==
    ASSUME NEW p \in AnyPath, NEW q \in AnyPath
    PROVE  LET s == MoveFileSteps(p, q) IN
           /\ s \in Seq(Items) /\ Len(s) = 8
           /\ s[1] = Do("absent", q) /\ s[2] = Do("open", p)
           /\ s[3] = Do("parent_exists", q) /\ s[4] = Do("parent_is_dir", q)
           /\ s[5] = Do("create_file", q) /\ s[6] = Do("fill", q)
           /\ s[7] = Do("remove_file", p) /\ s[8] = Do("drop", q)
<1> DEFINE a == Do("absent", q)
           b == Do("open", p)
           n == OpenNewSteps(q)
           g == Do("remove_file", p)
           h == Do("drop", q)
           m == <<a, b>> \o n
           s == m \o <<g, h>>
<1>1. a \in Items /\ b \in Items /\ g \in Items /\ h \in Items
  BY DoItem DEF Steps
<1>2. /\ n \in Seq(Items) /\ Len(n) = 4
      /\ n[1] = Do("parent_exists", q) /\ n[2] = Do("parent_is_dir", q)
      /\ n[3] = Do("create_file", q) /\ n[4] = Do("fill", q)
  BY OpenNewShape
<1>3. MoveFileSteps(p, q) = s
  BY DEF MoveFileSteps
<1> HIDE DEF a, b, n, g, h
<1>4. /\ <<a, b>> \in Seq(Items) /\ <<g, h>> \in Seq(Items)
      /\ Len(<<a, b>>) = 2 /\ Len(<<g, h>>) = 2
      /\ <<a, b>>[1] = a /\ <<a, b>>[2] = b /\ <<g, h>>[1] = g /\ <<g, h>>[2] = h
  BY <1>1
<1>5. /\ m \in Seq(Items) /\ Len(m) = 6 /\ m[1] = a /\ m[2] = b
      /\ m[3] = n[1] /\ m[4] = n[2] /\ m[5] = n[3] /\ m[6] = n[4]
  <2>1. /\ m \in Seq(Items) /\ Len(m) = Len(<<a, b>>) + Len(n)
        /\ \A i \in 1 .. Len(<<a, b>>) + Len(n) :
              m[i] = IF i <= Len(<<a, b>>) THEN <<a, b>>[i] ELSE n[i - Len(<<a, b>>)]
    BY <1>2, <1>4, ConcatProperties
  <2> HIDE DEF m
  <2> QED
    BY <1>2, <1>4, <2>1
<1> HIDE DEF m
<1>6. /\ s \in Seq(Items) /\ Len(s) = 8
      /\ s[1] = m[1] /\ s[2] = m[2] /\ s[3] = m[3] /\ s[4] = m[4] /\ s[5] = m[5]
      /\ s[6] = m[6] /\ s[7] = g /\ s[8] = h
  <2>1. m \in Seq(Items) /\ <<g, h>> \in Seq(Items)
    BY <1>4, <1>5
  <2>2. /\ s \in Seq(Items) /\ Len(s) = Len(m) + Len(<<g, h>>)
        /\ \A i \in 1 .. Len(m) + Len(<<g, h>>) :
              s[i] = IF i <= Len(m) THEN m[i] ELSE <<g, h>>[i - Len(m)]
    BY <2>1, ConcatProperties
  <2> HIDE DEF s
  <2> QED
    BY <1>4, <1>5, <2>2
<1> QED
  BY <1>2, <1>3, <1>5, <1>6 DEF a, b, g, h

LEMMA MoveFileFits ==
    ASSUME NEW r, r.op = "move_file", r.path \in AnyPath, r.dest \in AnyPath
    PROVE  Fits(r, MoveFileSteps(r.path, r.dest))
<1> DEFINE p == r.path
           q == r.dest
           s == MoveFileSteps(p, q)
<1>1. Touches(r, p) /\ Touches(r, q) /\ r.op \in RemovingOps
  BY BelowItself DEF Touches, RemovingOps, CopyingOps
<1>2. /\ s \in Seq(Items) /\ Len(s) = 8
      /\ s[1].do = "absent" /\ s[2].do = "open"
      /\ s[3].do = "parent_exists" /\ s[4].do = "parent_is_dir"
      /\ s[5].do = "create_file" /\ s[5].path = q /\ s[6].do = "fill"
      /\ s[7].do = "remove_file" /\ s[7].path = p /\ s[8].do = "drop"
  BY MoveFileShape, DoItem DEF Steps
<1> HIDE DEF s, p, q
<1>3. DOMAIN s = 1 .. 8
  BY <1>2
<1>4. ASSUME NEW i \in DOMAIN s PROVE Inside(r, s[i])
  BY <1>1, <1>2, <1>3, <1>4 DEF Inside
<1>5. DropsAhead(s)
  BY <1>2, <1>3 DEF DropsAhead
<1> QED
  BY <1>2, <1>4, <1>5 DEF Fits, s, p, q

\* What is left of a directory listing, and of a walk.
LEMMA RestFits ==
    ASSUME NEW r, r.op \in RemovingOps, NEW p \in AnyPath, Below(p, r.path),
           NEW left \in SUBSET Paths, \A c \in left : Below(c, r.path)
    PROVE  Fits(r, Rest(p, left))
<1>1. CASE left = {}
  BY <1>1, NothingFits DEF Rest
<1>2. CASE left # {}
  <2> DEFINE it == [Do("children", p) EXCEPT !.left = left]
  <2>1. it \in Items /\ it.do = "children" /\ it.path = p /\ it.left = left
    <3>1. Do("children", p) \in Items /\ Do("children", p).do = "children"
          /\ Do("children", p).path = p
      BY DoItem DEF Steps
    <3> QED
      BY <3>1 DEF Items
  <2>2. Inside(r, it)
    BY <2>1 DEF Inside
  <2> QED
    BY <1>2, <2>1, <2>2, OneFits DEF Rest
<1> QED
  BY <1>1, <1>2

LEMMA WalkFits ==
    ASSUME NEW r, r.op \in CopyingOps, r.dest \in AnyPath, NEW p \in AnyPath,
           NEW left \in SUBSET Paths, NEW todo \in Seq(AnyPath)
    PROVE  Fits(r, Walk(p, r.dest, left, todo))
<1> DEFINE it == [Do("walk", p) EXCEPT !.dest = r.dest, !.left = left, !.todo = todo]
<1>1. it \in Items /\ it.do = "walk" /\ it.dest = r.dest
  <2>1. Do("walk", p) \in Items /\ Do("walk", p).do = "walk"
    BY DoItem DEF Steps
  <2> QED
    BY <2>1 DEF Items
<1>2. Inside(r, it)
  BY <1>1 DEF Inside
<1>3. Walk(p, r.dest, left, todo) \in {<< >>, <<it>>}
  BY DEF Walk
<1> QED
  BY <1>1, <1>2, <1>3, NothingFits, OneFits

LEMMA CopyDirFits ==
    ASSUME NEW r, r.op \in CopyingOps, r.path \in AnyPath, r.dest \in AnyPath
    PROVE  Fits(r, CopyDirSteps(r.path, r.dest))
<1> DEFINE a == Do("absent", r.dest)
           w == Walk(r.path, r.dest, {}, <<r.path>>)
<1>1. a \in Items /\ a.do = "absent" /\ Inside(r, a)
  BY DoItem DEF Steps, Inside
<1>2. Touches(r, r.dest)
  BY BelowItself DEF Touches
<1>3. <<r.path>> \in Seq(AnyPath)
  OBVIOUS
<1>4. Fits(r, <<a>>) /\ Fits(r, CreateDirSteps(r.dest)) /\ Fits(r, w)
  BY <1>1, <1>2, <1>3, OneFits, CreateDirFits, WalkFits
<1> QED
  BY <1>4, ConcatFits DEF CopyDirSteps

LEMMA StepsOfFit ==
    ASSUME NEW r \in Requests
    PROVE  Fits(r, StepsOf(r))
<1>1. r.path \in AnyPath /\ r.dest \in AnyPath /\ r.op \in VfsOps
  BY PathsAreSequences DEF Requests, AnyPath
<1>2. CASE r.op \in {"create_dir", "write_file"}
  <2>1. Touches(r, r.path)
    BY <1>2 DEF Touches
  <2> QED
    BY <1>1, <1>2, <2>1, CreateDirFits, WriteFileFits DEF StepsOf
<1>3. CASE r.op = "create_dir_all"
  BY <1>1, <1>3, CreateDirAllFits DEF StepsOf
<1>4. CASE r.op = "copy_file"
  <2>1. Touches(r, r.dest)
    BY <1>1, <1>4, BelowItself DEF Touches, CopyingOps
  <2> QED
    BY <1>1, <1>4, <2>1, CopyFileFits DEF StepsOf
<1>5. CASE r.op = "move_file"
  BY <1>1, <1>5, MoveFileFits DEF StepsOf
<1>6. CASE r.op = "copy_dir"
  BY <1>1, <1>6, CopyDirFits DEF StepsOf, CopyingOps
<1>7. CASE r.op = "move_dir"
  <2>1. Fits(r, CopyDirSteps(r.path, r.dest))
    BY <1>1, <1>7, CopyDirFits DEF CopyingOps
  <2>2. /\ Do("remove_dir_all", r.path) \in Items
        /\ Do("remove_dir_all", r.path).do # "create_file"
        /\ Inside(r, Do("remove_dir_all", r.path))
    BY <1>1, <1>7, DoItem, BelowItself DEF Steps, Inside, RemovingOps
  <2> QED
    BY <1>7, <2>1, <2>2, AppendFits DEF StepsOf, MoveDirSteps
<1>8. CASE r.op \in {"remove_file", "remove_dir_all"}
  <2> DEFINE it == Do(r.op, r.path)
  <2>1. it \in Items /\ it.do = r.op /\ it.path = r.path
    BY <1>1, <1>8, DoItem DEF Steps
  <2>2. Inside(r, it)
    BY <1>1, <1>8, <2>1, BelowItself DEF Inside, Touches, RemovingOps
  <2>3. StepsOf(r) = <<it>>
    BY <1>8 DEF StepsOf
  <2> QED
    BY <1>8, <2>1, <2>2, <2>3, OneFits
<1> QED
  BY <1>1, <1>2, <1>3, <1>4, <1>5, <1>6, <1>7, <1>8 DEF VfsOps

-----------------------------------------------------------------------------
(* The invariant.                                                           *)

VTypes ==
    /\ VfsTypeOK
    /\ script \in [Threads -> Seq(Requests)]
    /\ before \in Maps

\* A call between its two lock sections belongs to the step the thread is at.
Doing(call, step) ==
    \/ call = "create_dir" /\ step \in {"create_dir", "ensure_dir"}
    \/ call \in {"create_file", "remove_dir"} /\ step = call
    \/ call = "open_file" /\ step = "open"

\* What a thread has left to do is its present request's, and so is the handle
\* it holds, which it will drop.
ThreadFits(t) ==
    /\ at[t] <= Len(script[t])
    /\ IF at[t] > 0 THEN job[t].request = script[t][at[t]] ELSE ~Busy(t)
    /\ Fits(job[t].request, job[t].agenda)
    /\ writer[t].open =>
          /\ Touches(job[t].request, writer[t].path)
          /\ \E j \in DOMAIN job[t].agenda : job[t].agenda[j].do = "drop"
    /\ pc[t] # "idle" => Busy(t) /\ arg[t] = Now(t).path /\ Doing(pc[t], Now(t).do)

\* A step of t changes t's job only, and keeps its request.
Kept(t) ==
    /\ job' \in [Threads -> Jobs]
    /\ job'[t].request = job[t].request
    /\ \A u \in Threads \ {t} : job'[u] = job[u]

\* A handle's drop is still ahead when the first step, another one, is struck off.
LEMMA DropStaysAhead ==
    ASSUME NEW steps \in Seq(Items), NEW s \in Seq(Items), s # << >>,
           NEW j \in DOMAIN s, j > 1, s[j].do = "drop"
    PROVE  \E k \in DOMAIN (steps \o Tail(s)) : (steps \o Tail(s))[k].do = "drop"
<1>1. /\ Tail(s) \in Seq(Items) /\ Len(s) \in Nat /\ Len(Tail(s)) = Len(s) - 1
      /\ j \in 1 .. Len(s) /\ \A i \in 1 .. Len(Tail(s)) : Tail(s)[i] = s[i + 1]
  BY HeadTailProperties, LenProperties
<1>2. j - 1 \in 1 .. Len(Tail(s)) /\ Tail(s)[j - 1] = s[j]
  BY <1>1
<1>3. /\ Len(steps) \in Nat
      /\ steps \o Tail(s) \in Seq(Items)
      /\ Len(steps \o Tail(s)) = Len(steps) + Len(Tail(s))
      /\ \A i \in 1 .. Len(steps) + Len(Tail(s)) : (steps \o Tail(s))[i] =
            IF i <= Len(steps) THEN steps[i] ELSE Tail(s)[i - Len(steps)]
  BY <1>1, ConcatProperties, LenProperties
<1> DEFINE k == Len(steps) + (j - 1)
<1>4. k \in 1 .. Len(steps) + Len(Tail(s)) /\ ~(k <= Len(steps)) /\ k - Len(steps) = j - 1
  BY <1>1, <1>2, <1>3
<1>5. (steps \o Tail(s))[k] = s[j] /\ k \in DOMAIN (steps \o Tail(s))
  BY <1>2, <1>3, <1>4, LenProperties
<1> QED
  BY <1>5

LEMMA AgendaType ==
    ASSUME VTypes, NEW t \in Threads, ThreadFits(t), Busy(t)
    PROVE  /\ job[t] \in Jobs
           /\ job[t].request \in Requests /\ job[t].agenda \in Seq(Items)
           /\ job[t].data \in Contents /\ job[t].code \in Codes
           /\ Now(t) \in Items /\ Inside(job[t].request, Now(t))
           /\ Fits(job[t].request, Tail(job[t].agenda))
           /\ Tail(job[t].agenda) \in Seq(Items)
<1>1. /\ job[t] \in Jobs
      /\ job[t].request \in Requests /\ job[t].agenda \in Seq(Items)
      /\ job[t].data \in Contents /\ job[t].code \in Codes
  BY DEF VTypes, VfsTypeOK, Jobs
<1>2. Fits(job[t].request, job[t].agenda) /\ job[t].agenda # << >>
  BY DEF ThreadFits, Busy
<1> QED
  BY <1>1, <1>2, TailFits, HeadTailProperties DEF Now

LEMMA AbortFits ==
    ASSUME VTypes, NEW t \in Threads, ThreadFits(t), Busy(t), NEW code \in Codes,
           Abort(t, code), pc'[t] = "idle", writer'[t] = writer[t],
           UNCHANGED <<script, at>>
    PROVE  Kept(t) /\ ThreadFits(t)'
<1> DEFINE s == IF writer[t].open THEN <<Do("drop", writer[t].path)>> ELSE << >>
<1>1. writer[t].path \in AnyPath
  BY PathsAreSequences DEF VTypes, VfsTypeOK, TypeOK, Handles, AnyPath
<1>2. /\ Do("drop", writer[t].path) \in Items /\ Do("drop", writer[t].path).do = "drop"
      /\ Inside(job[t].request, Do("drop", writer[t].path))
  BY <1>1, DoItem DEF Steps, Inside
<1>3. Fits(job[t].request, s) /\ s \in Seq(Items)
  BY <1>2, NothingFits, OneFits DEF Fits
<1>4. writer[t].open => \E j \in DOMAIN s : s[j].do = "drop"
  BY <1>2
<1>5. /\ job' = [job EXCEPT ![t].code = code, ![t].agenda = s]
  BY DEF Abort
<1> HIDE DEF s
<1>6. /\ job' \in [Threads -> Jobs] /\ job'[t].request = job[t].request
      /\ job'[t].agenda = s /\ \A u \in Threads \ {t} : job'[u] = job[u]
  BY <1>3, <1>5, AgendaType DEF VTypes, VfsTypeOK, Jobs
<1>7. at[t] > 0
  BY DEF ThreadFits, VTypes, VfsTypeOK
<1> QED
  BY <1>3, <1>4, <1>6, <1>7 DEF Kept, ThreadFits

LEMMA ResumeFits ==
    ASSUME VTypes, NEW t \in Threads, ThreadFits(t), Busy(t), NEW steps, NEW data \in Contents,
           job' = [job EXCEPT ![t].agenda = steps \o Tail(@), ![t].data = data],
           Fits(job[t].request, steps), pc'[t] = "idle",
           writer'[t].open => /\ Touches(job[t].request, writer'[t].path)
                              /\ \/ writer[t].open /\ Now(t).do # "drop"
                                 \/ Now(t).do = "create_file",
           UNCHANGED <<script, at>>
    PROVE  Kept(t) /\ ThreadFits(t)'
<1> DEFINE r == job[t].request
           s == job[t].agenda
           new == steps \o Tail(s)
<1>1. Fits(r, new) /\ new \in Seq(Items) /\ s \in Seq(Items) /\ s # << >>
  BY AgendaType, ConcatFits DEF Fits, Busy
<1>2. ASSUME writer'[t].open PROVE \E k \in DOMAIN new : new[k].do = "drop"
  <2>1. \E j \in DOMAIN s : j > 1 /\ s[j].do = "drop"
    <3>1. /\ Now(t) = s[1] /\ DOMAIN s = 1 .. Len(s) /\ Len(s) \in Nat \ {0}
      BY <1>1, EmptySeq, LenProperties DEF Now
    <3>2. CASE writer[t].open /\ Now(t).do # "drop"
      BY <3>1, <3>2 DEF ThreadFits
    <3>3. CASE Now(t).do = "create_file"
      <4>1. DropsAhead(s)
        BY DEF ThreadFits, Fits
      <4>2. 1 \in DOMAIN s /\ s[1].do = "create_file"
        BY <3>1, <3>3
      <4>3. PICK j \in DOMAIN s : 1 < j /\ s[j].do = "drop"
        BY <4>1, <4>2 DEF DropsAhead
      <4> QED
        BY <3>1, <4>3
    <3> QED
      BY <1>2, <3>2, <3>3
  <2>2. steps \in Seq(Items)
    BY DEF Fits
  <2> QED
    BY <1>1, <2>1, <2>2, DropStaysAhead
<1> HIDE DEF new
<1>3. /\ job' \in [Threads -> Jobs] /\ job'[t].request = r
      /\ job'[t].agenda = new /\ \A u \in Threads \ {t} : job'[u] = job[u]
  BY <1>1, AgendaType DEF VTypes, VfsTypeOK, Jobs, new
<1>4. at[t] > 0
  BY DEF ThreadFits, VTypes, VfsTypeOK
<1> QED
  BY <1>1, <1>2, <1>3, <1>4 DEF Kept, ThreadFits

LEMMA ResumeKeepsData ==
    ASSUME VTypes, NEW t \in Threads, NEW steps, Resume(t, steps)
    PROVE  /\ job[t].data \in Contents
           /\ job' = [job EXCEPT ![t].agenda = steps \o Tail(@), ![t].data = job[t].data]
<1>1. job \in [Threads -> Jobs] /\ job[t] \in Jobs
  BY DEF VTypes, VfsTypeOK
<1>2. \A agenda : [job[t] EXCEPT !.agenda = agenda]
                     = [job[t] EXCEPT !.agenda = agenda, !.data = job[t].data]
  BY <1>1 DEF Jobs
<1> QED
  BY <1>1, <1>2 DEF Resume, Jobs

\* A call that leaves the thread's handle alone goes on, or has returned.
LEMMA SettleFits ==
    ASSUME VTypes, TypeOK', NEW t \in Threads, ThreadFits(t), Busy(t), NEW codes, NEW steps,
           Settle(t, codes, steps),
           pc'[t] = "idle" /\ Told(t).code \in codes => Fits(job[t].request, steps),
           writer'[t] = writer[t], Now(t).do # "drop",
           pc'[t] # "idle" => arg'[t] = Now(t).path /\ Doing(pc'[t], Now(t).do),
           UNCHANGED <<script, at>>
    PROVE  Kept(t) /\ ThreadFits(t)'
<1>1. CASE pc'[t] # "idle"
  <2>1. job' = job
    BY <1>1 DEF Settle
  <2> QED
    BY <1>1, <2>1 DEF Kept, ThreadFits, VTypes, VfsTypeOK, Busy, Now
<1>2. CASE pc'[t] = "idle" /\ Told(t).code \in codes
  <2>1. Resume(t, steps)
    BY <1>2 DEF Settle
  <2>2. writer'[t].open => Touches(job[t].request, writer'[t].path) /\ writer[t].open
    BY DEF ThreadFits
  <2> QED
    BY <1>2, <2>1, <2>2, ResumeKeepsData, ResumeFits
<1>3. CASE pc'[t] = "idle" /\ Told(t).code \notin codes
  <2>1. Abort(t, Told(t).code)
    BY <1>3 DEF Settle
  <2>2. Told(t).code \in Codes
    BY DEF TypeOK, Told, Results, Answers
  <2> QED
    BY <1>3, <2>1, <2>2, AbortFits
<1> QED
  BY <1>1, <1>2, <1>3

\* The calls on the MemoryFS with one section that change nothing.
LEMMA ReadCall ==
    ASSUME TypeOK, NEW t \in Threads, NEW p,
           ExistsCall(t, p) \/ Metadata(t, p) \/ ReadDir(t, p)
    PROVE  /\ p \in Paths /\ TypeOK'
           /\ files' = files /\ writer' = writer /\ pc'[t] = "idle"
           /\ \A u \in Threads \ {t} : pc'[u] = pc[u] /\ arg'[u] = arg[u]
<1>1. p \in Paths
  BY AnyCall DEF ExistsCall, Metadata, ReadDir, Issue, May
<1>2. TypeOK'
  BY <1>1, BeginTypeOK DEF Begin
<1>3. /\ pc \in [Threads -> {"idle"} \cup PendingOps] /\ arg \in [Threads -> Paths]
  BY DEF TypeOK
<1> QED
  BY <1>1, <1>2, <1>3 DEF ExistsCall, Metadata, ReadDir, Return

\* What a step of t leaves behind.
Outcome(t) ==
    /\ TypeOK'
    /\ Kept(t)
    /\ ThreadFits(t)'
    /\ \A p \in Paths : files'[p] = files[p] \/ Touches(job[t].request, p)
    /\ \A u \in Threads \ {t} : pc'[u] = pc[u] /\ arg'[u] = arg[u] /\ writer'[u] = writer[u]

\* A step whose call reads only, in one section.
LEMMA ReadStep ==
    ASSUME VTypes, NEW t \in Threads, ThreadFits(t), Busy(t), NEW p,
           ExistsCall(t, p) \/ Metadata(t, p) \/ ReadDir(t, p),
           Now(t).do # "drop", UNCHANGED <<script, at>>,
           \/ \E steps : Resume(t, steps) /\ Fits(job[t].request, steps)
           \/ \E code \in Codes : Abort(t, code)
           \/ \E codes, steps :
                 Settle(t, codes, steps)
                 /\ (Told(t).code \in codes => Fits(job[t].request, steps))
    PROVE  Outcome(t)
<1>1. /\ TypeOK' /\ files' = files /\ writer' = writer /\ pc'[t] = "idle"
      /\ \A u \in Threads \ {t} : pc'[u] = pc[u] /\ arg'[u] = arg[u]
  BY ReadCall DEF VTypes, VfsTypeOK
<1>2. writer'[t].open => Touches(job[t].request, writer'[t].path) /\ writer[t].open
  BY <1>1 DEF ThreadFits
<1>3. Kept(t) /\ ThreadFits(t)'
  <2>1. ASSUME NEW steps, Resume(t, steps), Fits(job[t].request, steps)
        PROVE  Kept(t) /\ ThreadFits(t)'
    BY <1>1, <1>2, <2>1, ResumeKeepsData, ResumeFits
  <2>2. ASSUME NEW code \in Codes, Abort(t, code)
        PROVE  Kept(t) /\ ThreadFits(t)'
    BY <1>1, <2>2, AbortFits
  <2>3. ASSUME NEW codes, NEW steps, Settle(t, codes, steps),
               Told(t).code \in codes => Fits(job[t].request, steps)
        PROVE  Kept(t) /\ ThreadFits(t)'
    BY <1>1, <2>3, SettleFits
  <2> QED
    BY <2>1, <2>2, <2>3
<1> QED
  BY <1>1, <1>3 DEF Outcome

ReadingStep(t) ==
    \/ ParentExists(t) \/ ParentIsDir(t) \/ Absent(t) \/ RemoveDirAll(t) \/ List(t)
    \/ WalkList(t) \/ CopyEntry(t)
    \/ \E child \in Paths : NextChild(t, child) \/ WalkNext(t, child)

LEMMA ReadingOutcome ==
    ASSUME VTypes, NEW t \in Threads, ThreadFits(t), ReadingStep(t), UNCHANGED <<script, at>>
    PROVE  Outcome(t)
<1> DEFINE r == job[t].request
           it == Now(t)
<1>1. Busy(t)
  BY DEF ReadingStep, ParentExists, ParentIsDir, Absent, RemoveDirAll, List, WalkList,
         CopyEntry, NextChild, WalkNext, At
<1>2. /\ it \in Items /\ Inside(r, it) /\ r \in Requests
      /\ r.path \in AnyPath /\ r.dest \in AnyPath
  BY <1>1, AgendaType, PathsAreSequences DEF Requests, AnyPath
<1>3. it.path \in AnyPath /\ it.dest \in AnyPath /\ it.left \in SUBSET Paths /\ it.todo \in Seq(AnyPath)
  BY <1>2 DEF Items
<1>4. Fits(r, << >>) /\ Paths \subseteq AnyPath
  BY NothingFits, PathsAreSequences DEF AnyPath
<1>5. "NoParent" \in Codes /\ "FileExists" \in Codes
  BY DEF Codes
<1> HIDE DEF r, it
<1>6. CASE ParentExists(t)
  BY <1>1, <1>4, <1>5, <1>6, ReadStep DEF ParentExists, At, r
<1>7. CASE ParentIsDir(t)
  BY <1>1, <1>4, <1>5, <1>7, ReadStep DEF ParentIsDir, At, r
<1>8. CASE Absent(t)
  BY <1>1, <1>4, <1>5, <1>8, ReadStep DEF Absent, At, r
<1>9. CASE RemoveDirAll(t)
  <2> DEFINE a == Do("list", it.path)
             b == Do("remove_dir", it.path)
  <2>1. it.do = "remove_dir_all" /\ r.op \in RemovingOps /\ Below(it.path, r.path)
    BY <1>2, <1>9 DEF RemoveDirAll, At, Inside, it
  <2>2. /\ a \in Items /\ b \in Items /\ a.do = "list" /\ b.do = "remove_dir"
        /\ a.path = it.path /\ b.path = it.path
    BY <1>3, DoItem DEF Steps
  <2> HIDE DEF a, b
  <2>3. Fits(r, <<a, b>>)
    <3>1. /\ <<a, b>> \in Seq(Items) /\ DOMAIN <<a, b>> = 1 .. 2
          /\ <<a, b>>[1] = a /\ <<a, b>>[2] = b
      BY <2>2
    <3> QED
      BY <2>1, <2>2, <3>1 DEF Fits, Inside, DropsAhead
  <2>4. \E steps : Resume(t, steps) /\ Fits(r, steps)
    BY <1>4, <1>9, <2>3 DEF RemoveDirAll, it, a, b
  <2>5. ExistsCall(t, it.path)
    BY <1>9 DEF RemoveDirAll, it
  <2> QED
    BY <1>1, <2>1, <2>4, <2>5, ReadStep DEF it, r
<1>10. CASE List(t)
  <2>1. it.do = "list" /\ r.op \in RemovingOps /\ Below(it.path, r.path)
    BY <1>2, <1>10 DEF List, At, Inside, it
  <2>2. ReadDir(t, it.path) /\ Settle(t, {"Ok"}, Rest(it.path, Told(t).entries))
    BY <1>10 DEF List, it
  <2>3. Told(t).entries \in SUBSET Paths /\ \A c \in Told(t).entries : Below(c, r.path)
    <3>1. res \in [Threads -> Results]
      BY DEF VTypes, VfsTypeOK, TypeOK
    <3>2. Told(t) = ReadDirAnswer(files, it.path)
      BY <2>2, <3>1 DEF ReadDir, Return, Told, Result
    <3>3. Told(t).entries \subseteq Children(files, it.path)
      BY <3>2 DEF ReadDirAnswer, Answer
    <3> QED
      BY <1>2, <1>3, <2>1, <3>3, ChildrenAreBelow DEF Children
  <2>4. Fits(r, Rest(it.path, Told(t).entries))
    BY <1>3, <2>1, <2>3, RestFits
  <2> QED
    BY <1>1, <2>1, <2>2, <2>4, ReadStep DEF it, r
<1>11. CASE WalkList(t)
  <2> DEFINE top == it.todo[Len(it.todo)]
             todo == SubSeq(it.todo, 1, Len(it.todo) - 1)
  <2>1. it.do = "walk" /\ r.op \in CopyingOps /\ it.dest = r.dest
    BY <1>2, <1>11 DEF WalkList, At, Inside, it
  <2>2. ReadDir(t, top) /\ Settle(t, {"Ok"}, Walk(it.path, it.dest, Told(t).entries, todo))
    BY <1>11 DEF WalkList, it
  <2>3. Told(t).entries \in SUBSET Paths
    BY <2>2, ReadCall DEF VTypes, VfsTypeOK, TypeOK, Results, Answers, Told
  <2>4. todo \in Seq(AnyPath)
    <3>1. Len(it.todo) \in Nat /\ \A i \in 1 .. Len(it.todo) - 1 : it.todo[i] \in AnyPath
      BY <1>3, LenProperties, ElementOfSeq
    <3> QED
      BY <3>1, SubSeqProperties
  <2> HIDE DEF top, todo
  <2>5. Fits(r, Walk(it.path, it.dest, Told(t).entries, todo))
    BY <1>2, <1>3, <2>1, <2>3, <2>4, WalkFits
  <2> QED
    BY <1>1, <2>1, <2>2, <2>5, ReadStep DEF it, r
<1>12. CASE CopyEntry(t)
  <2>1. it.do = "copy_entry" /\ r.op \in CopyingOps /\ Below(it.dest, r.dest)
    BY <1>2, <1>12 DEF CopyEntry, At, Inside, it
  <2>2. Touches(r, it.dest)
    BY <2>1 DEF Touches
  <2>3. Fits(r, CopyFileSteps(it.path, it.dest)) /\ Fits(r, CreateDirSteps(it.dest))
    BY <1>3, <2>2, CopyFileFits, CreateDirFits
  <2>4. /\ Metadata(t, it.path)
        /\ Settle(t, {"Ok"}, IF Told(t).kind = "File" THEN CopyFileSteps(it.path, it.dest)
                                                      ELSE CreateDirSteps(it.dest))
    BY <1>12 DEF CopyEntry, it
  <2> QED
    BY <1>1, <2>1, <2>3, <2>4, ReadStep DEF it, r
<1>13. ASSUME NEW child \in Paths, NextChild(t, child) PROVE Outcome(t)
  <2> DEFINE removal == IF Told(t).kind = "File" THEN "remove_file" ELSE "remove_dir_all"
             a == Do(removal, child)
             rest == Rest(it.path, it.left \ {child})
  <2>1. /\ it.do = "children" /\ child \in it.left /\ r.op \in RemovingOps
        /\ Below(it.path, r.path) /\ \A c \in it.left : Below(c, r.path)
    BY <1>2, <1>13 DEF NextChild, At, Inside, it
  <2>2. Metadata(t, child) /\ Settle(t, {"Ok"}, <<a>> \o rest)
    BY <1>13 DEF NextChild, it
  <2>3. a \in Items /\ a.do \in {"remove_file", "remove_dir_all"} /\ a.path = child
    BY <1>4, <1>13, DoItem DEF Steps
  <2>4. Inside(r, a) /\ a.do # "create_file"
    BY <2>1, <2>3 DEF Inside, Touches
  <2>5. Fits(r, rest)
    BY <1>3, <2>1, RestFits
  <2>6. Fits(r, <<a>> \o rest)
    BY <2>3, <2>4, <2>5, OneFits, ConcatFits
  <2> HIDE DEF a, rest
  <2> QED
    BY <1>1, <2>1, <2>2, <2>6, ReadStep DEF it, r
<1>14. ASSUME NEW child \in Paths, WalkNext(t, child) PROVE Outcome(t)
  <2> DEFINE todo == IF Told(t).kind = "Directory" THEN Append(it.todo, child) ELSE it.todo
             to == Rebase(child, it.path, it.dest)
             a == [Do("copy_entry", child) EXCEPT !.dest = to]
             w == Walk(it.path, it.dest, it.left \ {child}, todo)
  <2>1. it.do = "walk" /\ r.op \in CopyingOps /\ it.dest = r.dest
    BY <1>2, <1>14 DEF WalkNext, At, Inside, it
  <2>2. Metadata(t, child) /\ Settle(t, {"Ok"}, <<a>> \o w)
    BY <1>14 DEF WalkNext, it
  <2>3. to \in AnyPath /\ Below(to, r.dest) /\ todo \in Seq(AnyPath)
    BY <1>3, <1>4, <1>14, <2>1, RebasedIsBelow, AppendProperties
  <2> HIDE DEF to, todo
  <2>4. a \in Items /\ a.do = "copy_entry" /\ a.dest = to
    <3>1. Do("copy_entry", child) \in Items /\ Do("copy_entry", child).do = "copy_entry"
      BY <1>4, <1>14, DoItem DEF Steps
    <3> QED
      BY <2>3, <3>1 DEF Items
  <2>5. Inside(r, a)
    BY <2>1, <2>3, <2>4 DEF Inside
  <2>6. Fits(r, w)
    BY <1>2, <1>3, <2>1, <2>3, WalkFits
  <2> HIDE DEF a, w
  <2>7. Fits(r, <<a>> \o w)
    BY <2>4, <2>5, <2>6, OneFits, ConcatFits
  <2> QED
    BY <1>1, <2>1, <2>2, <2>7, ReadStep DEF it, r
<1> QED
  BY <1>6, <1>7, <1>8, <1>9, <1>10, <1>11, <1>12, <1>13, <1>14 DEF ReadingStep

\* A call on the step's own path that leaves the handle alone, and changes the
\* map at that path at most.
LEMMA CallStep ==
    ASSUME VTypes, TypeOK', NEW t \in Threads, ThreadFits(t), Busy(t), NEW codes,
           Settle(t, codes, << >>), writer' = writer, Now(t).do # "drop",
           pc'[t] # "idle" => arg'[t] = Now(t).path /\ Doing(pc'[t], Now(t).do),
           \A p \in Paths : files'[p] = files[p] \/ Touches(job[t].request, p),
           \A u \in Threads \ {t} : pc'[u] = pc[u] /\ arg'[u] = arg[u],
           UNCHANGED <<script, at>>
    PROVE  Outcome(t)
<1>1. Fits(job[t].request, << >>)
  BY NothingFits
<1>2. Kept(t) /\ ThreadFits(t)'
  BY <1>1, SettleFits
<1> QED
  BY <1>2 DEF Outcome

LEMMA CallingOutcome ==
    ASSUME VTypes, NEW t \in Threads, ThreadFits(t), UNCHANGED <<script, at>>,
           CreateDirStep(t) \/ RemoveFileStep(t) \/ RemoveDirStep(t)
    PROVE  Outcome(t)
<1> DEFINE r == job[t].request
           it == Now(t)
<1>1. Busy(t)
  BY DEF CreateDirStep, RemoveFileStep, RemoveDirStep, At
<1>2. /\ it \in Items /\ Inside(r, it) /\ TypeOK
      /\ pc \in [Threads -> {"idle"} \cup PendingOps] /\ arg \in [Threads -> Paths]
      /\ files \in [Paths -> Entries]
      /\ pc[t] # "idle" => arg[t] = it.path
  BY <1>1, AgendaType DEF VTypes, VfsTypeOK, TypeOK, Maps, ThreadFits
<1>3. CASE CreateDirStep(t)
  <2>1. /\ it.do \in {"create_dir", "ensure_dir"} /\ Touches(r, it.path)
        /\ Settle(t, Accepted(it.do), << >>)
    BY <1>2, <1>3 DEF CreateDirStep, At, Inside
  <2>2. CASE CreateDirEnsureParent(t, it.path)
    <3>1. it.path \in Paths
      BY <2>2, AnyCall DEF CreateDirEnsureParent, Issue, May
    <3>2. TypeOK' /\ files' = files /\ writer' = writer
      BY <1>2, <2>2, <3>1, BeginTypeOK DEF Begin, CreateDirEnsureParent
    <3>3. /\ pc'[t] # "idle" => arg'[t] = it.path /\ pc'[t] = "create_dir"
          /\ \A u \in Threads \ {t} : pc'[u] = pc[u] /\ arg'[u] = arg[u]
      BY <1>2, <2>2, <3>1 DEF CreateDirEnsureParent, Proceed, Return
    <3> QED
      BY <1>1, <2>1, <3>2, <3>3, CallStep DEF Doing
  <2>3. CASE CreateDirInsert(t)
    <3>1. TypeOK' /\ writer' = writer /\ arg[t] = it.path
      <4>1. TypeOK'
        BY <1>2, <2>3, FinishTypeOK DEF Finish
      <4>2. writer' = writer /\ pc[t] # "idle"
        BY <2>3 DEF CreateDirInsert
      <4> QED
        BY <1>2, <4>1, <4>2
    <3>2. /\ pc'[t] = "idle"
          /\ \A u \in Threads \ {t} : pc'[u] = pc[u] /\ arg'[u] = arg[u]
      BY <1>2, <2>3 DEF CreateDirInsert, Complete, Return
    <3>3. \A p \in Paths : files'[p] = files[p] \/ Touches(r, p)
      <4>1. files' = files \/ files' = [files EXCEPT ![it.path] = DirectoryEntry]
        BY <2>3, <3>1 DEF CreateDirInsert, Insert
      <4> QED
        BY <1>2, <2>1, <4>1
    <3> QED
      BY <1>1, <2>1, <3>1, <3>2, <3>3, CallStep
  <2> QED
    BY <1>3, <2>2, <2>3 DEF CreateDirStep
<1>4. CASE RemoveFileStep(t)
  <2>1. /\ it.do = "remove_file" /\ Touches(r, it.path)
        /\ RemoveFile(t, it.path) /\ Settle(t, {"Ok"}, << >>)
    BY <1>2, <1>4 DEF RemoveFileStep, At, Inside
  <2>2. it.path \in Paths
    BY <2>1, AnyCall DEF RemoveFile, Issue, May
  <2>3. TypeOK' /\ writer' = writer
    BY <1>2, <2>1, <2>2, BeginTypeOK DEF Begin, RemoveFile
  <2>4. /\ pc'[t] = "idle"
        /\ \A u \in Threads \ {t} : pc'[u] = pc[u] /\ arg'[u] = arg[u]
    BY <1>2, <2>1 DEF RemoveFile, Return
  <2>5. \A p \in Paths : files'[p] = files[p] \/ Touches(r, p)
    BY <1>2, <2>1 DEF RemoveFile, Remove
  <2> QED
    BY <1>1, <2>1, <2>3, <2>4, <2>5, CallStep
<1>5. CASE RemoveDirStep(t)
  <2>1. /\ it.do = "remove_dir" /\ r.op \in RemovingOps /\ Below(it.path, r.path)
        /\ Settle(t, {"Ok"}, << >>)
    BY <1>2, <1>5 DEF RemoveDirStep, At, Inside
  <2>2. CASE RemoveDirList(t, it.path)
    <3>1. it.path \in Paths
      BY <2>2, AnyCall DEF RemoveDirList, Issue, May
    <3>2. TypeOK' /\ files' = files /\ writer' = writer
      BY <1>2, <2>2, <3>1, BeginTypeOK DEF Begin, RemoveDirList
    <3>3. /\ pc'[t] # "idle" => arg'[t] = it.path /\ pc'[t] = "remove_dir"
          /\ \A u \in Threads \ {t} : pc'[u] = pc[u] /\ arg'[u] = arg[u]
      BY <1>2, <2>2, <3>1 DEF RemoveDirList, Proceed, Return
    <3> QED
      BY <1>1, <2>1, <3>2, <3>3, CallStep DEF Doing
  <2>3. CASE RemoveDirRemove(t)
    <3>1. TypeOK' /\ writer' = writer /\ arg[t] = it.path
      <4>1. TypeOK'
        BY <1>2, <2>3, FinishTypeOK DEF Finish
      <4>2. writer' = writer /\ pc[t] # "idle"
        BY <2>3 DEF RemoveDirRemove
      <4> QED
        BY <1>2, <4>1, <4>2
    <3>2. /\ pc'[t] = "idle"
          /\ \A u \in Threads \ {t} : pc'[u] = pc[u] /\ arg'[u] = arg[u]
      BY <1>2, <2>3 DEF RemoveDirRemove, Complete, Return
    <3>3. \A p \in Paths : files'[p] = files[p] \/ Touches(r, p)
      BY <1>2, <2>1, <2>3, <3>1 DEF RemoveDirRemove, Remove, Touches
    <3> QED
      BY <1>1, <2>1, <3>1, <3>2, <3>3, CallStep
  <2> QED
    BY <1>5, <2>2, <2>3 DEF RemoveDirStep
<1> QED
  BY <1>3, <1>4, <1>5

LEMMA OpenOutcome ==
    ASSUME VTypes, NEW t \in Threads, ThreadFits(t), UNCHANGED <<script, at>>, OpenStep(t)
    PROVE  /\ Outcome(t) /\ files' = files /\ writer' = writer
           /\ \/ job' = job
              \/ job'[t].agenda = Tail(job[t].agenda) /\ pc[t] = "open_file"
                    /\ (IsFile(files, Now(t).path) =>
                           job'[t].data = files[Now(t).path].content)
              \/ \E code \in Codes : Abort(t, code)
<1> DEFINE r == job[t].request
           it == Now(t)
<1>1. Busy(t) /\ it.do = "open"
  BY DEF OpenStep, At
<1>2. /\ it \in Items /\ Inside(r, it) /\ TypeOK
      /\ pc \in [Threads -> {"idle"} \cup PendingOps] /\ arg \in [Threads -> Paths]
      /\ pc[t] # "idle" => arg[t] = it.path
      /\ files \in Maps /\ res \in [Threads -> Results]
  BY <1>1, AgendaType DEF VTypes, VfsTypeOK, TypeOK, ThreadFits
<1>3. CASE OpenFileTouch(t, it.path)
  <2>1. it.path \in Paths
    BY <1>3, AnyCall DEF OpenFileTouch, Issue, May
  <2>2. TypeOK' /\ files' = files /\ writer' = writer
    BY <1>2, <1>3, <2>1, BeginTypeOK DEF Begin, OpenFileTouch
  <2>3. /\ pc'[t] # "idle" => arg'[t] = it.path /\ pc'[t] = "open_file"
        /\ \A u \in Threads \ {t} : pc'[u] = pc[u] /\ arg'[u] = arg[u]
    BY <1>2, <1>3, <2>1 DEF OpenFileTouch, Proceed, Return
  <2>4. pc'[t] = "idle" => Told(t).code = "FileNotFound"
    BY <1>2, <1>3 DEF OpenFileTouch, Proceed, Return, Told, Result, Answer
  <2>5. Settle(t, {}, << >>)
    BY <2>4 DEF OpenStep
  <2>6. Outcome(t)
    BY <1>1, <2>2, <2>3, <2>5, CallStep DEF Doing
  <2>7. job' = job \/ Abort(t, "FileNotFound")
    BY <2>4, <2>5 DEF Settle
  <2> QED
    BY <2>2, <2>6, <2>7 DEF Codes
<1>4. CASE OpenFileGet(t)
  <2>1. /\ TypeOK' /\ files' = files /\ writer' = writer /\ arg[t] = it.path
        /\ pc[t] = "open_file" /\ it.path \in Paths
    <3>1. TypeOK'
      BY <1>2, <1>4, FinishTypeOK DEF Finish
    <3>2. files' = files /\ writer' = writer /\ pc[t] = "open_file"
      BY <1>4 DEF OpenFileGet
    <3> QED
      BY <1>2, <3>1, <3>2
  <2>2. /\ pc'[t] = "idle" /\ Told(t) = OpenAnswer(files, it.path)
        /\ \A u \in Threads \ {t} : pc'[u] = pc[u] /\ arg'[u] = arg[u]
    BY <1>2, <1>4, <2>1 DEF OpenFileGet, Complete, Return, Told, Result
  <2> Told(t) \in Answers
    BY <1>2, <2>1, <2>2, CallAnswerTypes
  <2>3. CASE Told(t).code = "Ok"
    <3>1. job' = [job EXCEPT ![t].agenda = Tail(@), ![t].data = Told(t).content]
      BY <2>2, <2>3 DEF OpenStep
    <3>2. Told(t).content \in Contents
      BY DEF Answers
    <3>3. /\ << >> \o Tail(job[t].agenda) = Tail(job[t].agenda)
          /\ Fits(r, << >>) /\ job \in [Threads -> Jobs] /\ job[t] \in Jobs
      BY <1>1, AgendaType, ConcatEmptySeq, NothingFits DEF VTypes, VfsTypeOK
    <3>4. job' = [job EXCEPT ![t].agenda = << >> \o Tail(@), ![t].data = Told(t).content]
      BY <3>1, <3>3
    <3>5. writer'[t].open => Touches(r, writer'[t].path) /\ writer[t].open
      BY <2>1 DEF ThreadFits
    <3>6. Kept(t) /\ ThreadFits(t)'
      BY <1>1, <2>2, <3>2, <3>3, <3>4, <3>5, ResumeFits
    <3>7. Outcome(t)
      BY <2>1, <2>2, <3>6 DEF Outcome
    <3>8. job'[t].agenda = Tail(job[t].agenda) /\ job'[t].data = Told(t).content
      BY <3>1, <3>3 DEF Jobs
    <3>9. IsFile(files, it.path) => Told(t).content = files[it.path].content
      BY <2>2 DEF OpenAnswer, Answer, IsFile, Exists
    <3> QED
      BY <2>1, <3>7, <3>8, <3>9
  <2>4. CASE Told(t).code # "Ok"
    <3>1. Settle(t, {}, << >>)
      BY <2>4 DEF OpenStep
    <3>2. Outcome(t)
      BY <1>1, <2>1, <2>2, <3>1, CallStep
    <3>3. Abort(t, Told(t).code)
      BY <2>2, <3>1 DEF Settle
    <3>4. Told(t).code \in Codes
      BY DEF Answers
    <3> QED
      BY <2>1, <3>2, <3>3, <3>4
  <2> QED
    BY <2>3, <2>4
<1> QED
  BY <1>3, <1>4 DEF OpenStep

LEMMA CreateFileOutcome ==
    ASSUME VTypes, NEW t \in Threads, ThreadFits(t), UNCHANGED <<script, at>>, CreateFileStep(t)
    PROVE  /\ Outcome(t)
           /\ \/ job' = job /\ files' = files /\ writer' = writer
              \/ /\ files' = files /\ writer' = writer
                 /\ \E code \in Codes : Abort(t, code)
              \/ /\ job'[t].agenda = Tail(job[t].agenda) /\ job'[t].data = job[t].data
                 /\ writer'[t] = OpenHandle(Now(t).path, << >>)
                 /\ \A p \in Paths \ {Now(t).path} : files'[p] = files[p]
<1> DEFINE r == job[t].request
           it == Now(t)
<1>1. Busy(t) /\ it.do = "create_file" /\ Settle(t, {"Ok"}, << >>)
  BY DEF CreateFileStep, At
<1>2. /\ it \in Items /\ Inside(r, it) /\ TypeOK
      /\ pc \in [Threads -> {"idle"} \cup PendingOps] /\ arg \in [Threads -> Paths]
      /\ pc[t] # "idle" => arg[t] = it.path
      /\ files \in [Paths -> Entries] /\ res \in [Threads -> Results]
      /\ writer \in [Threads -> Handles(Nat)]
  BY <1>1, AgendaType DEF VTypes, VfsTypeOK, TypeOK, ThreadFits, Maps
<1>3. Touches(r, it.path)
  BY <1>1, <1>2 DEF Inside
<1>4. CASE CreateFileEnsureParent(t, it.path)
  <2>1. it.path \in Paths
    BY <1>4, AnyCall DEF CreateFileEnsureParent, Issue, May
  <2>2. TypeOK' /\ files' = files /\ writer' = writer
    BY <1>2, <1>4, <2>1, BeginTypeOK DEF Begin, CreateFileEnsureParent
  <2>3. /\ pc'[t] # "idle" => arg'[t] = it.path /\ pc'[t] = "create_file"
        /\ \A u \in Threads \ {t} : pc'[u] = pc[u] /\ arg'[u] = arg[u]
    BY <1>2, <1>4, <2>1 DEF CreateFileEnsureParent, Proceed, Return
  <2>4. pc'[t] = "idle" => Told(t).code = "NoParent"
    BY <1>2, <1>4 DEF CreateFileEnsureParent, Proceed, Return, Told, Result, Answer
  <2>5. Outcome(t)
    BY <1>1, <2>2, <2>3, CallStep DEF Doing
  <2>6. job' = job \/ Abort(t, "NoParent")
    BY <1>1, <2>4 DEF Settle
  <2> QED
    BY <2>2, <2>5, <2>6 DEF Codes
<1>5. CASE CreateFileInsert(t)
  <2>1. TypeOK' /\ arg[t] = it.path /\ it.path \in Paths
    <3>1. TypeOK'
      BY <1>2, <1>5, FinishTypeOK DEF Finish
    <3>2. pc[t] = "create_file"
      BY <1>5 DEF CreateFileInsert
    <3> QED
      BY <1>2, <3>1, <3>2
  <2>2. /\ files' = [files EXCEPT ![it.path] = FileEntry(<< >>)]
        /\ writer' = [writer EXCEPT ![t] = OpenHandle(it.path, << >>)]
        /\ Complete(t, Answer("Ok"))
    BY <1>5, <2>1 DEF CreateFileInsert, Insert
  <2>3. /\ pc'[t] = "idle" /\ Told(t).code = "Ok"
        /\ \A u \in Threads \ {t} : pc'[u] = pc[u] /\ arg'[u] = arg[u]
    BY <1>2, <2>2 DEF Complete, Return, Told, Result, Answer
  <2>4. /\ writer'[t] = OpenHandle(it.path, << >>) /\ writer'[t].path = it.path
        /\ \A u \in Threads \ {t} : writer'[u] = writer[u]
        /\ \A p \in Paths : files'[p] = files[p] \/ Touches(r, p)
        /\ \A p \in Paths \ {it.path} : files'[p] = files[p]
    BY <1>2, <1>3, <2>1, <2>2 DEF OpenHandle
  <2>5. Resume(t, << >>)
    BY <1>1, <2>3 DEF Settle
  <2>6. Kept(t) /\ ThreadFits(t)'
    <3>1. /\ job[t].data \in Contents /\ Fits(r, << >>)
          /\ job' = [job EXCEPT ![t].agenda = << >> \o Tail(@), ![t].data = job[t].data]
      BY <2>5, NothingFits, ResumeKeepsData
    <3>2. Touches(r, writer'[t].path) /\ Now(t).do = "create_file" /\ Busy(t) /\ pc'[t] = "idle"
      BY <1>1, <1>3, <2>3, <2>4
    <3> QED
      BY <3>1, <3>2, ResumeFits
  <2>7. job'[t].agenda = Tail(job[t].agenda) /\ job'[t].data = job[t].data
    BY <1>1, <2>5, AgendaType, ConcatEmptySeq DEF VTypes, VfsTypeOK, Resume, Jobs
  <2> QED
    BY <2>1, <2>3, <2>4, <2>6, <2>7 DEF Outcome
<1> QED
  BY <1>4, <1>5 DEF CreateFileStep

LEMMA FillOutcome ==
    ASSUME VTypes, NEW t \in Threads, ThreadFits(t), UNCHANGED <<script, at>>, Fill(t)
    PROVE  /\ Outcome(t) /\ files' = files
           /\ job'[t].agenda = Tail(job[t].agenda) /\ job'[t].data = job[t].data
           /\ writer[t].open /\ writer'[t] = OpenHandle(writer[t].path, job[t].data)
<1>1. /\ Busy(t) /\ Now(t).do = "fill" /\ Resume(t, << >>) /\ writer[t].open /\ pc[t] = "idle"
      /\ writer' = [writer EXCEPT ![t] = OpenHandle(writer[t].path, job[t].data)]
      /\ UNCHANGED <<files, pc, arg, res>>
  BY DEF Fill, At, Holds
<1>2. /\ TypeOK /\ writer \in [Threads -> Handles(Nat)] /\ writer[t].path \in Paths
      /\ job[t].data \in Contents
  BY <1>1, AgendaType DEF VTypes, VfsTypeOK, TypeOK, Handles
<1>3. /\ writer'[t] = OpenHandle(writer[t].path, job[t].data)
      /\ writer'[t].path = writer[t].path
      /\ \A u \in Threads \ {t} : writer'[u] = writer[u]
  BY <1>1, <1>2 DEF OpenHandle
<1>4. TypeOK'
  <2>1. OpenHandle(writer[t].path, job[t].data) \in Handles(Nat)
    BY <1>2, EntryTypes
  <2>2. writer' \in [Threads -> Handles(Nat)]
    BY <1>1, <1>2, <2>1
  <2> QED
    BY <1>1, <2>2 DEF VTypes, VfsTypeOK, TypeOK
<1>5. Touches(job[t].request, writer'[t].path)
  BY <1>1, <1>3 DEF ThreadFits
<1>6. Kept(t) /\ ThreadFits(t)'
  BY <1>1, <1>5, NothingFits, ResumeKeepsData, ResumeFits
<1>7. job'[t].agenda = Tail(job[t].agenda) /\ job'[t].data = job[t].data
  BY <1>1, AgendaType, ConcatEmptySeq DEF VTypes, VfsTypeOK, Resume, Jobs
<1> QED
  BY <1>1, <1>3, <1>4, <1>6, <1>7 DEF Outcome

LEMMA DropOutcome ==
    ASSUME VTypes, NEW t \in Threads, ThreadFits(t), UNCHANGED <<script, at>>, DropStep(t)
    PROVE  /\ Outcome(t)
           /\ job'[t].agenda = Tail(job[t].agenda)
           /\ files' = Insert(files, writer[t].path, FileEntry(writer[t].buf))
<1>1. /\ Busy(t) /\ Now(t).do = "drop" /\ Resume(t, << >>) /\ writer[t].open /\ pc[t] = "idle"
      /\ files' = Insert(files, writer[t].path, FileEntry(writer[t].buf))
      /\ writer' = [writer EXCEPT ![t] = ClosedHandle]
      /\ UNCHANGED <<pc, arg, res>>
  BY DEF DropStep, Drop, At, Holds, Publish
<1>2. TypeOK /\ writer \in [Threads -> Handles(Nat)] /\ files \in [Paths -> Entries]
  BY DEF VTypes, VfsTypeOK, TypeOK, Maps
<1>3. ~writer'[t].open /\ \A u \in Threads \ {t} : writer'[u] = writer[u]
  BY <1>1, <1>2 DEF ClosedHandle
<1>4. TypeOK'
  BY <1>2, UseHandleTypeOK DEF DropStep, UseHandle
<1>5. \A p \in Paths : files'[p] = files[p] \/ Touches(job[t].request, p)
  BY <1>1, <1>2 DEF ThreadFits, Insert
<1>6. Kept(t) /\ ThreadFits(t)'
  BY <1>1, <1>3, NothingFits, ResumeKeepsData, ResumeFits
<1>7. job'[t].agenda = Tail(job[t].agenda)
  BY <1>1, AgendaType, ConcatEmptySeq DEF VTypes, VfsTypeOK, Resume, Jobs
<1> QED
  BY <1>1, <1>3, <1>4, <1>5, <1>6, <1>7 DEF Outcome

\* Whatever step t makes, it stays within its request and leaves the other
\* threads alone.
LEMMA StepOutcome ==
    ASSUME VTypes, NEW t \in Threads, ThreadFits(t), Step(t)
    PROVE  Outcome(t)
<1>1. UNCHANGED <<script, at, before>>
  BY DEF Step
<1>2. CASE ReadingStep(t)
  BY <1>1, <1>2, ReadingOutcome
<1>3. CASE CreateDirStep(t) \/ RemoveFileStep(t) \/ RemoveDirStep(t)
  BY <1>1, <1>3, CallingOutcome
<1>4. CASE OpenStep(t)
  BY <1>1, <1>4, OpenOutcome
<1>5. CASE CreateFileStep(t)
  BY <1>1, <1>5, CreateFileOutcome
<1>6. CASE Fill(t)
  BY <1>1, <1>6, FillOutcome
<1>7. CASE DropStep(t)
  BY <1>1, <1>7, DropOutcome
<1> QED
  BY <1>2, <1>3, <1>4, <1>5, <1>6, <1>7 DEF Step, ReadingStep

-----------------------------------------------------------------------------
(* move_file, step by step.                                                 *)

\* Whatever may change p is the request t is in.
Foreign(t, p) ==
    \A u \in Threads : \A i \in DOMAIN script[u] :
        (u = t /\ i = at[t]) \/ ~Touches(script[u][i], p)

\* t's move_file of p to q is at its k-th step.
Phase(t, k) ==
    LET p == job[t].request.path
        q == job[t].request.dest
    IN
    /\ job[t].agenda = SubSeq(MoveFileSteps(p, q), k, 8)
    /\ k <= 7 => files[p] = before[p]
    /\ k > 1 => p # q
    /\ k \in 3 .. 6 => job[t].data = before[p].content
    /\ k < 6 => ~writer[t].open
    /\ k \in 6 .. 8 => writer[t].open /\ writer[t].path = q
    /\ k \in 7 .. 8 => writer[t].buf = before[p].content
    /\ k = 9 => files[q] = before[p]

InPhase(t) ==
    \/ \E k \in 1 .. 9 : Phase(t, k)
    \/ job[t].agenda = << >> /\ files[job[t].request.path] = before[job[t].request.path]

\* Nobody else may change what t moves, nor where to.
Alone(t) ==
    /\ at[t] > 0 /\ job[t].request.op = "move_file"
    /\ IsFile(before, job[t].request.path)
    /\ Foreign(t, job[t].request.path) /\ Foreign(t, job[t].request.dest)

\* What no request begun so far may change is as it was at the start.
Untouched(p) ==
    (\A u \in Threads : \A i \in 1 .. at[u] : ~Touches(script[u][i], p))
        => files[p] = before[p]

VInv ==
    /\ VTypes
    /\ \A t \in Threads : ThreadFits(t) /\ (Alone(t) => InPhase(t))
    /\ \A p \in Paths : Untouched(p)

\* The step a thread takes is the one its agenda begins with.
LEMMA StepIsNow ==
    ASSUME NEW t \in Threads, Step(t)
    PROVE  /\ Busy(t)
           /\ Now(t).do = "absent" => Absent(t)
           /\ Now(t).do = "open" => OpenStep(t)
           /\ Now(t).do = "parent_exists" => ParentExists(t)
           /\ Now(t).do = "parent_is_dir" => ParentIsDir(t)
           /\ Now(t).do = "create_file" => CreateFileStep(t)
           /\ Now(t).do = "fill" => Fill(t)
           /\ Now(t).do = "remove_file" => RemoveFileStep(t)
           /\ Now(t).do = "drop" => DropStep(t)
<1>1. /\ ParentExists(t) => At(t, {"parent_exists"})
      /\ ParentIsDir(t) => At(t, {"parent_is_dir"})
      /\ CreateDirStep(t) => At(t, {"create_dir", "ensure_dir"})
      /\ Absent(t) => At(t, {"absent"})
      /\ OpenStep(t) => At(t, {"open"})
      /\ CreateFileStep(t) => At(t, {"create_file"})
      /\ Fill(t) => At(t, {"fill"})
      /\ DropStep(t) => At(t, {"drop"})
      /\ RemoveFileStep(t) => At(t, {"remove_file"})
      /\ RemoveDirAll(t) => At(t, {"remove_dir_all"})
      /\ List(t) => At(t, {"list"})
      /\ RemoveDirStep(t) => At(t, {"remove_dir"})
      /\ WalkList(t) => At(t, {"walk"})
      /\ CopyEntry(t) => At(t, {"copy_entry"})
      /\ \A child : NextChild(t, child) => At(t, {"children"})
      /\ \A child : WalkNext(t, child) => At(t, {"walk"})
  BY DEF ParentExists, ParentIsDir, CreateDirStep, Absent, OpenStep, CreateFileStep, Fill,
         DropStep, RemoveFileStep, RemoveDirAll, List, RemoveDirStep, WalkList, CopyEntry,
         NextChild, WalkNext
<1> QED
  BY <1>1 DEF Step, At

\* What is left of a move_file at its k-th step.
LEMMA MoveAgenda ==
    ASSUME NEW p \in AnyPath, NEW q \in AnyPath, NEW k \in 1 .. 8
    PROVE  LET m == MoveFileSteps(p, q) IN
           /\ Head(SubSeq(m, k, 8)) = m[k]
           /\ Tail(SubSeq(m, k, 8)) = SubSeq(m, k + 1, 8)
           /\ SubSeq(m, k, 8) # << >> /\ SubSeq(m, 9, 8) = << >>
<1> DEFINE m == MoveFileSteps(p, q)
<1>1. m \in Seq(Items) /\ Len(m) = 8
  BY MoveFileShape
<1> HIDE DEF m
<1>2. Head(SubSeq(m, k, 8)) = m[k] /\ Tail(SubSeq(m, k, 8)) = SubSeq(m, k + 1, 8)
  BY <1>1, HeadTailOfSubSeq
<1>3. SubSeq(m, 9, 8) = << >>
  BY SubSeqEmpty
<1>4. SubSeq(m, k, 8) # << >>
  <2>1. m \in [1 .. 8 -> Items]
    BY <1>1, LenProperties
  <2>2. \A i \in k .. 8 : m[i] \in Items
    BY <2>1
  <2>3. Len(SubSeq(m, k, 8)) = IF k <= 8 THEN 8 - k + 1 ELSE 0
    BY <2>2, SubSeqProperties
  <2>4. Len(SubSeq(m, k, 8)) # 0
    BY <2>3
  <2> QED
    BY <2>4, EmptySeq
<1> QED
  BY <1>2, <1>3, <1>4 DEF m

\* A step of a call that reads only moves on, or gives the method up.
LEMMA LookOutcome ==
    ASSUME VTypes, NEW t \in Threads, ThreadFits(t), ~writer[t].open,
           ParentExists(t) \/ ParentIsDir(t) \/ Absent(t)
    PROVE  /\ files' = files /\ writer' = writer /\ job'[t].data = job[t].data
           /\ \/ job'[t].agenda = << >>
              \/ /\ job'[t].agenda = Tail(job[t].agenda)
                 /\ Absent(t) => ~Exists(files, Now(t).path)
<1>1. Busy(t) /\ job \in [Threads -> Jobs] /\ job[t] \in Jobs /\ res \in [Threads -> Results]
  BY DEF ParentExists, ParentIsDir, Absent, At, VTypes, VfsTypeOK, TypeOK
<1>2. ASSUME Resume(t, << >>)
      PROVE  job'[t].agenda = Tail(job[t].agenda) /\ job'[t].data = job[t].data
  BY <1>1, <1>2, AgendaType, ConcatEmptySeq DEF Resume, Jobs
<1>3. ASSUME NEW code, Abort(t, code), writer' = writer
      PROVE  job'[t].agenda = << >> /\ job'[t].data = job[t].data
  BY <1>1, <1>3 DEF Abort, Jobs
<1>4. CASE ParentExists(t)
  <2>1. files' = files /\ writer' = writer
    BY <1>4 DEF ParentExists, ExistsCall
  <2>2. Resume(t, << >>) \/ Abort(t, "NoParent")
    BY <1>4 DEF ParentExists
  <2>3. ~Absent(t)
    BY <1>4 DEF ParentExists, Absent, At
  <2> QED
    BY <1>2, <1>3, <2>1, <2>2, <2>3
<1>5. CASE ParentIsDir(t)
  <2>1. files' = files /\ writer' = writer /\ pc'[t] = "idle"
    BY <1>5, ReadCall DEF ParentIsDir, VTypes, VfsTypeOK
  <2>2. Resume(t, << >>) \/ \E code : Abort(t, code)
    BY <1>5, <2>1 DEF ParentIsDir, Settle
  <2>3. ~Absent(t)
    BY <1>5 DEF ParentIsDir, Absent, At
  <2> QED
    BY <1>2, <1>3, <2>1, <2>2, <2>3
<1>6. CASE Absent(t)
  <2>1. files' = files /\ writer' = writer
    BY <1>6 DEF Absent, ExistsCall
  <2>2. Told(t) = ExistsAnswer(files, Now(t).path)
    BY <1>1, <1>6 DEF Absent, ExistsCall, Return, Told, Result
  <2>3. CASE Exists(files, Now(t).path)
    <3>1. Abort(t, "FileExists")
      BY <1>6, <2>2, <2>3 DEF Absent, ExistsAnswer, Answer
    <3> QED
      BY <1>3, <2>1, <3>1
  <2>4. CASE ~Exists(files, Now(t).path)
    <3>1. Resume(t, << >>)
      BY <1>6, <2>2, <2>4 DEF Absent, ExistsAnswer, Answer
    <3> QED
      BY <1>2, <2>1, <2>4, <3>1
  <2> QED
    BY <2>3, <2>4
<1> QED
  BY <1>4, <1>5, <1>6

\* A move_file that runs alone goes from phase to phase, or stops with the
\* source as it was.
LEMMA MovingStep ==
    ASSUME VTypes, NEW t \in Threads, ThreadFits(t), Step(t), Alone(t), InPhase(t)
    PROVE  InPhase(t)'
<1> DEFINE r == job[t].request
           p == r.path
           q == r.dest
           m == MoveFileSteps(p, q)
<1>1. /\ Busy(t) /\ Outcome(t) /\ before' = before /\ UNCHANGED <<script, at>>
      /\ job'[t].request = r
  BY StepIsNow, StepOutcome DEF Step, Outcome, Kept
<1>2. /\ p \in Paths /\ q \in Paths /\ p \in AnyPath /\ q \in AnyPath
      /\ files \in Maps /\ before \in Maps /\ writer[t] \in Handles(Nat)
  BY <1>1, AgendaType, PathsAreSequences DEF Requests, AnyPath, VTypes, VfsTypeOK, TypeOK
<1>3. IsFile(before, p) /\ before[p] = FileEntry(before[p].content)
  BY <1>2 DEF Alone, IsFile, Maps, Entries, VacantEntry, FileEntry
<1>4. PICK k \in 1 .. 9 : Phase(t, k)
  BY <1>1 DEF InPhase, Busy
<1>5. k \in 1 .. 8
  <2>1. SubSeq(m, 9, 8) = << >>
    BY SubSeqEmpty
  <2> QED
    BY <1>1, <1>4, <2>1 DEF Phase, Busy
<1>6. /\ Now(t) = m[k] /\ Tail(job[t].agenda) = SubSeq(m, k + 1, 8)
      /\ job[t].agenda = SubSeq(m, k, 8)
  BY <1>2, <1>4, <1>5, MoveAgenda DEF Phase, Now
<1>7. /\ m[1] = Do("absent", q) /\ m[2] = Do("open", p)
      /\ m[3] = Do("parent_exists", q) /\ m[4] = Do("parent_is_dir", q)
      /\ m[5] = Do("create_file", q) /\ m[6] = Do("fill", q)
      /\ m[7] = Do("remove_file", p) /\ m[8] = Do("drop", q)
  <2>1. p \in AnyPath /\ q \in AnyPath
    BY <1>2
  <2> HIDE DEF r, p, q
  <2> QED
    BY <2>1, MoveFileShape
<1>8. \A do \in Steps : /\ Do(do, p).do = do /\ Do(do, p).path = p
                       /\ Do(do, q).do = do /\ Do(do, q).path = q
  BY <1>2, DoItem
<1> HIDE DEF r, p, q, m
<1>9. CASE k \in {1, 3, 4}
  <2>1. /\ ParentExists(t) \/ ParentIsDir(t) \/ Absent(t)
        /\ k = 1 => Absent(t) /\ Now(t).path = q
    BY <1>5, <1>6, <1>7, <1>8, <1>9, StepIsNow DEF Steps
  <2>2. /\ files[p] = before[p] /\ ~writer[t].open
        /\ k > 1 => p # q
        /\ k \in 3 .. 6 => job[t].data = before[p].content
    BY <1>4, <1>9 DEF Phase, p, q, r
  <2>3. /\ files' = files /\ writer' = writer /\ job'[t].data = job[t].data
        /\ \/ job'[t].agenda = << >>
           \/ /\ job'[t].agenda = Tail(job[t].agenda)
              /\ Absent(t) => ~Exists(files, Now(t).path)
    BY <2>1, <2>2, LookOutcome
  <2>4. CASE job'[t].agenda = << >>
    BY <1>1, <2>2, <2>3, <2>4 DEF InPhase, p, r
  <2>5. CASE /\ job'[t].agenda = Tail(job[t].agenda)
             /\ Absent(t) => ~Exists(files, Now(t).path)
    <3>1. p # q
      BY <1>3, <1>9, <2>1, <2>2, <2>5 DEF IsFile, Exists
    <3>2. job'[t].agenda = SubSeq(m, k + 1, 8) /\ files'[p] = before'[p] /\ ~writer'[t].open
      BY <1>1, <1>6, <2>2, <2>3, <2>5
    <3>3. k \in {3, 4} => job'[t].data = before'[p].content
      BY <1>1, <2>2, <2>3
    <3>4. CASE k = 1
      <4>1. Phase(t, 2)'
        BY <1>1, <3>1, <3>2, <3>4 DEF Phase, p, q, r, m
      <4> QED
        BY <4>1 DEF InPhase
    <3>5. CASE k = 3
      <4>1. Phase(t, 4)'
        BY <1>1, <3>1, <3>2, <3>3, <3>5 DEF Phase, p, q, r, m
      <4> QED
        BY <4>1 DEF InPhase
    <3>6. CASE k = 4
      <4>1. Phase(t, 5)'
        BY <1>1, <3>1, <3>2, <3>3, <3>6 DEF Phase, p, q, r, m
      <4> QED
        BY <4>1 DEF InPhase
    <3> QED
      BY <1>9, <3>4, <3>5, <3>6
  <2> QED
    BY <2>3, <2>4, <2>5
<1>10. CASE k = 2
  <2>1. OpenStep(t) /\ Now(t).path = p
    BY <1>6, <1>7, <1>8, <1>10, StepIsNow DEF Steps
  <2>2. files[p] = before[p] /\ ~writer[t].open /\ p # q
    BY <1>4, <1>10 DEF Phase, p, q, r
  <2>3. /\ files' = files /\ writer' = writer
        /\ \/ job' = job
           \/ job'[t].agenda = Tail(job[t].agenda) /\ pc[t] = "open_file"
                 /\ (IsFile(files, Now(t).path) =>
                        job'[t].data = files[Now(t).path].content)
           \/ \E code \in Codes : Abort(t, code)
    BY <1>1, <2>1, OpenOutcome
  <2>4. /\ files' = files /\ writer' = writer /\ files'[p] = before'[p] /\ ~writer'[t].open
    BY <1>1, <2>2, <2>3
  <2>5. CASE job' = job
    <3>1. Phase(t, 2)'
      BY <1>1, <1>4, <1>10, <2>4, <2>5 DEF Phase
    <3> QED
      BY <3>1 DEF InPhase
  <2>6. CASE job'[t].agenda = Tail(job[t].agenda) /\ job'[t].data = before[p].content
    <3>1. Phase(t, 3)'
      <4>1. job'[t].agenda = SubSeq(m, 3, 8) /\ job'[t].data = before'[p].content
        BY <1>1, <1>6, <1>10, <2>6
      <4> QED
        BY <1>1, <2>2, <2>4, <4>1 DEF Phase, p, q, r, m
    <3> QED
      BY <3>1 DEF InPhase
  <2>7. ASSUME NEW code \in Codes, Abort(t, code) PROVE InPhase(t)'
    <3>1. job'[t].agenda = << >>
      BY <2>4, <2>7 DEF Abort, VTypes, VfsTypeOK, Jobs
    <3> QED
      BY <1>1, <2>4, <3>1 DEF InPhase, p, r
  <2>8. IsFile(files, p)
    BY <1>3, <2>2 DEF IsFile
  <2> QED
    BY <2>1, <2>2, <2>3, <2>5, <2>6, <2>7, <2>8
<1>11. CASE k = 5
  <2>1. CreateFileStep(t) /\ Now(t).path = q
    BY <1>6, <1>7, <1>8, <1>11, StepIsNow DEF Steps
  <2>2. /\ files[p] = before[p] /\ ~writer[t].open /\ p # q
        /\ job[t].data = before[p].content
    BY <1>4, <1>11 DEF Phase, p, q, r
  <2>3. \/ job' = job /\ files' = files /\ writer' = writer
        \/ /\ files' = files /\ writer' = writer
           /\ \E code \in Codes : Abort(t, code)
        \/ /\ job'[t].agenda = Tail(job[t].agenda) /\ job'[t].data = job[t].data
           /\ writer'[t] = OpenHandle(q, << >>)
           /\ \A s \in Paths \ {q} : files'[s] = files[s]
    BY <1>1, <2>1, CreateFileOutcome
  <2>4. CASE job' = job /\ files' = files /\ writer' = writer
    <3>1. Phase(t, 5)'
      BY <1>1, <1>4, <1>11, <2>4 DEF Phase
    <3> QED
      BY <3>1 DEF InPhase
  <2>5. ASSUME files' = files, writer' = writer, NEW code \in Codes, Abort(t, code)
        PROVE  InPhase(t)'
    <3>1. job'[t].agenda = << >>
      BY <2>2, <2>5 DEF Abort, VTypes, VfsTypeOK, Jobs
    <3> QED
      BY <1>1, <2>2, <2>5, <3>1 DEF InPhase, p, r
  <2>6. CASE /\ job'[t].agenda = Tail(job[t].agenda) /\ job'[t].data = job[t].data
             /\ writer'[t] = OpenHandle(q, << >>)
             /\ \A s \in Paths \ {q} : files'[s] = files[s]
    <3>1. /\ job'[t].agenda = SubSeq(m, 6, 8) /\ job'[t].data = before'[p].content
          /\ files'[p] = before'[p]
      BY <1>1, <1>2, <1>6, <1>11, <2>2, <2>6
    <3>2. writer'[t].open /\ writer'[t].path = q
      BY <2>6 DEF OpenHandle
    <3>3. Phase(t, 6)'
      BY <1>1, <2>2, <3>1, <3>2 DEF Phase, p, q, r, m
    <3> QED
      BY <3>3 DEF InPhase
  <2> QED
    BY <2>3, <2>4, <2>5, <2>6
<1>12. CASE k = 6
  <2>1. Fill(t)
    BY <1>6, <1>7, <1>8, <1>12, StepIsNow DEF Steps
  <2>2. /\ files[p] = before[p] /\ p # q /\ writer[t].path = q
        /\ job[t].data = before[p].content
    BY <1>4, <1>12 DEF Phase, p, q, r
  <2>3. /\ files' = files /\ job'[t].agenda = Tail(job[t].agenda)
        /\ writer'[t] = OpenHandle(q, before[p].content)
    BY <1>1, <2>1, <2>2, FillOutcome
  <2>4. job'[t].agenda = SubSeq(m, 7, 8) /\ files'[p] = before'[p]
    BY <1>1, <1>6, <1>12, <2>2, <2>3
  <2>5. writer'[t].open /\ writer'[t].path = q /\ writer'[t].buf = before'[p].content
    BY <1>1, <2>3 DEF OpenHandle
  <2>6. Phase(t, 7)'
    BY <1>1, <2>2, <2>4, <2>5 DEF Phase, p, q, r, m
  <2> QED
    BY <2>6 DEF InPhase
<1>13. CASE k = 7
  <2>1. RemoveFileStep(t) /\ Now(t).path = p
    BY <1>6, <1>7, <1>8, <1>13, StepIsNow DEF Steps
  <2>2. /\ files[p] = before[p] /\ p # q /\ writer[t].open /\ writer[t].path = q
        /\ writer[t].buf = before[p].content
    BY <1>4, <1>13 DEF Phase, p, q, r
  <2>3. /\ RemoveFile(t, p) /\ Settle(t, {"Ok"}, << >>) /\ res \in [Threads -> Results]
        /\ pc \in [Threads -> {"idle"} \cup PendingOps]
    BY <2>1 DEF RemoveFileStep, VTypes, VfsTypeOK, TypeOK
  <2>4. writer' = writer /\ pc'[t] = "idle" /\ Told(t) = RemoveAnswer(files, p)
    BY <2>3 DEF RemoveFile, Return, Told, Result
  <2>5. Told(t).code = "Ok"
    BY <1>3, <2>2, <2>4 DEF RemoveAnswer, Answer, IsFile, Exists
  <2>6. Resume(t, << >>)
    BY <2>3, <2>4, <2>5 DEF Settle
  <2>7. job'[t].agenda = Tail(job[t].agenda)
    BY <1>1, <2>6, AgendaType, ConcatEmptySeq DEF VTypes, VfsTypeOK, Resume, Jobs
  <2>8. Phase(t, 8)'
    BY <1>1, <1>6, <1>13, <2>2, <2>4, <2>7 DEF Phase, p, q, r, m
  <2> QED
    BY <2>8 DEF InPhase
<1>14. CASE k = 8
  <2>1. DropStep(t)
    BY <1>6, <1>7, <1>8, <1>14, StepIsNow DEF Steps
  <2>2. /\ p # q /\ writer[t].path = q /\ writer[t].buf = before[p].content
    BY <1>4, <1>14 DEF Phase, p, q, r
  <2>3. /\ job'[t].agenda = Tail(job[t].agenda)
        /\ files' = Insert(files, q, FileEntry(before[p].content))
    BY <1>1, <2>1, <2>2, DropOutcome
  <2>4. files'[q] = before[p]
    BY <1>2, <1>3, <2>3 DEF Insert, Maps
  <2>5. Phase(t, 9)'
    BY <1>1, <1>6, <1>14, <2>2, <2>3, <2>4 DEF Phase, p, q, r, m
  <2> QED
    BY <2>5 DEF InPhase
<1> QED
  BY <1>5, <1>9, <1>10, <1>11, <1>12, <1>13, <1>14

-----------------------------------------------------------------------------
(* The invariant is kept.                                                   *)

\* Another thread's step does not disturb one that is alone in what it moves.
LEMMA OthersKeepPhase ==
    ASSUME VTypes, NEW t \in Threads, NEW u \in Threads \ {t},
           ThreadFits(t), ThreadFits(u), Step(u), Alone(t), InPhase(t)
    PROVE  InPhase(t)'
<1> DEFINE p == job[t].request.path
           q == job[t].request.dest
<1>1. Busy(u) /\ Outcome(u) /\ UNCHANGED <<script, at, before>>
  BY StepIsNow, StepOutcome DEF Step
<1>2. job'[t] = job[t] /\ writer'[t] = writer[t]
  BY <1>1 DEF Outcome, Kept
<1>3. p \in Paths /\ q \in Paths
  BY DEF VTypes, VfsTypeOK, Jobs, Requests
<1>4. job[u].request = script[u][at[u]] /\ at[u] \in DOMAIN script[u]
  <2>1. at[u] \in Nat \ {0} /\ at[u] <= Len(script[u]) /\ script[u] \in Seq(Requests)
        /\ job[u].request = script[u][at[u]]
    BY <1>1 DEF ThreadFits, VTypes, VfsTypeOK
  <2> QED
    BY <2>1, LenProperties
<1>5. ~Touches(job[u].request, p) /\ ~Touches(job[u].request, q)
  BY <1>4 DEF Alone, Foreign
<1>6. files'[p] = files[p] /\ files'[q] = files[q]
  BY <1>1, <1>3, <1>5 DEF Outcome
<1>7. ASSUME NEW k \in 1 .. 9, Phase(t, k) PROVE Phase(t, k)'
  BY <1>1, <1>2, <1>6, <1>7 DEF Phase
<1> QED
  BY <1>1, <1>2, <1>6, <1>7 DEF InPhase

LEMMA OthersFit ==
    ASSUME VTypes, NEW t \in Threads, ThreadFits(t), script' = script, at'[t] = at[t],
           job'[t] = job[t], pc'[t] = pc[t], arg'[t] = arg[t], writer'[t] = writer[t]
    PROVE  ThreadFits(t)'
BY DEF ThreadFits, Busy, Now

LEMMA StepKeepsVInv ==
    ASSUME VInv, NEW t \in Threads, Step(t)
    PROVE  VInv'
<1>1. /\ VTypes /\ ThreadFits(t) /\ Busy(t) /\ Outcome(t)
      /\ UNCHANGED <<script, at, before>>
  BY StepIsNow, StepOutcome DEF VInv, Step
<1>2. VTypes'
  BY <1>1 DEF VTypes, VfsTypeOK, Outcome, Kept
<1>3. ASSUME NEW u \in Threads PROVE ThreadFits(u)'
  <2>1. CASE u = t
    BY <1>1, <2>1 DEF Outcome
  <2>2. CASE u # t
    BY <1>1, <2>2, OthersFit DEF VInv, Outcome, Kept
  <2> QED
    BY <2>1, <2>2
<1>4. ASSUME NEW u \in Threads, Alone(u)' PROVE InPhase(u)'
  <2>1. job'[u].request = job[u].request
    BY <1>1 DEF Outcome, Kept
  <2>2. Alone(u) /\ InPhase(u) /\ ThreadFits(u)
    BY <1>1, <1>4, <2>1 DEF Alone, Foreign, VInv
  <2>3. CASE u = t
    BY <1>1, <2>2, <2>3, MovingStep
  <2>4. CASE u # t
    BY <1>1, <2>2, <2>4, OthersKeepPhase
  <2> QED
    BY <2>3, <2>4
<1>5. ASSUME NEW p \in Paths PROVE Untouched(p)'
  <2>1. job[t].request = script[t][at[t]] /\ at[t] \in 1 .. at[t]
    BY <1>1 DEF ThreadFits, VTypes, VfsTypeOK
  <2>2. Untouched(p) /\ (files'[p] = files[p] \/ Touches(job[t].request, p))
    BY <1>1 DEF VInv, Outcome
  <2> QED
    BY <1>1, <2>1, <2>2 DEF Untouched
<1> QED
  BY <1>2, <1>3, <1>4, <1>5 DEF VInv

LEMMA StartKeepsVInv ==
    ASSUME VInv, NEW t \in Threads, Start(t)
    PROVE  VInv'
<1> DEFINE r == script[t][at[t] + 1]
<1>1. /\ ~Busy(t) /\ at[t] < Len(script[t]) /\ at' = [at EXCEPT ![t] = @ + 1]
      /\ job' = [job EXCEPT ![t] = Job(r, StepsOf(r))]
      /\ UNCHANGED <<vars, script, before>> /\ VTypes /\ ThreadFits(t)
  BY DEF Start, VInv
<1>2. /\ at \in [Threads -> Nat] /\ job \in [Threads -> Jobs] /\ script[t] \in Seq(Requests)
      /\ Len(script[t]) \in Nat /\ DOMAIN script[t] = 1 .. Len(script[t])
  BY <1>1, LenProperties DEF VTypes, VfsTypeOK
<1>3. r \in Requests /\ at[t] + 1 \in DOMAIN script[t]
  BY <1>1, <1>2, ElementOfSeq
<1>4. Fits(r, StepsOf(r)) /\ StepsOf(r) \in Seq(Items)
  BY <1>3, StepsOfFit DEF Fits
<1> HIDE DEF r
<1>5. Job(r, StepsOf(r)) \in Jobs
  BY <1>3, <1>4 DEF Job, Jobs, Requests, Codes
<1>6. /\ at'[t] = at[t] + 1 /\ job'[t] = Job(r, StepsOf(r))
      /\ \A u \in Threads \ {t} : at'[u] = at[u] /\ job'[u] = job[u]
  BY <1>1, <1>2
<1>7. VTypes'
  <2>1. TypeOK'
    BY <1>1 DEF VTypes, VfsTypeOK, TypeOK, vars
  <2>2. at' \in [Threads -> Nat] /\ job' \in [Threads -> Jobs]
    BY <1>1, <1>2, <1>5
  <2> QED
    BY <1>1, <2>1, <2>2 DEF VTypes, VfsTypeOK
<1>8. ~writer[t].open /\ pc[t] = "idle"
  <2>1. job[t].agenda = << >> /\ DOMAIN << >> = {}
    BY <1>1 DEF Busy
  <2> QED
    BY <1>1, <2>1 DEF ThreadFits, Busy
<1>9. ThreadFits(t)'
  <2>1. at'[t] > 0 /\ at'[t] <= Len(script'[t]) /\ job'[t].request = script'[t][at'[t]]
    BY <1>1, <1>2, <1>6 DEF Job, r
  <2>2. Fits(job'[t].request, job'[t].agenda)
    BY <1>4, <1>6 DEF Job
  <2>3. ~writer'[t].open /\ pc'[t] = "idle"
    BY <1>1, <1>8 DEF vars
  <2> QED
    BY <2>1, <2>2, <2>3 DEF ThreadFits
<1>10. ASSUME NEW u \in Threads PROVE ThreadFits(u)'
  <2>1. CASE u = t
    BY <1>9, <2>1
  <2>2. CASE u # t
    BY <1>1, <1>6, <2>2, OthersFit DEF VInv, vars
  <2> QED
    BY <2>1, <2>2
<1>11. ASSUME NEW u \in Threads, Alone(u)' PROVE InPhase(u)'
  <2>1. CASE u # t
    <3>1. Alone(u)
      BY <1>1, <1>6, <1>11, <2>1 DEF Alone, Foreign
    <3>2. InPhase(u)
      BY <3>1 DEF VInv
    <3>3. ASSUME NEW k \in 1 .. 9, Phase(u, k) PROVE Phase(u, k)'
      BY <1>1, <1>6, <2>1, <3>3 DEF Phase, vars
    <3> QED
      BY <1>1, <1>6, <2>1, <3>2, <3>3 DEF InPhase, vars
  <2>2. CASE u = t
    <3>1. job'[t].request = r /\ job'[t].agenda = StepsOf(r)
      BY <1>6 DEF Job
    <3>2. /\ r.op = "move_file" /\ r.path \in Paths /\ r.dest \in Paths
          /\ r.path \in AnyPath /\ r.dest \in AnyPath
      BY <1>3, <1>11, <2>2, <3>1, PathsAreSequences DEF Alone, Requests, AnyPath
    <3>3. ASSUME NEW v \in Threads, NEW i \in 1 .. at[v]
          PROVE  ~Touches(script[v][i], r.path)
      <4>1. i \in DOMAIN script[v] /\ ~(v = t /\ i = at'[t])
        <5>1. script[v] \in Seq(Requests) /\ at[v] <= Len(script[v]) /\ at[v] \in Nat
          BY <1>1 DEF VInv, ThreadFits, VTypes, VfsTypeOK
        <5> QED
          BY <1>2, <1>6, <5>1, LenProperties
      <4>2. \A w \in Threads : \A n \in DOMAIN script'[w] :
                (w = t /\ n = at'[t]) \/ ~Touches(script'[w][n], r.path)
        BY <1>11, <2>2, <3>1 DEF Alone, Foreign
      <4> QED
        BY <1>1, <4>1, <4>2
    <3>4. files[r.path] = before[r.path]
      BY <3>2, <3>3 DEF VInv, Untouched
    <3>5. StepsOf(r) = SubSeq(MoveFileSteps(r.path, r.dest), 1, 8)
      BY <3>2, MoveFileShape, SubSeqFull DEF StepsOf
    <3>6. files' = files /\ writer' = writer /\ before' = before
      BY <1>1 DEF vars
    <3>7. /\ job'[t].agenda = SubSeq(MoveFileSteps(r.path, r.dest), 1, 8)
          /\ files'[r.path] = before'[r.path] /\ ~writer'[t].open
      BY <1>8, <3>1, <3>4, <3>5, <3>6
    <3>8. Phase(t, 1)'
      BY <3>1, <3>7 DEF Phase
    <3> QED
      BY <2>2, <3>8 DEF InPhase
  <2> QED
    BY <2>1, <2>2
<1>12. ASSUME NEW p \in Paths PROVE Untouched(p)'
  <2>1. \A u \in Threads : at[u] \in Nat /\ at'[u] \in Nat /\ at[u] <= at'[u]
    BY <1>2, <1>6
  <2> QED
    BY <1>1, <2>1 DEF VInv, Untouched, vars
<1> QED
  BY <1>7, <1>10, <1>11, <1>12 DEF VInv

LEMMA InitVInv == VfsInit => VInv
<1> SUFFICES ASSUME VfsInit PROVE VInv
  OBVIOUS
<1>1. TypeOK
  <2>1. NoResult \in Results
    BY EmptyContent, PathsAssumption
    DEF NoResult, Result, Results, Answer, Answers, Codes, Kinds, Ops
  <2>2. ClosedHandle \in Handles(Nat)
    BY EntryTypes
  <2> QED
    BY <2>1, <2>2, TreesAssumption, PathsAssumption DEF VfsInit, TypeOK
<1>2. Idle \in Jobs /\ Idle.agenda = << >>
  <2>1. Idle.request \in Requests
    BY PathsAssumption, EmptyContent DEF Idle, Job, Requests, VfsOps
  <2> QED
    BY <2>1, EmptyContent, EmptySeq DEF Idle, Job, Jobs, Codes
<1>3. VTypes
  BY <1>1, <1>2, ScriptsAssumption, TreesAssumption DEF VTypes, VfsTypeOK, VfsInit
<1>4. ASSUME NEW t \in Threads PROVE ThreadFits(t) /\ ~Alone(t)
  <2>1. /\ at[t] = 0 /\ job[t] = Idle /\ pc[t] = "idle" /\ ~writer[t].open
        /\ script[t] \in Seq(Requests)
    BY <1>3 DEF VfsInit, ClosedHandle, VTypes
  <2> QED
    BY <1>2, <2>1, NothingFits, LenProperties DEF ThreadFits, Alone, Busy
<1>5. \A p \in Paths : Untouched(p)
  BY DEF Untouched, VfsInit
<1> QED
  BY <1>3, <1>4, <1>5 DEF VInv

LEMMA StutterKeepsVInv ==
    ASSUME VInv, UNCHANGED vfsVars
    PROVE  VInv'
<1>1. VTypes'
  BY DEF VInv, VTypes, VfsTypeOK, TypeOK, vfsVars, vars
<1>2. ASSUME NEW t \in Threads PROVE ThreadFits(t)'
  BY OthersFit DEF VInv, vfsVars, vars
<1>3. ASSUME NEW t \in Threads, Alone(t)' PROVE InPhase(t)'
  <2>1. Alone(t)
    BY <1>3 DEF Alone, Foreign, vfsVars, vars
  <2>2. InPhase(t)
    BY <2>1 DEF VInv
  <2>3. ASSUME NEW k \in 1 .. 9, Phase(t, k) PROVE Phase(t, k)'
    BY <2>3 DEF Phase, vfsVars, vars
  <2> QED
    BY <2>2, <2>3 DEF InPhase, vfsVars, vars
<1>4. ASSUME NEW p \in Paths PROVE Untouched(p)'
  BY DEF VInv, Untouched, vfsVars, vars
<1> QED
  BY <1>1, <1>2, <1>3, <1>4 DEF VInv

\* The invariant holds at every moment.
THEOREM VInvHolds == VfsSpec => []VInv
<1>1. VfsInit => VInv
  BY InitVInv
<1>2. VInv /\ [VfsNext]_vfsVars => VInv'
  BY StepKeepsVInv, StartKeepsVInv, StutterKeepsVInv DEF VfsNext
<1> QED
  BY <1>1, <1>2, PTL DEF VfsSpec

LEMMA InvariantImpliesVfsInv == VInv => VfsInv
<1> SUFFICES ASSUME VInv PROVE VfsInv
  OBVIOUS
<1>1. VfsTypeOK
  BY DEF VInv, VTypes
<1>2. ASSUME NEW t \in Threads, at[t] > 0, job[t].request.op = "move_file",
             IsFile(before, job[t].request.path),
             Undisturbed(t, job[t].request.path), Undisturbed(t, job[t].request.dest)
      PROVE  LET p == job[t].request.path
                 q == job[t].request.dest
             IN \/ files[p] = before[p]
                \/ files[q] = before[p]
                \/ Busy(t) /\ writer[t].open /\ writer[t].path = q
                           /\ writer[t].buf = before[p].content
  <2> DEFINE p == job[t].request.path
             q == job[t].request.dest
  <2>1. p \in Paths /\ q \in Paths /\ p \in AnyPath /\ q \in AnyPath
    BY <1>1, PathsAreSequences DEF VfsTypeOK, Jobs, Requests, AnyPath
  <2>2. ASSUME NEW s \in Paths, Undisturbed(t, s) PROVE Foreign(t, s)
    <3>1. Below(s, s)
      BY BelowItself, PathsAreSequences DEF AnyPath
    <3> QED
      BY <2>2, <3>1 DEF Undisturbed, Foreign, Reach, Touches
  <2>3. InPhase(t)
    BY <1>2, <2>1, <2>2 DEF Alone, VInv
  <2>4. ASSUME NEW k \in 1 .. 9, Phase(t, k)
        PROVE  \/ files[p] = before[p]
               \/ files[q] = before[p]
               \/ Busy(t) /\ writer[t].open /\ writer[t].path = q
                          /\ writer[t].buf = before[p].content
    <3>1. CASE k <= 7
      BY <2>4, <3>1 DEF Phase
    <3>2. CASE k = 8
      BY <2>1, <2>4, <3>2, MoveAgenda DEF Phase, Busy
    <3>3. CASE k = 9
      BY <2>4, <3>3 DEF Phase
    <3> QED
      BY <3>1, <3>2, <3>3
  <2> QED
    BY <2>3, <2>4 DEF InPhase
<1>3. MovedFileIsSomewhere
  BY <1>2 DEF MovedFileIsSomewhere
<1> QED
  BY <1>1, <1>3 DEF VfsInv

\* Whatever threads share the file system and whatever they call, a moved file
\* that nobody else touches is never lost: in every state it is at its source,
\* at its destination, or in the open handle that move_file will drop.
THEOREM MovedFileStays == VfsSpec => []VfsInv
BY VInvHolds, InvariantImpliesVfsInv, PTL

\* The compound methods stay within the footprint of their request: what no
\* request begun so far may reach is as it was at the start, whatever a copy,
\* a walk or a removal of other paths has met on its way.
ElsewhereUntouched ==
    \A p \in Paths :
        (\A u \in Threads : \A i \in 1 .. at[u] : p \notin Reach(script[u][i]))
            => files[p] = before[p]

THEOREM StaysInFootprint == VfsSpec => []ElsewhereUntouched
<1>1. VInv => ElsewhereUntouched
  BY DEF VInv, Untouched, ElsewhereUntouched, Reach, Touches
<1> QED
  BY <1>1, VInvHolds, PTL

-----------------------------------------------------------------------------
(* create_dir_all by any number of threads at once: the argument that it    *)
(* fails only where a file is in the way, for any threads, paths and        *)
(* scripts without removals.                                                *)

-----------------------------------------------------------------------------
(* The agenda that makes the beginnings of a path.                          *)

\* What is left of a create_dir_all at its k-th beginning.
LEMMA DirsAgenda ==
    ASSUME NEW p \in AnyPath, NEW k \in 1 .. Len(p)
    PROVE  LET s == CreateDirAllSteps(p) IN
           /\ Len(p) \in Nat
           /\ SubSeq(s, k, Len(p)) # << >>
           /\ Head(SubSeq(s, k, Len(p))).do = "ensure_dir"
           /\ Head(SubSeq(s, k, Len(p))).path = SubSeq(p, 1, k)
           /\ Tail(SubSeq(s, k, Len(p))) = SubSeq(s, k + 1, Len(p))
<1> DEFINE s == CreateDirAllSteps(p)
<1>1. Len(p) \in Nat
  BY LenProperties DEF AnyPath
<1>2. \A n \in 1 .. Len(p) :
          /\ Do("ensure_dir", SubSeq(p, 1, n)) \in Items
          /\ Do("ensure_dir", SubSeq(p, 1, n)).do = "ensure_dir"
          /\ Do("ensure_dir", SubSeq(p, 1, n)).path = SubSeq(p, 1, n)
  <2>1. \A n \in 1 .. Len(p) : SubSeq(p, 1, n) \in AnyPath
    BY BelowItsBeginnings
  <2>2. \A b \in AnyPath : /\ Do("ensure_dir", b) \in Items
                          /\ Do("ensure_dir", b).do = "ensure_dir"
                          /\ Do("ensure_dir", b).path = b
    BY DoItem DEF Steps
  <2> QED
    BY <2>1, <2>2
<1>3. /\ s \in Seq(Items) /\ Len(s) = Len(p)
      /\ \A n \in 1 .. Len(p) : s[n] = Do("ensure_dir", SubSeq(p, 1, n))
  BY <1>1, <1>2, IsASeq DEF CreateDirAllSteps
<1> HIDE DEF s
<1>4. Head(SubSeq(s, k, Len(p))) = s[k] /\ Tail(SubSeq(s, k, Len(p))) = SubSeq(s, k + 1, Len(p))
  BY <1>1, <1>3, HeadTailOfSubSeq
<1>5. SubSeq(s, k, Len(p)) # << >>
  <2>1. s \in [1 .. Len(p) -> Items]
    BY <1>3, LenProperties
  <2>2. \A i \in k .. Len(p) : s[i] \in Items
    BY <1>1, <2>1
  <2>3. Len(SubSeq(s, k, Len(p))) = IF k <= Len(p) THEN Len(p) - k + 1 ELSE 0
    BY <1>1, <2>2, SubSeqProperties
  <2>4. Len(SubSeq(s, k, Len(p))) # 0
    BY <1>1, <2>3
  <2> QED
    BY <2>4, EmptySeq
<1> QED
  BY <1>1, <1>2, <1>3, <1>4, <1>5 DEF s

-----------------------------------------------------------------------------
(* Nothing vanishes.                                                        *)

\* The request a busy thread is in is one of its script's.
LEMMA RequestOfScript ==
    ASSUME VTypes, NEW t \in Threads, ThreadFits(t), Busy(t)
    PROVE  \E i \in DOMAIN script[t] : job[t].request = script[t][i]
<1>1. /\ at[t] \in Nat \ {0} /\ at[t] <= Len(script[t]) /\ script[t] \in Seq(Requests)
      /\ job[t].request = script[t][at[t]]
  BY DEF ThreadFits, VTypes, VfsTypeOK
<1>2. at[t] \in DOMAIN script[t]
  BY <1>1, LenProperties
<1> QED
  BY <1>1, <1>2

\* Where no request removes anything, whatever exists keeps existing.
LEMMA NothingVanishes ==
    ASSUME VTypes, NEW t \in Threads, ThreadFits(t), Step(t), NothingIsRemoved,
           NEW p \in Paths, Exists(files, p)
    PROVE  Exists(files', p)
<1>1. /\ Busy(t) /\ UNCHANGED <<script, at>> /\ files \in [Paths -> Entries]
      /\ writer[t] \in Handles(Nat)
  BY StepIsNow DEF Step, VTypes, VfsTypeOK, TypeOK, Maps
<1>2. job[t].request.op \notin RemovingOps /\ Inside(job[t].request, Now(t))
  BY <1>1, RequestOfScript, AgendaType DEF NothingIsRemoved
<1>3. CASE ReadingStep(t)
  BY <1>3 DEF ReadingStep, ParentExists, ParentIsDir, Absent, RemoveDirAll, List, WalkList,
              CopyEntry, NextChild, WalkNext, ExistsCall, Metadata, ReadDir
<1>4. CASE CreateDirStep(t)
  BY <1>1, <1>4 DEF CreateDirStep, CreateDirEnsureParent, CreateDirInsert, Insert,
                    DirectoryEntry, Exists
<1>5. CASE OpenStep(t)
  BY <1>5 DEF OpenStep, OpenFileTouch, OpenFileGet
<1>6. CASE CreateFileStep(t)
  BY <1>1, <1>6 DEF CreateFileStep, CreateFileEnsureParent, CreateFileInsert, Insert,
                    FileEntry, Exists
<1>7. CASE Fill(t)
  BY <1>7 DEF Fill
<1>8. CASE DropStep(t)
  BY <1>1, <1>8 DEF DropStep, Drop, Publish, Insert, FileEntry, Exists
<1>9. ~RemoveFileStep(t) /\ ~RemoveDirStep(t)
  BY <1>2 DEF RemoveFileStep, RemoveDirStep, At, Inside
<1> QED
  BY <1>3, <1>4, <1>5, <1>6, <1>7, <1>8, <1>9 DEF Step, ReadingStep

-----------------------------------------------------------------------------
(* The argument.                                                            *)

\* t's create_dir_all of p has come to its k-th beginning: those before exist.
Made(t, k) ==
    LET p == job[t].request.path IN
    /\ job[t].agenda = SubSeq(CreateDirAllSteps(p), k, Len(p))
    /\ \A n \in 1 .. k - 1 : SubSeq(p, 1, n) \in Paths /\ Exists(files, SubSeq(p, 1, n))

Making(t) ==
    /\ job[t].code = "Ok" /\ ~writer[t].open
    /\ \E k \in 1 .. Len(job[t].request.path) : Made(t, k)

InMaking(t) == Busy(t) /\ job[t].request.op = "create_dir_all"

CInv ==
    /\ VInv
    /\ NothingIsRemoved =>
          /\ Exists(files, Root)
          /\ \A t \in Threads : InMaking(t) => Making(t)

\* A step of a create_dir_all that is making its k-th beginning: the call goes
\* on, or the beginning exists, or a file is in the way.
LEMMA MakingStep ==
    ASSUME VTypes, NEW t \in Threads, ThreadFits(t), Step(t), Exists(files, Root),
           InMaking(t), NEW k \in 1 .. Len(job[t].request.path), Made(t, k), job[t].code = "Ok",
           ~writer[t].open
    PROVE  LET p == job[t].request.path
               b == SubSeq(p, 1, k)
           IN
           /\ b \in Paths /\ writer' = writer
           /\ \A s \in Paths : Exists(files, s) => Exists(files', s)
           /\ \/ job' = job
              \/ /\ Exists(files', b) /\ job'[t].code = "Ok"
                 /\ job'[t].agenda = Tail(job[t].agenda)
              \/ IsFile(files', b) /\ job'[t].agenda = << >>
<1> DEFINE p == job[t].request.path
           b == SubSeq(p, 1, k)
<1>1. /\ p \in AnyPath /\ job \in [Threads -> Jobs] /\ job[t] \in Jobs
      /\ res \in [Threads -> Results] /\ files \in [Paths -> Entries]
      /\ pc \in [Threads -> {"idle"} \cup PendingOps] /\ arg \in [Threads -> Paths]
  BY AgendaType, PathsAreSequences
  DEF InMaking, Requests, AnyPath, VTypes, VfsTypeOK, TypeOK, Maps
<1>2. Busy(t) /\ Now(t).do = "ensure_dir" /\ Now(t).path = b
  BY <1>1, DirsAgenda DEF Made, Now, InMaking
<1>3. CreateDirStep(t)
  BY <1>2 DEF Step, ParentExists, ParentIsDir, Absent, OpenStep, CreateFileStep, Fill,
         DropStep, RemoveFileStep, RemoveDirAll, List, RemoveDirStep, WalkList, CopyEntry,
         NextChild, WalkNext, At
<1>4. /\ CreateDirEnsureParent(t, b) \/ CreateDirInsert(t)
      /\ Settle(t, {"Ok", "DirectoryExists"}, << >>)
  BY <1>2, <1>3 DEF CreateDirStep, Accepted
<1>5. b # Root /\ Exists(files, Parent(b))
  BY <1>1, BeginningsParent DEF Made
<1> HIDE DEF b, p
<1>6. ASSUME Resume(t, << >>)
      PROVE  job'[t].agenda = Tail(job[t].agenda) /\ job'[t].code = "Ok"
  BY <1>1, <1>2, <1>6, AgendaType, ConcatEmptySeq DEF Resume, Jobs
<1>7. ASSUME NEW code, Abort(t, code), writer' = writer
      PROVE  job'[t].agenda = << >>
  BY <1>1, <1>7 DEF Abort, Jobs
<1>8. CASE CreateDirEnsureParent(t, b)
  <2>1. b \in Paths
    BY <1>8, AnyCall DEF CreateDirEnsureParent, Issue, May
  <2>2. pc'[t] = "create_dir" /\ files' = files /\ writer' = writer
    BY <1>1, <1>5, <1>8 DEF CreateDirEnsureParent, HasParent, Proceed
  <2>3. job' = job
    BY <1>4, <2>2 DEF Settle
  <2> QED
    BY <2>1, <2>2, <2>3 DEF b, p
<1>9. CASE CreateDirInsert(t)
  <2>1. arg[t] = b /\ b \in Paths /\ writer' = writer
    BY <1>1, <1>2, <1>9 DEF CreateDirInsert, ThreadFits
  <2>2. CASE Exists(files, b)
    <3>1. /\ files' = files /\ pc'[t] = "idle"
          /\ Told(t).code = IF IsFile(files, b) THEN "FileExists" ELSE "DirectoryExists"
      BY <1>1, <1>9, <2>1, <2>2
      DEF CreateDirInsert, Complete, Return, OccupiedAnswer, Told, Result, Answer
    <3>2. CASE IsFile(files, b)
      <4>1. Abort(t, "FileExists")
        BY <1>4, <3>1, <3>2 DEF Settle
      <4> QED
        BY <1>7, <2>1, <3>1, <3>2, <4>1 DEF b, p
    <3>3. CASE ~IsFile(files, b)
      <4>1. Resume(t, << >>)
        BY <1>4, <3>1, <3>3 DEF Settle
      <4> QED
        BY <1>6, <2>1, <2>2, <3>1, <4>1 DEF b, p
    <3> QED
      BY <3>2, <3>3
  <2>3. CASE ~Exists(files, b)
    <3>1. /\ files' = [files EXCEPT ![b] = DirectoryEntry] /\ pc'[t] = "idle"
          /\ Told(t).code = "Ok"
      BY <1>1, <1>9, <2>1, <2>3
      DEF CreateDirInsert, Complete, Return, Told, Result, Answer, Insert
    <3>2. Exists(files', b) /\ \A s \in Paths : Exists(files, s) => Exists(files', s)
      BY <1>1, <2>1, <3>1 DEF Exists, DirectoryEntry
    <3>3. Resume(t, << >>)
      BY <1>4, <3>1 DEF Settle
    <3> QED
      BY <1>6, <2>1, <3>2, <3>3 DEF b, p
  <2> QED
    BY <2>2, <2>3
<1> QED
  BY <1>4, <1>8, <1>9

LEMMA StepKeepsCInv ==
    ASSUME CInv, NEW t \in Threads, Step(t)
    PROVE  CInv'
<1>1. VInv /\ VInv' /\ VTypes /\ ThreadFits(t) /\ Busy(t) /\ Outcome(t) /\ script' = script
  BY StepKeepsVInv, StepIsNow, StepOutcome DEF CInv, VInv, Step
<1>2. SUFFICES ASSUME NothingIsRemoved
               PROVE  /\ Exists(files', Root)
                      /\ \A u \in Threads : InMaking(u)' => Making(u)'
  BY <1>1 DEF CInv, NothingIsRemoved
<1>3. Exists(files, Root) /\ \A s \in Paths : Exists(files, s) => Exists(files', s)
  BY <1>1, <1>2, NothingVanishes DEF CInv
<1>4. ASSUME NEW u \in Threads \ {t}, InMaking(u)' PROVE Making(u)'
  <2>1. job'[u] = job[u] /\ writer'[u] = writer[u]
    BY <1>1 DEF Outcome, Kept
  <2>2. Making(u)
    BY <1>2, <1>4, <2>1 DEF CInv, InMaking, Busy
  <2>3. ASSUME NEW k \in 1 .. Len(job[u].request.path), Made(u, k) PROVE Made(u, k)'
    BY <1>3, <2>1, <2>3 DEF Made
  <2> QED
    BY <2>1, <2>2, <2>3 DEF Making
<1>5. ASSUME InMaking(t)' PROVE Making(t)'
  <2> DEFINE p == job[t].request.path
  <2>1. job'[t].request = job[t].request
    BY <1>1 DEF Outcome, Kept
  <2>2. InMaking(t) /\ Making(t)
    BY <1>1, <1>2, <1>5, <2>1 DEF CInv, InMaking
  <2>3. PICK k \in 1 .. Len(p) : Made(t, k)
    BY <2>2 DEF Making
  <2>4. /\ SubSeq(p, 1, k) \in Paths /\ writer' = writer
        /\ \/ job' = job
           \/ /\ Exists(files', SubSeq(p, 1, k)) /\ job'[t].code = "Ok"
              /\ job'[t].agenda = Tail(job[t].agenda)
           \/ job'[t].agenda = << >>
    BY <1>1, <1>3, <2>2, <2>3, MakingStep DEF Making
  <2>5. CASE job' = job
    <3>1. Made(t, k)'
      BY <1>3, <2>3, <2>5 DEF Made
    <3> QED
      BY <2>2, <2>3, <2>4, <2>5, <3>1 DEF Making
  <2>6. CASE /\ Exists(files', SubSeq(p, 1, k)) /\ job'[t].code = "Ok"
             /\ job'[t].agenda = Tail(job[t].agenda)
    <3>1. /\ Len(p) \in Nat /\ p \in AnyPath
          /\ job'[t].agenda = SubSeq(CreateDirAllSteps(p), k + 1, Len(p))
      <4>1. p \in AnyPath
        BY <1>1, AgendaType, PathsAreSequences DEF Requests, AnyPath
      <4> QED
        BY <2>3, <2>6, <4>1, DirsAgenda DEF Made
    <3>2. k + 1 \in 1 .. Len(p)
      <4>1. CASE k = Len(p)
        <5>1. SubSeq(CreateDirAllSteps(p), Len(p) + 1, Len(p)) = << >>
          BY <3>1, SubSeqEmpty
        <5> QED
          BY <1>5, <3>1, <4>1, <5>1 DEF InMaking, Busy
      <4> QED
        BY <2>3, <3>1, <4>1
    <3>3. \A n \in 1 .. k : SubSeq(p, 1, n) \in Paths /\ Exists(files', SubSeq(p, 1, n))
      <4>1. \A n \in 1 .. k : n \in 1 .. k - 1 \/ n = k
        BY <3>1
      <4> QED
        BY <1>3, <2>3, <2>4, <2>6, <4>1 DEF Made
    <3>4. Made(t, k + 1)'
      <4>1. (k + 1) - 1 = k
        BY <3>1
      <4> QED
        BY <2>1, <3>1, <3>3, <4>1 DEF Made
    <3> QED
      BY <2>1, <2>2, <2>4, <2>6, <3>2, <3>4 DEF Making
  <2>7. CASE job'[t].agenda = << >>
    BY <1>5, <2>7 DEF InMaking, Busy
  <2> QED
    BY <2>4, <2>5, <2>6, <2>7
<1> QED
  BY <1>3, <1>4, <1>5, PathsAssumption

LEMMA StartKeepsCInv ==
    ASSUME CInv, NEW t \in Threads, Start(t)
    PROVE  CInv'
<1> DEFINE r == script[t][at[t] + 1]
           p == r.path
<1>1. /\ VInv /\ VInv' /\ VTypes /\ VTypes' /\ ThreadFits(t) /\ ~Busy(t)
      /\ job' = [job EXCEPT ![t] = Job(r, StepsOf(r))]
      /\ UNCHANGED <<vars, script, before>>
  BY StartKeepsVInv DEF CInv, VInv, Start
<1>2. SUFFICES ASSUME NothingIsRemoved
               PROVE  /\ Exists(files', Root)
                      /\ \A u \in Threads : InMaking(u)' => Making(u)'
  BY <1>1 DEF CInv, NothingIsRemoved
<1> HIDE DEF r
<1>3. /\ job \in [Threads -> Jobs] /\ job'[t] = Job(r, StepsOf(r))
      /\ \A u \in Threads \ {t} : job'[u] = job[u]
      /\ files' = files /\ writer' = writer /\ pc' = pc
  BY <1>1 DEF VTypes, VfsTypeOK, vars
<1>4. ASSUME NEW u \in Threads \ {t}, InMaking(u)' PROVE Making(u)'
  <2>1. Making(u)
    BY <1>2, <1>3, <1>4 DEF CInv, InMaking, Busy
  <2>2. ASSUME NEW k \in 1 .. Len(job[u].request.path), Made(u, k) PROVE Made(u, k)'
    BY <1>3, <2>2 DEF Made
  <2> QED
    BY <1>3, <2>1, <2>2 DEF Making
<1>5. ASSUME InMaking(t)' PROVE Making(t)'
  <2>1. /\ job'[t].request = r /\ job'[t].agenda = StepsOf(r) /\ job'[t].code = "Ok"
        /\ r.op = "create_dir_all" /\ StepsOf(r) # << >>
    BY <1>3, <1>5 DEF Job, InMaking, Busy
  <2>2. ~writer[t].open
    BY <1>1 DEF ThreadFits, Busy
  <2>3. p \in AnyPath
    <3>1. r \in Requests
      BY <1>1, <2>1 DEF VTypes, VfsTypeOK, Jobs
    <3> QED
      BY <3>1, PathsAreSequences DEF Requests, AnyPath
  <2>4. Len(p) \in Nat /\ StepsOf(r) = CreateDirAllSteps(p)
    BY <2>1, <2>3, LenProperties DEF StepsOf, AnyPath
  <2>5. \A n \in 1 .. Len(p) : Do("ensure_dir", SubSeq(p, 1, n)) \in Items
    <3>1. \A n \in 1 .. Len(p) : SubSeq(p, 1, n) \in AnyPath
      BY <2>3, BelowItsBeginnings
    <3>2. \A b \in AnyPath : Do("ensure_dir", b) \in Items
      BY DoItem DEF Steps
    <3> QED
      BY <3>1, <3>2
  <2>6. CreateDirAllSteps(p) \in Seq(Items) /\ Len(CreateDirAllSteps(p)) = Len(p)
    BY <2>4, <2>5, IsASeq DEF CreateDirAllSteps
  <2>7. StepsOf(r) = SubSeq(CreateDirAllSteps(p), 1, Len(p)) /\ Len(p) # 0
    BY <2>1, <2>4, <2>6, SubSeqFull, EmptySeq
  <2>8. Made(t, 1)'
    <3>1. 1 .. 1 - 1 = {}
      OBVIOUS
    <3> QED
      BY <2>1, <2>7, <3>1 DEF Made
  <2>9. 1 \in 1 .. Len(p)
    BY <2>4, <2>7
  <2> QED
    BY <1>3, <2>1, <2>2, <2>8, <2>9 DEF Making
<1> QED
  BY <1>2, <1>3, <1>4, <1>5 DEF CInv

LEMMA StutterKeepsCInv ==
    ASSUME CInv, UNCHANGED vfsVars
    PROVE  CInv'
<1>1. VInv'
  BY StutterKeepsVInv DEF CInv
<1>2. ASSUME NothingIsRemoved, NEW t \in Threads, InMaking(t)' PROVE Making(t)'
  <2>1. Making(t)
    BY <1>2 DEF CInv, InMaking, Busy, vfsVars, vars
  <2>2. ASSUME NEW k \in 1 .. Len(job[t].request.path), Made(t, k) PROVE Made(t, k)'
    BY <2>2 DEF Made, vfsVars, vars
  <2> QED
    BY <2>1, <2>2 DEF Making, vfsVars, vars
<1> QED
  BY <1>1, <1>2 DEF CInv, NothingIsRemoved, vfsVars, vars

LEMMA InitCInv == VfsInit => CInv
<1> SUFFICES ASSUME VfsInit PROVE CInv
  OBVIOUS
<1>1. VInv
  BY InitVInv
<1>2. Exists(files, Root)
  BY TreesAssumption DEF VfsInit, IsTree, IsDirectory, Exists
<1>3. \A t \in Threads : ~Busy(t)
  BY DEF VfsInit, Busy, Idle, Job
<1> QED
  BY <1>1, <1>2, <1>3 DEF CInv, InMaking

\* The step with which a create_dir_all returns: a file is in the way, or the
\* directory is there and the answer is Ok.
LEMMA MakingReturns ==
    ASSUME CInv, [VfsNext]_vfsVars, NEW t \in Threads, Returns(t, {"create_dir_all"}),
           NothingIsRemoved
    PROVE  LET p == job[t].request.path IN
           \/ \E q \in Paths : Below(p, q) /\ IsFile(files', q)
           \/ job'[t].code = "Ok" /\ IsDirectory(files', p)
<1> DEFINE p == job[t].request.path
<1>1. Busy(t) /\ job'[t].agenda = << >> /\ job[t].request.op = "create_dir_all"
  BY DEF Returns, Busy
<1>2. VInv /\ VTypes /\ ThreadFits(t) /\ Exists(files, Root) /\ Making(t) /\ InMaking(t)
  BY <1>1 DEF CInv, VInv, InMaking
<1>3. Step(t)
  <2>1. CASE UNCHANGED vfsVars
    BY <1>1, <2>1 DEF vfsVars, Busy
  <2>2. ASSUME NEW u \in Threads, Start(u) PROVE FALSE
    <3>1. u # t
      BY <1>1, <2>2 DEF Start
    <3> QED
      BY <1>1, <1>2, <2>2, <3>1 DEF Start, VTypes, VfsTypeOK, Busy
  <2>3. ASSUME NEW u \in Threads \ {t}, Step(u) PROVE FALSE
    BY <1>1, <1>2, <2>3, StepOutcome DEF VInv, Outcome, Kept, Busy
  <2> QED
    BY <2>1, <2>2, <2>3 DEF VfsNext
<1>4. PICK k \in 1 .. Len(p) : Made(t, k)
  BY <1>2 DEF Making
<1>5. p \in Paths /\ p \in AnyPath
  BY <1>1, <1>2, AgendaType, PathsAreSequences DEF Requests, AnyPath
<1>6. /\ SubSeq(p, 1, k) \in Paths
      /\ \/ job' = job
         \/ /\ Exists(files', SubSeq(p, 1, k)) /\ job'[t].code = "Ok"
            /\ job'[t].agenda = Tail(job[t].agenda)
         \/ IsFile(files', SubSeq(p, 1, k)) /\ job'[t].agenda = << >>
  BY <1>2, <1>3, <1>4, MakingStep DEF Making
<1>7. CASE IsFile(files', SubSeq(p, 1, k))
  BY <1>4, <1>5, <1>6, <1>7, BelowItsBeginnings
<1>8. CASE /\ Exists(files', SubSeq(p, 1, k)) /\ job'[t].code = "Ok"
           /\ job'[t].agenda = Tail(job[t].agenda)
  <2>1. Len(p) \in Nat /\ job'[t].agenda = SubSeq(CreateDirAllSteps(p), k + 1, Len(p))
    BY <1>4, <1>5, <1>8, DirsAgenda DEF Made
  <2>2. k = Len(p)
    <3>1. CASE k + 1 \in 1 .. Len(p)
      BY <1>1, <1>5, <2>1, <3>1, DirsAgenda
    <3> QED
      BY <1>4, <2>1, <3>1
  <2>3. SubSeq(p, 1, k) = p
    BY <1>5, <2>2, SubSeqFull DEF AnyPath
  <2>4. files' \in Maps
    BY <1>2, <1>3, StepOutcome DEF Outcome, TypeOK
  <2>5. IsFile(files', p) \/ IsDirectory(files', p)
    BY <1>5, <1>8, <2>3, <2>4, EntryFields DEF Maps, Exists, IsFile, IsDirectory, Kinds
  <2> QED
    BY <1>5, <1>8, <2>5, BelowItself
<1>9. CASE job' = job
  BY <1>1, <1>9 DEF Busy
<1> QED
  BY <1>6, <1>7, <1>8, <1>9

\* create_dir_all in parallel: where nobody removes anything, any number of
\* threads may make directories at and below each other's paths, and write
\* files and copy there; a create_dir_all fails only if a file is in the way,
\* and when it returns Ok its directory is there.
THEOREM ParallelCreateDirAll == VfsSpec => CreateDirAllSucceeds
<1>1. VfsInit => CInv
  BY InitCInv
<1>2. CInv /\ [VfsNext]_vfsVars => CInv'
  BY StepKeepsCInv, StartKeepsCInv, StutterKeepsCInv DEF VfsNext
<1>3. CInv /\ [VfsNext]_vfsVars =>
         [\A t \in Threads : Returns(t, {"create_dir_all"}) /\ NothingIsRemoved =>
             LET p == job[t].request.path IN
             \/ \E q \in Paths : Below(p, q) /\ IsFile(files', q)
             \/ job'[t].code = "Ok" /\ IsDirectory(files', p)]_vfsVars
  BY MakingReturns
<1> QED
  BY <1>1, <1>2, <1>3, PTL DEF VfsSpec, CreateDirAllSucceeds

=============================================================================
