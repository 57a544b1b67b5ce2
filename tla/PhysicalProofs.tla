----------------------------- MODULE PhysicalProofs -----------------------------
(* Theorems about PhysicalFS and the altroot in it, for any threads and tasks, *)
(* scripts, directories and devices.                                           *)
EXTENDS PhysicalClients, FsTreeProofs

-----------------------------------------------------------------------------
(* The inductive invariant.                                                 *)

Makings == {"create_dir", "ensure_dir", "kind_there", "kind_ensured", "create_file", "open_append"}
Removals == {"remove_file", "remove_dir", "remove_dir_all", "list", "children"}
Renames == {"rename", "rename_dir"}
Looks == {"kind_there", "kind_ensured"}
Openings == {"create_file", "open_append", "os_copy"}
Writings == {"write", "copy_some", "copy_rest", "os_some", "os_rest"}

\* The directories and entries a step has yet to look at.
Ahead(it) == it.left \cup {it.todo[i] : i \in DOMAIN it.todo}

\* Where a request may make something: what it copies or moves it makes below
\* its destination.
Makes(r) == {s \in Reach(r) : r.op \in CopyingOps => Below(s, Named(r.dest))}

\* The step is one of request r's: whatever it changes, r may change.
Fits(r, it) ==
    /\ it.do \in Makings => Os(it.path) \in Makes(r)
    /\ it.do = "os_copy" => Os(it.dest) \in Makes(r)
    /\ it.do \in Renames => r.op \in MovingOps /\ it.path = r.path /\ it.dest = r.dest
    /\ it.do \in Removals =>
          /\ r.op \in RemovingOps
          /\ Below(Os(it.path), Os(r.path))
          /\ \A c \in it.left : Below(Os(c), Os(r.path))
    /\ it.do = "walk" =>
          /\ r.op \in CopyingOps
          /\ it.path = r.path /\ it.dest = r.dest
          /\ it.left # {} \/ it.todo # << >>
          /\ \A c \in Ahead(it) : c.fs = r.path.fs /\ Below(c.path, r.path.path)
    /\ it.do = "copy_entry" => r.op \in CopyingOps /\ Below(Os(it.dest), Os(r.dest))
    /\ r.op = "append_file" => it \in {Do("open_append", r.path), Do("write", r.path)}

FittingItems(r) == {it \in Items : Fits(r, it)}

\* The three parts of std::fs::copy stay together.
Together(s) ==
    \A i \in DOMAIN s :
        /\ s[i].do = "os_copy" =>
              i + 2 \in DOMAIN s /\ s[i + 1].do = "os_some" /\ s[i + 2].do = "os_rest"
        /\ s[i].do = "os_some" => i + 1 \in DOMAIN s /\ s[i + 1].do = "os_rest"

\* Nobody writes before he has opened a file.
OpensFirst(s, open) ==
    \A i \in DOMAIN s : s[i].do \in Writings =>
        open \/ \E j \in DOMAIN s : j < i /\ s[j].do \in Openings

LooksFirst(s) == \A i \in DOMAIN s : s[i].do \in Looks => i = 1

AgendaOK(r, s, open) ==
    s \in Seq(FittingItems(r)) /\ Together(s) /\ OpensFirst(s, open) /\ LooksFirst(s)

AgendasOK == \A a \in Actors : AgendaOK(job[a].request, job[a].agenda, hold[a].dst.open)

\* Whose requests the actors are in.
TasksAreAsked ==
    \A t \in Tasks :
        /\ at[t] \in 0 .. Len(script[t])
        /\ at[t] > 0 => job[t].request = script[t][at[t]]
        /\ Busy(t) => at[t] > 0

StragglersAreAsked ==
    \A t \in Async : Busy(Straggler[t]) =>
        \E i \in 1 .. at[t] :
            script[t][i] = job[Straggler[t]].request /\ (Busy(t) => i < at[t])

\* Another call than the one a is in removes something that one makes.
Raced(a) ==
    \E u \in Tasks : \E i \in 1 .. at[u] :
        /\ u # a \/ i < at[a]
        /\ script[u][i].op \in RemovingOps
        /\ Reach(script[u][i]) \cap Reach(job[a].request) # {}

PanicsAreRaced ==
    \A a \in Actors :
        /\ At(a, Looks) /\ ~Exists(disk, Os(Now(a).path)) => Raced(a)
        /\ job[a].end = "panicked" => Raced(a)

\* Only append_file is asked for at p.
OnlyAppended(p) ==
    \A u \in Tasks : \A i \in DOMAIN script[u] :
        p \in Reach(script[u][i]) => script[u][i].op = "append_file"

AppendsAt(h, p) == h.open /\ h.path = p /\ ~h.gone /\ h.appending

IsStart(s, c) == Len(s) <= Len(c) /\ SubSeq(c, 1, Len(s)) = s

ContentGrows ==
    \A p \in Paths : OnlyAppended(p) =>
        /\ IsStart(before[p].content, disk[p].content)
        /\ \A a \in Actors :
              LET h == hold[a].dst IN h.open /\ h.path = p /\ ~h.gone => h.appending

\* data is in c, behind the first n bytes.
Holds(c, n, data) ==
    \E i \in n .. Len(c) - Len(data) : SubSeq(c, i + 1, i + Len(data)) = data

AppendPhases ==
    \A t \in Tasks :
        LET r == job[t].request
            p == Os(r.path) IN
        at[t] > 0 /\ r.op = "append_file" =>
            \/ job[t].agenda = AppendFileSteps(r.path)
            \/ /\ job[t].agenda = <<Do("write", r.path)>>
               /\ OnlyAppended(p) => AppendsAt(hold[t].dst, p)
            \/ /\ job[t].agenda = << >>
               /\ OnlyAppended(p) /\ job[t].end = "returned" /\ job[t].answer.code = "Ok" =>
                     Holds(disk[p].content, Len(before[p].content), r.data)

PInv ==
    /\ DiskTypeOK
    /\ script \in Scripts /\ before \in Trees
    /\ AgendasOK
    /\ TasksAreAsked
    /\ StragglersAreAsked
    /\ PanicsAreRaced
    /\ ContentGrows
    /\ AppendPhases

-----------------------------------------------------------------------------
(* Places and the paths of the disk they end at.                            *)

AnyPlaces == [fs : {"physical", "altroot"}, path : AnyPath]

\* The directory of the disk a file system is rooted in.
Base(h) == PhysRoot \o (IF h.fs = "altroot" THEN AltRoot ELSE Root)

LEMMA PlaceFields ==
    ASSUME NEW h \in Places
    PROVE  h \in AnyPlaces /\ h.path \in AnyPath /\ Os(h) \in Paths
BY DEF Places, AnyPlaces

LEMMA RootsArePaths ==
    PhysRoot \in AnyPath /\ AltRoot \in AnyPath /\ Root \in AnyPath
<1>1. Root \in Paths
  BY PathsAssumption
<1> QED
  BY <1>1, RootsAssumption, PathsAreSequences

\* A place ends at its path below the base of its file system, which is what a
\* client means by it.
LEMMA OsPaths ==
    ASSUME NEW h \in AnyPlaces
    PROVE  /\ Base(h) \in AnyPath /\ Real(h) \in AnyPath
           /\ Os(h) = Base(h) \o h.path /\ Named(h) = Os(h) /\ Os(h) \in AnyPath
<1>1. h.path \in AnyPath
  BY DEF AnyPlaces
<1>2. Base(h) \in AnyPath
  BY RootsArePaths, JoinedPath DEF Base
<1>3. CASE h.fs = "altroot"
  <2>1. Real(h) = AltRoot \o h.path
    BY <1>3 DEF Real, AltPath
  <2>2. Os(h) = PhysRoot \o (AltRoot \o h.path)
    BY <2>1 DEF Os, OsPath
  <2>3. (PhysRoot \o AltRoot) \o h.path = PhysRoot \o (AltRoot \o h.path)
    BY <1>1, RootsArePaths, JoinAssociates
  <2>4. Base(h) = PhysRoot \o AltRoot
    BY <1>3 DEF Base
  <2>5. Named(h) = (PhysRoot \o AltRoot) \o h.path
    BY <1>3 DEF Named
  <2>6. AltRoot \o h.path \in AnyPath /\ PhysRoot \o (AltRoot \o h.path) \in AnyPath
    BY <1>1, RootsArePaths, JoinedPath
  <2> QED
    BY <1>2, <2>1, <2>2, <2>3, <2>4, <2>5, <2>6
<1>4. CASE h.fs # "altroot"
  <2>1. Real(h) = h.path /\ Os(h) = PhysRoot \o h.path
    BY <1>4 DEF Real, Os, OsPath
  <2>2. PhysRoot \o Root = PhysRoot
    BY RootsArePaths, JoinWithRoot
  <2>3. Base(h) = PhysRoot /\ Named(h) = PhysRoot \o h.path
    BY <1>4, <2>2 DEF Base, Named
  <2>4. PhysRoot \o h.path \in AnyPath
    BY <1>1, RootsArePaths, JoinedPath
  <2> QED
    BY <1>1, <1>2, <2>1, <2>3, <2>4
<1> QED
  BY <1>3, <1>4

\* Another path on the same file system.
LEMMA SameBase ==
    ASSUME NEW h \in AnyPlaces, NEW p \in AnyPath
    PROVE  LET g == [h EXCEPT !.path = p] IN
           /\ g \in AnyPlaces /\ g.fs = h.fs /\ g.path = p
           /\ Base(g) = Base(h) /\ Os(g) = Base(h) \o p
<1> DEFINE g == [h EXCEPT !.path = p]
<1>1. g \in AnyPlaces /\ g.fs = h.fs /\ g.path = p
  BY DEF AnyPlaces
<1>2. Base(g) = Base(h)
  BY <1>1 DEF Base
<1> QED
  BY <1>1, <1>2, OsPaths

\* The parent of a joined path.
LEMMA ParentOfJoined ==
    ASSUME NEW b \in AnyPath, NEW p \in AnyPath, p # Root
    PROVE  Parent(b \o p) = b \o Parent(p) /\ b \o p # Root
<1> DEFINE x == b \o p
           y == b \o Parent(p)
<1>1. /\ Len(b) \in Nat /\ Len(p) \in Nat \ {0} /\ x \in AnyPath /\ Len(x) = Len(b) + Len(p)
      /\ \A i \in 1 .. Len(b) + Len(p) : x[i] = IF i <= Len(b) THEN b[i] ELSE p[i - Len(b)]
  BY JoinedPath, ParentIsShorter
<1>2. /\ Parent(p) \in AnyPath /\ Len(Parent(p)) = Len(p) - 1
      /\ \A i \in 1 .. Len(p) - 1 : Parent(p)[i] = p[i]
  BY ParentIsShorter
<1>3. /\ y \in AnyPath /\ Len(y) = Len(b) + (Len(p) - 1)
      /\ \A i \in 1 .. Len(b) + (Len(p) - 1) :
            y[i] = IF i <= Len(b) THEN b[i] ELSE Parent(p)[i - Len(b)]
  <2>1. /\ y \in AnyPath /\ Len(y) = Len(b) + Len(Parent(p))
        /\ \A i \in 1 .. Len(b) + Len(Parent(p)) :
              y[i] = IF i <= Len(b) THEN b[i] ELSE Parent(p)[i - Len(b)]
    BY <1>2, JoinedPath
  <2> HIDE DEF y
  <2> QED
    BY <1>2, <2>1
<1> HIDE DEF x, y
<1>4. x # Root
  BY <1>1, EmptySeq DEF Root
<1>5. /\ Parent(x) \in AnyPath /\ Len(Parent(x)) = Len(x) - 1
      /\ \A i \in 1 .. Len(x) - 1 : Parent(x)[i] = x[i]
  BY <1>1, <1>4, ParentIsShorter
<1>6. ASSUME NEW i \in 1 .. Len(x) - 1 PROVE Parent(x)[i] = y[i]
  <2>1. i \in 1 .. Len(b) + Len(p) /\ i \in 1 .. Len(b) + (Len(p) - 1)
    BY <1>1
  <2>2. /\ Parent(x)[i] = x[i]
        /\ x[i] = IF i <= Len(b) THEN b[i] ELSE p[i - Len(b)]
        /\ y[i] = IF i <= Len(b) THEN b[i] ELSE Parent(p)[i - Len(b)]
    BY <1>1, <1>3, <1>5, <2>1
  <2>3. CASE i > Len(b)
    <3>1. i - Len(b) \in 1 .. Len(p) - 1
      BY <1>1, <2>1, <2>3
    <3>2. Parent(p)[i - Len(b)] = p[i - Len(b)]
      BY <1>2, <3>1
    <3> QED
      BY <1>1, <2>2, <2>3, <3>2
  <2> QED
    BY <1>1, <2>2, <2>3
<1>7. Len(Parent(x)) = Len(y)
  BY <1>1, <1>3, <1>5
<1>8. Parent(x) = y
  BY <1>3, <1>5, <1>6, <1>7, SeqEqual DEF AnyPath
<1> QED
  BY <1>4, <1>8 DEF x, y

\* A place on the PhysicalFS below an altroot's, and the parents of both.
LEMMA PlacesAreClosed ==
    ASSUME NEW h \in Places
    PROVE  /\ Up(h) \in Places
           /\ OnDisk(Real(h)) \in Places /\ Os(OnDisk(Real(h))) = Os(h)
<1>1. h \in AnyPlaces /\ h.path \in AnyPath /\ Os(h) \in Paths /\ Base(h) \in AnyPath
      /\ Os(h) = Base(h) \o h.path /\ Real(h) \in AnyPath
  BY PlaceFields, OsPaths
<1>2. Up(h) \in Places
  <2>1. CASE h.path = Root
    <3>1. Up(h) = h
      BY <1>1, <2>1 DEF Up, Parent, AnyPlaces
    <3> QED
      BY <3>1
  <2>2. CASE h.path # Root
    <3>1. Parent(h.path) \in AnyPath
      BY <1>1, <2>2, ParentIsShorter
    <3>2. Up(h) \in AnyPlaces /\ Os(Up(h)) = Base(h) \o Parent(h.path)
      BY <1>1, <3>1, SameBase DEF Up
    <3>3. Os(Up(h)) \in Paths
      <4>1. Parent(Os(h)) = Os(Up(h))
        BY <1>1, <2>2, <3>2, ParentOfJoined
      <4> QED
        BY <1>1, <4>1, PathsAssumption
    <3> QED
      BY <3>2, <3>3 DEF Places, AnyPlaces
  <2> QED
    BY <2>1, <2>2
<1>3. OnDisk(Real(h)) \in AnyPlaces
  BY <1>1 DEF OnDisk, AnyPlaces
<1>4. Real(OnDisk(Real(h))) = Real(h)
  BY DEF Real, OnDisk
<1> QED
  BY <1>1, <1>2, <1>3, <1>4 DEF Os, Places, AnyPlaces

\* The beginnings of a place's path.
LEMMA BeginningsArePlaces ==
    ASSUME NEW h \in Places, NEW n \in 1 .. Len(h.path)
    PROVE  LET g == [h EXCEPT !.path = SubSeq(@, 1, n)] IN
           g \in Places /\ g.fs = h.fs /\ Below(Os(h), Os(g)) /\ Below(Os(g), Base(h))
<1> DEFINE p == SubSeq(h.path, 1, n)
           g == [h EXCEPT !.path = p]
           Inner == {q \in AnyPath : Base(h) \o q \in Paths}
<1>1. h \in AnyPlaces /\ h.path \in AnyPath /\ Os(h) \in Paths /\ Base(h) \in AnyPath
      /\ Os(h) = Base(h) \o h.path
  BY PlaceFields, OsPaths
<1>2. p \in AnyPath /\ Below(h.path, p)
  BY <1>1, BelowItsBeginnings
<1>3. ASSUME NEW q \in Inner \ {Root} PROVE Parent(q) \in Inner
  BY <1>1, <1>3, ParentOfJoined, ParentIsShorter, PathsAssumption
<1>4. /\ Root \in AnyPath /\ Base(h) \o Root = Base(h)
      /\ Base(h) \in Beginnings(Os(h)) /\ Below(p, Root)
  BY <1>1, <1>2, JoinWithRoot, JoinedIsBelow
<1>5. CASE Root \in Inner
  <2>1. h.path \in Inner
    BY <1>1
  <2>2. Beginnings(h.path) \subseteq Inner
    BY <1>3, <1>5, <2>1, Upwards
  <2>3. p \in Beginnings(h.path)
    <3>1. n \in 0 .. Len(h.path)
      BY <1>1 DEF AnyPath
    <3> QED
      BY <3>1 DEF Beginnings
  <2>4. Base(h) \o p \in Paths
    BY <2>2, <2>3
  <2>5. g \in AnyPlaces /\ g.fs = h.fs /\ Os(g) = Base(h) \o p
    BY <1>1, <1>2, SameBase
  <2>6. Below(Os(h), Os(g))
    BY <1>1, <1>2, <2>5, JoinKeepsBelow
  <2>7. Below(Os(g), Base(h))
    BY <1>1, <1>2, <2>5, JoinedIsBelow
  <2> QED
    BY <2>4, <2>5, <2>6, <2>7 DEF Places, AnyPlaces
<1>6. Root \in Inner
  BY <1>1, <1>4, BeginningsArePaths
<1> QED
  BY <1>5, <1>6

\* The paths a PhysicalFS lists, and the places made of them.
LEMMA ListedPlaces ==
    ASSUME NEW f, NEW h \in Places, NEW q \in Children(f, Os(h))
    PROVE  LET e == SubSeq(q, Len(PhysRoot) + 1, Len(q))
               child == [h EXCEPT !.path = Append(@, e[Len(e)])]
           IN  /\ e \in AnyPath
               /\ child \in Places /\ child.fs = h.fs /\ Os(child) = q
               /\ Below(child.path, h.path) /\ Below(Os(child), Os(h))
<1> DEFINE e == SubSeq(q, Len(PhysRoot) + 1, Len(q))
           x == q[Len(q)]
<1>1. h \in AnyPlaces /\ h.path \in AnyPath /\ Base(h) \in AnyPath /\ Real(h) \in AnyPath
      /\ Os(h) = Base(h) \o h.path /\ Os(h) \in AnyPath
  BY PlaceFields, OsPaths
<1>2. q \in Paths /\ q \in AnyPath /\ q # Root /\ Parent(q) = Os(h)
  BY PathsAreSequences DEF Children
<1>3. /\ Len(q) \in Nat \ {0} /\ Len(Os(h)) = Len(q) - 1
  BY <1>2, ParentIsShorter
<1>4. Len(PhysRoot) \in Nat /\ Len(Os(h)) = Len(PhysRoot) + Len(Real(h)) /\ Len(Real(h)) \in Nat
  BY <1>1, RootsArePaths, JoinedPath DEF Os, OsPath
<1>5. PICK n \in Nat \ {0} : Len(q) = Len(PhysRoot) + n
  BY <1>3, <1>4
<1>6. e \in AnyPath /\ Len(e) = n /\ e[n] = x
  <2>1. \A i \in Len(PhysRoot) + 1 .. Len(q) : q[i] \in Names
    BY <1>2, <1>3, <1>4, ElementOfSeq DEF AnyPath
  <2>2. /\ e \in Seq(Names)
        /\ Len(e) = Len(q) - (Len(PhysRoot) + 1) + 1
        /\ \A i \in 1 .. Len(q) - (Len(PhysRoot) + 1) + 1 : e[i] = q[Len(PhysRoot) + 1 + i - 1]
    <3>1. Len(PhysRoot) + 1 \in Int /\ Len(q) \in Int /\ Len(PhysRoot) + 1 <= Len(q)
      BY <1>3, <1>4, <1>5
    <3> QED
      BY <2>1, <3>1, SubSeqProperties
  <2> HIDE DEF e
  <2>3. Len(e) = n /\ n \in 1 .. Len(q) - (Len(PhysRoot) + 1) + 1 /\ Len(PhysRoot) + 1 + n - 1 = Len(q)
    BY <1>3, <1>4, <1>5, <2>2
  <2> QED
    BY <2>2, <2>3 DEF AnyPath
<1>7. x \in Names /\ <<x>> \in AnyPath /\ q = Os(h) \o <<x>>
  BY <1>2, LastName
<1> HIDE DEF e, x
<1>8. Append(h.path, x) = h.path \o <<x>> /\ h.path \o <<x>> \in AnyPath
  BY <1>1, <1>7, AppendIsConcat, JoinedPath DEF AnyPath
<1> DEFINE child == [h EXCEPT !.path = h.path \o <<x>>]
<1>9. child \in AnyPlaces /\ child.fs = h.fs /\ child.path = h.path \o <<x>>
      /\ Os(child) = Base(h) \o (h.path \o <<x>>)
  BY <1>1, <1>8, SameBase
<1>10. Os(child) = q
  <2>1. \A b, s \in AnyPath : (b \o h.path) \o s = b \o (h.path \o s)
    BY <1>1, JoinAssociates
  <2> QED
    BY <1>1, <1>7, <1>9, <2>1
<1>11. Below(child.path, h.path) /\ Below(Os(child), Os(h))
  BY <1>1, <1>7, <1>9, <1>10, JoinedIsBelow
<1>12. child \in Places
  BY <1>2, <1>9, <1>10 DEF Places, AnyPlaces
<1> HIDE DEF child
<1>13. [h EXCEPT !.path = Append(@, e[Len(e)])] = child
  BY <1>6, <1>8 DEF child
<1> QED
  BY <1>6, <1>9, <1>10, <1>11, <1>12, <1>13 DEF e

\* The target of a copied entry.
LEMMA RebasedPlaces ==
    ASSUME NEW c \in AnyPlaces, NEW h \in AnyPlaces, NEW g \in AnyPlaces,
           c.fs = h.fs, Below(c.path, h.path)
    PROVE  LET t == [g EXCEPT !.path = Rebase(c.path, h.path, @)] IN
           /\ t \in AnyPlaces /\ t.fs = g.fs
           /\ Below(Os(c), Os(h)) /\ Below(Os(t), Os(g))
           /\ Os(t) = Rebase(Os(c), Os(h), Os(g))
<1> DEFINE p == Rebase(c.path, h.path, g.path)
           t == [g EXCEPT !.path = p]
<1>1. /\ c.path \in AnyPath /\ h.path \in AnyPath /\ g.path \in AnyPath
      /\ Base(h) \in AnyPath /\ Base(g) \in AnyPath /\ Base(c) = Base(h)
      /\ Os(c) = Base(h) \o c.path /\ Os(h) = Base(h) \o h.path /\ Os(g) = Base(g) \o g.path
      /\ Os(g) \in AnyPath
  BY OsPaths DEF AnyPlaces, Base
<1>2. p \in AnyPath /\ Below(p, g.path)
  BY <1>1, RebasedIsBelow
<1>3. t \in AnyPlaces /\ t.fs = g.fs /\ Os(t) = Base(g) \o p
  BY <1>2, SameBase
<1>4. Below(Os(c), Os(h)) /\ Below(Os(t), Os(g))
  BY <1>1, <1>2, <1>3, JoinKeepsBelow
<1>5. Os(t) = Rebase(Os(c), Os(h), Os(g))
  <2> DEFINE rest == SubSeq(c.path, Len(h.path) + 1, Len(c.path))
  <2>1. rest \in AnyPath
    BY <1>1 DEF AnyPath
  <2>2. p = g.path \o rest
    BY DEF Rebase
  <2>3. Base(g) \o p = Os(g) \o rest
    <3>1. \A b, s \in AnyPath : (b \o g.path) \o s = b \o (g.path \o s)
      BY <1>1, JoinAssociates
    <3> HIDE DEF rest, p
    <3> QED
      BY <1>1, <2>1, <2>2, <3>1
  <2>4. Os(g) \o rest = Rebase(c.path, h.path, Os(g))
    BY DEF Rebase
  <2>5. \A b, x, y, z \in AnyPath : Below(x, y) => Rebase(b \o x, b \o y, z) = Rebase(x, y, z)
    BY RebaseOfJoined
  <2>6. Rebase(Os(c), Os(h), Os(g)) = Rebase(c.path, h.path, Os(g))
    BY <1>1, <2>5
  <2> QED
    BY <1>3, <2>3, <2>4, <2>6
<1> QED
  BY <1>3, <1>4, <1>5

-----------------------------------------------------------------------------
(* Agendas.                                                                 *)

Opens(s) == \E i \in DOMAIN s : s[i].do \in Openings

\* Steps to go on with.
Sound(r, s, open) ==
    /\ s \in Seq(FittingItems(r))
    /\ Together(s)
    /\ OpensFirst(s, open)
    /\ \A i \in DOMAIN s : s[i].do \notin Looks

\* Steps that neither write nor belong to a std::fs::copy.
Plain == Steps \ (Writings \cup Looks \cup {"os_copy"})

LEMMA PlainIsSound ==
    ASSUME NEW r, NEW s \in Seq(FittingItems(r)), \A i \in DOMAIN s : s[i].do \in Plain
    PROVE  Sound(r, s, FALSE)
BY DEF Sound, Together, OpensFirst, Plain, Writings

LEMMA NothingIsSound == \A r, o : Sound(r, << >>, o)
<1>1. TAKE r, o
<1>2. << >> \in Seq(FittingItems(r)) /\ DOMAIN << >> = {}
  BY EmptySeq
<1> QED
  BY <1>2 DEF Sound, Together, OpensFirst

LEMMA OneIsSound ==
    ASSUME NEW r, NEW it \in FittingItems(r)
    PROVE  /\ it.do \in Plain => Sound(r, <<it>>, FALSE)
           /\ it.do \in {"write", "copy_some", "copy_rest", "os_rest"} => Sound(r, <<it>>, TRUE)
<1>1. <<it>> \in Seq(FittingItems(r)) /\ DOMAIN <<it>> = {1} /\ <<it>>[1] = it
  OBVIOUS
<1> QED
  BY <1>1, PlainIsSound DEF Sound, Together, OpensFirst, Looks

\* One agenda after another; the second may count on what the first has opened.
LEMMA ConcatIsSound ==
    ASSUME NEW r, NEW s, NEW t, NEW o \in BOOLEAN, NEW u \in BOOLEAN,
           Sound(r, s, o), Sound(r, t, u), u => o \/ Opens(s)
    PROVE  Sound(r, s \o t, o) /\ (Opens(s) \/ Opens(t) => Opens(s \o t))
<1> DEFINE F == FittingItems(r)
           c == s \o t
<1>1. s \in Seq(F) /\ t \in Seq(F)
  BY DEF Sound
<1>2. /\ c \in Seq(F)
      /\ Len(s) \in Nat /\ Len(t) \in Nat
      /\ DOMAIN s = 1 .. Len(s) /\ DOMAIN t = 1 .. Len(t) /\ DOMAIN c = 1 .. Len(s) + Len(t)
      /\ \A i \in 1 .. Len(s) + Len(t) : c[i] = IF i <= Len(s) THEN s[i] ELSE t[i - Len(s)]
  BY <1>1, ConcatProperties, LenProperties
<1> HIDE DEF F, c
<1>3. \A i \in DOMAIN s : i \in DOMAIN c /\ c[i] = s[i]
  BY <1>2
<1>4. \A i \in DOMAIN t : Len(s) + i \in DOMAIN c /\ c[Len(s) + i] = t[i]
  <2>1. TAKE i \in DOMAIN t
  <2>2. Len(s) + i \in 1 .. Len(s) + Len(t) /\ ~(Len(s) + i <= Len(s)) /\ Len(s) + i - Len(s) = i
    BY <1>2
  <2> QED
    BY <1>2, <2>2
<1>5. ASSUME NEW i \in DOMAIN c
      PROVE  i \in DOMAIN s \/ \E k \in DOMAIN t : i = Len(s) + k
  <2>1. CASE i > Len(s)
    <3>1. i - Len(s) \in DOMAIN t /\ i = Len(s) + (i - Len(s))
      BY <1>2, <2>1
    <3> QED
      BY <3>1
  <2> QED
    BY <1>2, <2>1
<1>6. Together(c)
  <2>1. ASSUME NEW i \in DOMAIN s
        PROVE  /\ c[i].do = "os_copy" =>
                     i + 2 \in DOMAIN c /\ c[i + 1].do = "os_some" /\ c[i + 2].do = "os_rest"
               /\ c[i].do = "os_some" => i + 1 \in DOMAIN c /\ c[i + 1].do = "os_rest"
    <3>1. i + 2 \in DOMAIN s => i + 1 \in DOMAIN s
      BY <1>2
    <3> QED
      BY <1>3, <3>1 DEF Sound, Together
  <2>2. ASSUME NEW k \in DOMAIN t
        PROVE  LET i == Len(s) + k IN
               /\ c[i].do = "os_copy" =>
                     i + 2 \in DOMAIN c /\ c[i + 1].do = "os_some" /\ c[i + 2].do = "os_rest"
               /\ c[i].do = "os_some" => i + 1 \in DOMAIN c /\ c[i + 1].do = "os_rest"
    <3>1. /\ k + 2 \in DOMAIN t => k + 1 \in DOMAIN t
          /\ Len(s) + k + 1 = Len(s) + (k + 1) /\ Len(s) + k + 2 = Len(s) + (k + 2)
      BY <1>2
    <3>2. /\ t[k].do = "os_copy" =>
                k + 2 \in DOMAIN t /\ t[k + 1].do = "os_some" /\ t[k + 2].do = "os_rest"
          /\ t[k].do = "os_some" => k + 1 \in DOMAIN t /\ t[k + 1].do = "os_rest"
      BY DEF Sound, Together
    <3> QED
      BY <1>4, <3>1, <3>2
  <2> QED
    BY <1>5, <2>1, <2>2 DEF Together
<1>7. OpensFirst(c, o)
  <2> SUFFICES ASSUME NEW i \in DOMAIN c, c[i].do \in Writings, ~o
               PROVE  \E j \in DOMAIN c : j < i /\ c[j].do \in Openings
    BY DEF OpensFirst
  <2>1. CASE i \in DOMAIN s
    <3>1. PICK j \in DOMAIN s : j < i /\ s[j].do \in Openings
      BY <1>3, <2>1 DEF Sound, OpensFirst
    <3> QED
      BY <1>3, <3>1
  <2>2. ASSUME NEW k \in DOMAIN t, i = Len(s) + k
        PROVE  \E j \in DOMAIN c : j < i /\ c[j].do \in Openings
    <3>1. t[k].do \in Writings
      BY <1>4, <2>2
    <3>2. CASE u
      <4>1. PICK j \in DOMAIN s : s[j].do \in Openings
        BY <3>2 DEF Opens
      <4>2. j < i
        BY <1>2, <2>2
      <4> QED
        BY <1>3, <4>1, <4>2
    <3>3. CASE ~u
      <4>1. PICK j \in DOMAIN t : j < k /\ t[j].do \in Openings
        BY <3>1, <3>3 DEF Sound, OpensFirst
      <4>2. Len(s) + j < i
        BY <1>2, <2>2, <4>1
      <4> QED
        BY <1>4, <4>1, <4>2
    <3> QED
      BY <3>2, <3>3
  <2> QED
    BY <1>5, <2>1, <2>2
<1>8. \A i \in DOMAIN c : c[i].do \notin Looks
  BY <1>3, <1>4, <1>5 DEF Sound
<1>9. Opens(s) \/ Opens(t) => Opens(c)
  BY <1>3, <1>4 DEF Opens
<1> QED
  BY <1>2, <1>6, <1>7, <1>8, <1>9 DEF Sound, F, c

\* What is left when the first step is struck off.
LEMMA TailIsSound ==
    ASSUME NEW r, NEW s, NEW o \in BOOLEAN, AgendaOK(r, s, o), s # << >>
    PROVE  /\ Head(s) \in FittingItems(r)
           /\ Sound(r, Tail(s), o \/ Head(s).do \in Openings)
           /\ Head(s).do \in Writings => o
<1> DEFINE F == FittingItems(r)
           t == Tail(s)
           u == o \/ Head(s).do \in Openings
<1>1. /\ s \in Seq(F) /\ Len(s) \in Nat \ {0} /\ DOMAIN s = 1 .. Len(s)
      /\ t \in Seq(F) /\ Len(t) = Len(s) - 1 /\ DOMAIN t = 1 .. Len(s) - 1
      /\ Head(s) \in F
  BY EmptySeq, LenProperties, HeadTailProperties DEF AgendaOK
<1>2. Head(s) = s[1] /\ \A i \in 1 .. Len(s) - 1 : t[i] = s[i + 1]
  BY <1>1
<1> HIDE DEF F, t, u
<1>3. ASSUME NEW i \in DOMAIN t
      PROVE  i + 1 \in DOMAIN s /\ t[i] = s[i + 1] /\ i + 1 # 1
  BY <1>1, <1>2
<1>4. ASSUME NEW i \in DOMAIN s, i # 1 PROVE i - 1 \in DOMAIN t /\ t[i - 1] = s[i]
  <2>1. i - 1 \in 1 .. Len(s) - 1 /\ i - 1 + 1 = i
    BY <1>1, <1>4
  <2> QED
    BY <1>1, <1>2, <2>1
<1>5. Together(t)
  <2> SUFFICES ASSUME NEW i \in DOMAIN t
               PROVE  /\ t[i].do = "os_copy" => /\ i + 2 \in DOMAIN t
                                                /\ t[i + 1].do = "os_some"
                                                /\ t[i + 2].do = "os_rest"
                      /\ t[i].do = "os_some" => i + 1 \in DOMAIN t /\ t[i + 1].do = "os_rest"
    BY DEF Together
  <2>1. /\ s[i + 1].do = "os_copy" => /\ i + 1 + 2 \in DOMAIN s
                                      /\ s[i + 1 + 1].do = "os_some"
                                      /\ s[i + 1 + 2].do = "os_rest"
        /\ s[i + 1].do = "os_some" => i + 1 + 1 \in DOMAIN s /\ s[i + 1 + 1].do = "os_rest"
    BY <1>3 DEF AgendaOK, Together
  <2>2. /\ i + 1 + 2 \in DOMAIN s => i + 2 \in DOMAIN t /\ i + 1 \in DOMAIN t
        /\ i + 1 + 1 \in DOMAIN s => i + 1 \in DOMAIN t
        /\ i + 1 + 2 = i + 2 + 1
    BY <1>1
  <2> QED
    BY <1>3, <2>1, <2>2
<1>6. OpensFirst(t, u)
  <2> SUFFICES ASSUME NEW i \in DOMAIN t, t[i].do \in Writings, ~u
               PROVE  \E j \in DOMAIN t : j < i /\ t[j].do \in Openings
    BY DEF OpensFirst
  <2>1. i \in Nat /\ s[i + 1].do \in Writings /\ i + 1 \in DOMAIN s
    BY <1>1, <1>3
  <2>2. PICK j \in DOMAIN s : j < i + 1 /\ s[j].do \in Openings
    BY <2>1 DEF AgendaOK, OpensFirst, u
  <2>3. j # 1
    BY <1>2, <2>2 DEF u
  <2>4. j - 1 < i
    BY <1>1, <2>1, <2>2
  <2> QED
    BY <1>4, <2>2, <2>3, <2>4
<1>7. \A i \in DOMAIN t : t[i].do \notin Looks
  BY <1>3 DEF AgendaOK, LooksFirst
<1>8. Head(s).do \in Writings => o
  <2> SUFFICES ASSUME s[1].do \in Writings, ~o PROVE FALSE
    BY <1>2
  <2>1. 1 \in DOMAIN s
    BY <1>1
  <2>2. PICK j \in DOMAIN s : j < 1
    BY <2>1 DEF AgendaOK, OpensFirst
  <2> QED
    BY <1>1, <2>2
<1> QED
  BY <1>1, <1>5, <1>6, <1>7, <1>8 DEF Sound, F, t, u

LEMMA SoundIsOK ==
    ASSUME NEW r, NEW s, NEW o, Sound(r, s, o)
    PROVE  AgendaOK(r, s, o) /\ AgendaOK(r, s, TRUE)
BY DEF Sound, AgendaOK, LooksFirst, OpensFirst

\* A second look comes first.
LEMMA LookIsOK ==
    ASSUME NEW r, NEW it \in FittingItems(r), it.do \in Looks,
           NEW t, NEW o \in BOOLEAN, Sound(r, t, o)
    PROVE  AgendaOK(r, <<it>> \o t, o)
<1> DEFINE F == FittingItems(r)
           s == <<it>>
           c == s \o t
<1>1. s \in Seq(F) /\ t \in Seq(F) /\ Len(s) = 1 /\ s[1] = it
  BY DEF Sound
<1> HIDE DEF s
<1>2. /\ c \in Seq(F) /\ Len(t) \in Nat
      /\ DOMAIN t = 1 .. Len(t) /\ DOMAIN c = 1 .. 1 + Len(t)
      /\ \A i \in 1 .. 1 + Len(t) : c[i] = IF i <= 1 THEN s[i] ELSE t[i - 1]
  <2> HIDE DEF F
  <2>1. Len(t) \in Nat /\ DOMAIN t = 1 .. Len(t)
    BY <1>1, LenProperties
  <2>2. /\ c \in Seq(F) /\ Len(c) = Len(s) + Len(t)
        /\ \A i \in 1 .. Len(s) + Len(t) : c[i] = IF i <= Len(s) THEN s[i] ELSE t[i - Len(s)]
    BY <1>1, ConcatProperties
  <2> HIDE DEF c
  <2>3. DOMAIN c = 1 .. Len(c)
    BY <2>2, LenProperties
  <2> QED
    BY <1>1, <2>1, <2>2, <2>3
<1> HIDE DEF F, c
<1>3. 1 \in DOMAIN c /\ c[1] = it
  BY <1>1, <1>2
<1>4. ASSUME NEW i \in DOMAIN t
      PROVE  i + 1 \in DOMAIN c /\ c[i + 1] = t[i] /\ i + 1 # 1
  <2>1. i + 1 \in 1 .. 1 + Len(t) /\ ~(i + 1 <= 1) /\ i + 1 - 1 = i
    BY <1>2
  <2> QED
    BY <1>2, <2>1
<1>5. ASSUME NEW i \in DOMAIN c, i # 1 PROVE \E k \in DOMAIN t : i = k + 1
  <2>1. i - 1 \in DOMAIN t /\ i = i - 1 + 1
    BY <1>2, <1>5
  <2> QED
    BY <2>1
<1>6. Together(c)
  <2>1. ASSUME NEW k \in DOMAIN t
        PROVE  /\ c[k + 1].do = "os_copy" => /\ k + 1 + 2 \in DOMAIN c
                                             /\ c[k + 1 + 1].do = "os_some"
                                             /\ c[k + 1 + 2].do = "os_rest"
               /\ c[k + 1].do = "os_some" => /\ k + 1 + 1 \in DOMAIN c
                                             /\ c[k + 1 + 1].do = "os_rest"
    <3>1. /\ k + 2 \in DOMAIN t => k + 1 \in DOMAIN t
          /\ k + 1 + 2 = k + 2 + 1
      BY <1>2
    <3>2. /\ t[k].do = "os_copy" =>
                k + 2 \in DOMAIN t /\ t[k + 1].do = "os_some" /\ t[k + 2].do = "os_rest"
          /\ t[k].do = "os_some" => k + 1 \in DOMAIN t /\ t[k + 1].do = "os_rest"
      BY DEF Sound, Together
    <3> QED
      BY <1>4, <3>1, <3>2
  <2> QED
    BY <1>3, <1>5, <2>1 DEF Together, Looks
<1>7. OpensFirst(c, o)
  <2> SUFFICES ASSUME NEW i \in DOMAIN c, c[i].do \in Writings, ~o
               PROVE  \E j \in DOMAIN c : j < i /\ c[j].do \in Openings
    BY DEF OpensFirst
  <2>1. i # 1
    BY <1>3 DEF Looks, Writings
  <2>2. PICK k \in DOMAIN t : i = k + 1
    BY <1>5, <2>1
  <2>3. PICK j \in DOMAIN t : j < k /\ t[j].do \in Openings
    BY <1>4, <2>2 DEF Sound, OpensFirst
  <2>4. j + 1 < i
    BY <1>2, <2>2, <2>3
  <2> QED
    BY <1>4, <2>3, <2>4
<1>8. LooksFirst(c)
  BY <1>4, <1>5 DEF LooksFirst, Sound
<1> QED
  BY <1>2, <1>6, <1>7, <1>8 DEF AgendaOK, F, c, s

-----------------------------------------------------------------------------
(* What the methods begin with is sound.                                    *)

LEMMA DoItem ==
    ASSUME NEW do \in Steps, NEW h \in Places, NEW g \in Places
    PROVE  /\ Do(do, h) \in Items /\ From(do, h, g) \in Items
           /\ Do(do, h).do = do /\ Do(do, h).path = h /\ Do(do, h).left = {}
           /\ From(do, h, g).do = do /\ From(do, h, g).path = h /\ From(do, h, g).dest = g
           /\ From(do, h, g).left = {} /\ From(do, h, g).todo = << >>
<1>1. << >> \in Seq(Places)
  BY EmptySeq
<1>2. Do(do, h) \in Items /\ Do(do, h).do = do /\ Do(do, h).path = h /\ Do(do, h).left = {}
      /\ Do(do, h).todo = << >>
  BY <1>1 DEF Do, Items
<1> QED
  BY <1>2 DEF From, Items

\* Steps that change nothing, or only what is open.
Neutral == {"parent_exists", "parent_is_dir", "absent", "open", "write", "copy_some", "copy_rest",
            "os_some", "os_rest", "open_file", "metadata", "exists", "read_dir", "set_time",
            "set_time_elsewhere"}

LEMMA NeutralFits ==
    ASSUME NEW r, r.op # "append_file", NEW do \in Neutral, NEW h \in Places, NEW g \in Places
    PROVE  Do(do, h) \in FittingItems(r) /\ From(do, h, g) \in FittingItems(r)
<1>1. do \in Steps
  BY DEF Neutral, Steps
<1>2. do \notin Makings \cup Renames \cup Removals \cup {"os_copy", "walk", "copy_entry"}
  BY DEF Neutral, Makings, Renames, Removals
<1> QED
  BY <1>1, <1>2, DoItem DEF FittingItems, Fits

LEMMA MakingFits ==
    ASSUME NEW r, r.op # "append_file", NEW do \in Makings, NEW h \in Places, Os(h) \in Makes(r)
    PROVE  Do(do, h) \in FittingItems(r)
<1>1. do \in Steps
  BY DEF Makings, Steps
<1>2. do \notin Renames \cup Removals \cup {"os_copy", "walk", "copy_entry"}
  BY DEF Makings, Renames, Removals
<1> QED
  BY <1>1, <1>2, DoItem DEF FittingItems, Fits

LEMMA RemovalFits ==
    ASSUME NEW r, r.op \in RemovingOps, NEW do \in Removals, NEW h \in Places,
           Below(Os(h), Os(r.path))
    PROVE  Do(do, h) \in FittingItems(r)
<1>1. do \in Steps /\ r.op # "append_file"
  BY DEF Removals, Steps, RemovingOps, MovingOps
<1>2. do \notin Makings \cup Renames \cup {"os_copy", "walk", "copy_entry"}
  BY DEF Makings, Renames, Removals
<1> QED
  BY <1>1, <1>2, DoItem DEF FittingItems, Fits

\* Two and three steps.
LEMMA FewSteps ==
    ASSUME NEW r, NEW x \in FittingItems(r), NEW y \in FittingItems(r), NEW z \in FittingItems(r),
           x.do \in Plain, y.do \in Plain
    PROVE  /\ Sound(r, <<x, y>>, FALSE)
           /\ z.do \in Plain => Sound(r, <<x, y, z>>, FALSE)
<1>1. /\ <<x, y>> \in Seq(FittingItems(r)) /\ DOMAIN <<x, y>> = 1 .. 2
      /\ <<x, y>>[1] = x /\ <<x, y>>[2] = y
      /\ <<x, y, z>> \in Seq(FittingItems(r)) /\ DOMAIN <<x, y, z>> = 1 .. 3
      /\ <<x, y, z>>[1] = x /\ <<x, y, z>>[2] = y /\ <<x, y, z>>[3] = z
  OBVIOUS
<1> DEFINE two == <<x, y>>
           three == <<x, y, z>>
<1> HIDE DEF two, three
<1>2. \A i \in 1 .. 2 : two[i].do \in Plain
  BY <1>1 DEF two
<1>3. z.do \in Plain => \A i \in 1 .. 3 : three[i].do \in Plain
  <2>1. \A i \in 1 .. 3 : i = 1 \/ i = 2 \/ i = 3
    OBVIOUS
  <2> QED
    BY <1>1, <2>1 DEF three
<1>4. two \in Seq(FittingItems(r)) /\ three \in Seq(FittingItems(r))
      /\ DOMAIN two = 1 .. 2 /\ DOMAIN three = 1 .. 3
  BY <1>1 DEF two, three
<1>5. Sound(r, two, FALSE) /\ (z.do \in Plain => Sound(r, three, FALSE))
  BY <1>2, <1>3, <1>4, PlainIsSound
<1> QED
  BY <1>5 DEF two, three

LEMMA InDirectorySound ==
    ASSUME NEW r, r.op # "append_file", NEW h \in Places
    PROVE  Sound(r, InDirectory(h), FALSE)
<1> DEFINE x == Do("parent_exists", Up(h))
           y == Do("parent_is_dir", Up(h))
<1>1. Up(h) \in Places
  BY PlacesAreClosed
<1>2. x \in FittingItems(r) /\ y \in FittingItems(r)
  BY <1>1, NeutralFits DEF Neutral
<1>3. x.do \in Plain /\ y.do \in Plain
  BY <1>1, DoItem DEF Plain, Steps, Writings, Looks
<1> HIDE DEF x, y
<1>4. Sound(r, <<x, y>>, FALSE)
  BY <1>2, <1>3, FewSteps
<1> QED
  BY <1>4 DEF InDirectory, x, y

\* A sound agenda and one step more.
LEMMA AppendIsSound ==
    ASSUME NEW r, NEW s, Sound(r, s, FALSE), NEW it \in FittingItems(r),
           \/ it.do \in Plain
           \/ it.do \in {"write", "copy_some", "copy_rest", "os_rest"} /\ Opens(s)
    PROVE  /\ Sound(r, Append(s, it), FALSE)
           /\ Opens(s) \/ it.do \in Openings => Opens(Append(s, it))
<1>1. Append(s, it) = s \o <<it>>
  BY AppendIsConcat DEF Sound
<1>2. it.do \in Openings => Opens(<<it>>)
  <2>1. DOMAIN <<it>> = {1} /\ <<it>>[1] = it
    OBVIOUS
  <2> QED
    BY <2>1 DEF Opens
<1> DEFINE t == <<it>>
<1>3. CASE it.do \in Plain
  <2>1. Sound(r, t, FALSE)
    BY <1>3, OneIsSound
  <2> HIDE DEF t
  <2>2. Sound(r, s \o t, FALSE) /\ (Opens(s) \/ Opens(t) => Opens(s \o t))
    BY <2>1, ConcatIsSound
  <2> QED
    BY <1>1, <1>2, <2>2 DEF t
<1>4. CASE it.do \in {"write", "copy_some", "copy_rest", "os_rest"} /\ Opens(s)
  <2>1. Sound(r, t, TRUE)
    BY <1>4, OneIsSound
  <2> HIDE DEF t
  <2>2. Sound(r, s \o t, FALSE) /\ (Opens(s) \/ Opens(t) => Opens(s \o t))
    BY <1>4, <2>1, ConcatIsSound
  <2> QED
    BY <1>1, <1>2, <2>2 DEF t
<1> QED
  BY <1>3, <1>4

LEMMA ForwardedSound ==
    ASSUME NEW r, r.op # "append_file", NEW h \in Places, Os(h) \in Makes(r),
           NEW do \in {"create_dir", "ensure_dir", "create_file"}
    PROVE  /\ Sound(r, Forwarded(do, h), FALSE)
           /\ do = "create_file" => Opens(Forwarded(do, h))
<1> DEFINE it == Do(do, h)
<1>1. it \in FittingItems(r)
  BY MakingFits DEF Makings
<1>2. it.do = do /\ do \in Plain
  BY DoItem DEF Plain, Steps, Writings, Looks
<1>3. OnDisk(Real(h)) \in Places
  BY PlacesAreClosed
<1> HIDE DEF it
<1>4. Sound(r, InDirectory(OnDisk(Real(h))), FALSE)
  BY <1>3, InDirectorySound
<1>5. /\ Sound(r, Append(InDirectory(OnDisk(Real(h))), it), FALSE)
      /\ do = "create_file" => Opens(Append(InDirectory(OnDisk(Real(h))), it))
  BY <1>1, <1>2, <1>4, AppendIsSound DEF Openings
<1>6. Sound(r, <<it>>, FALSE)
  BY <1>1, <1>2, OneIsSound
<1>7. do = "create_file" => Opens(<<it>>)
  <2>1. DOMAIN <<it>> = {1} /\ <<it>>[1] = it
    OBVIOUS
  <2> QED
    BY <1>2, <2>1 DEF Opens, Openings
<1> QED
  BY <1>5, <1>6, <1>7 DEF Forwarded, it

LEMMA CreateSound ==
    ASSUME NEW r, r.op # "append_file", NEW h \in Places, Os(h) \in Makes(r)
    PROVE  /\ Sound(r, CreateDirSteps(h), FALSE)
           /\ Sound(r, CreateFileSteps(h), FALSE) /\ Opens(CreateFileSteps(h))
           /\ Sound(r, WriteFileSteps(h), FALSE)
<1> DEFINE d == Forwarded("create_dir", h)
           c == Forwarded("create_file", h)
           s == InDirectory(h)
           it == Do("write", h)
<1>1. Sound(r, s, FALSE) /\ Sound(r, d, FALSE) /\ Sound(r, c, FALSE) /\ Opens(c)
  BY InDirectorySound, ForwardedSound
<1>2. it \in FittingItems(r) /\ it.do = "write"
  BY NeutralFits, DoItem DEF Neutral, Steps
<1> HIDE DEF s, d, c, it
<1>3. Sound(r, s \o d, FALSE) /\ Sound(r, s \o c, FALSE) /\ Opens(s \o c)
  BY <1>1, ConcatIsSound
<1> DEFINE sc == s \o c
<1> HIDE DEF sc
<1>4. Sound(r, Append(sc, it), FALSE)
  BY <1>2, <1>3, AppendIsSound DEF sc
<1> QED
  BY <1>3, <1>4 DEF CreateDirSteps, CreateFileSteps, WriteFileSteps, s, c, d, it, sc

\* What a request reaches.
LEMMA Reached ==
    ASSUME NEW r \in Requests
    PROVE  /\ r.op # "append_file" \/ r.op \notin (CopyingOps \cup RemovingOps)
           /\ Makes(r) \subseteq Reach(r) /\ Reach(r) \subseteq Paths
           /\ r.op \in {"create_dir", "write_file", "append_file"} => Os(r.path) \in Makes(r)
           /\ r.op = "create_dir_all" =>
                 \A s \in Paths : Below(Os(r.path), s) /\ Below(s, Base(r.path)) => s \in Makes(r)
           /\ r.op \in RemovingOps => \A s \in Paths : Below(s, Os(r.path)) => s \in Reach(r)
           /\ r.op \in CopyingOps => \A s \in Paths : Below(s, Os(r.dest)) => s \in Makes(r)
<1>1. r.path \in Places /\ r.dest \in Places
  BY DEF Requests
<1>2. /\ r.path \in AnyPlaces /\ r.dest \in AnyPlaces /\ Os(r.path) \in Paths
      /\ Named(r.path) = Os(r.path) /\ Named(r.dest) = Os(r.dest) /\ Base(r.path) \in AnyPath
  BY <1>1, PlaceFields, OsPaths
<1>3. Named([r.path EXCEPT !.path = Root]) = Base(r.path)
  <2>1. Root \in AnyPath /\ Base(r.path) \o Root = Base(r.path)
    BY <1>2, JoinWithRoot
  <2> DEFINE g == [r.path EXCEPT !.path = Root]
  <2>2. g \in AnyPlaces /\ Os(g) = Base(r.path) \o Root
    BY <1>2, <2>1, SameBase
  <2> HIDE DEF g
  <2>3. Named(g) = Base(r.path)
    BY <2>1, <2>2, OsPaths
  <2> QED
    BY <2>3 DEF g
<1>4. /\ r.op # "append_file" \/ r.op \notin (CopyingOps \cup RemovingOps)
      /\ r.op \in {"create_dir", "create_dir_all", "write_file", "append_file"}
            => r.op \notin CopyingOps
  BY DEF CopyingOps, RemovingOps, MovingOps
<1>5. Makes(r) \subseteq Reach(r) /\ Reach(r) \subseteq Paths
  BY DEF Makes, Reach
<1>6. /\ r.op \in {"create_dir", "write_file", "append_file"} => Os(r.path) \in Reach(r)
      /\ r.op = "create_dir_all" =>
            \A s \in Paths : Below(Os(r.path), s) /\ Below(s, Base(r.path)) => s \in Reach(r)
      /\ r.op \in RemovingOps => \A s \in Paths : Below(s, Os(r.path)) => s \in Reach(r)
      /\ r.op \in CopyingOps => \A s \in Paths : Below(s, Os(r.dest)) => s \in Reach(r)
  BY <1>2, <1>3, <1>4 DEF Reach
<1> QED
  BY <1>2, <1>4, <1>5, <1>6 DEF Makes

\* A place is below itself.
LEMMA PlaceIsBelowItself == \A h \in Places : Os(h) \in Paths /\ Below(Os(h), Os(h))
BY PlaceFields, BelowItself, PathsAreSequences

LEMMA AppendThird ==
    ASSUME NEW S, NEW x \in S, NEW y \in S, NEW z \in S
    PROVE  Append(<<x, y>>, z) = <<x, y, z>>
<1> DEFINE s == Append(<<x, y>>, z)
           t == <<x, y, z>>
<1>1. s \in Seq(S) /\ Len(s) = 3 /\ s[1] = x /\ s[2] = y /\ s[3] = z
  OBVIOUS
<1>2. t \in Seq(S) /\ Len(t) = 3 /\ t[1] = x /\ t[2] = y /\ t[3] = z
  OBVIOUS
<1> HIDE DEF s, t
<1>3. \A i \in 1 .. 3 : s[i] = t[i]
  <2>1. \A i \in 1 .. 3 : i = 1 \/ i = 2 \/ i = 3
    OBVIOUS
  <2> QED
    BY <1>1, <1>2, <2>1
<1> QED
  BY <1>1, <1>2, <1>3, SeqEqual DEF s, t

LEMMA CreateDirAllSound ==
    ASSUME NEW r \in Requests, r.op = "create_dir_all"
    PROVE  Sound(r, CreateDirAllSteps(r.path), FALSE)
<1> DEFINE h == r.path
           up(n) == [h EXCEPT !.path = SubSeq(@, 1, n)]
           steps(n) == Forwarded("ensure_dir", up(n))
           each == IF h.fs = "altroot" THEN 3 ELSE 1
           s == CreateDirAllSteps(h)
<1>1. h \in Places /\ h.path \in AnyPath /\ Len(h.path) \in Nat
  BY PlaceFields DEF Requests, AnyPath
<1>2. ASSUME NEW n \in 1 .. Len(h.path)
      PROVE  up(n) \in Places /\ up(n).fs = h.fs /\ Os(up(n)) \in Makes(r)
  <2>1. /\ up(n) \in Places /\ up(n).fs = h.fs /\ Below(Os(h), Os(up(n)))
        /\ Below(Os(up(n)), Base(h))
    BY <1>1, BeginningsArePlaces
  <2>2. Os(up(n)) \in Paths
    BY <2>1, PlaceFields
  <2> QED
    BY <2>1, <2>2, Reached
<1>3. ASSUME NEW n \in 1 .. Len(h.path), NEW m \in 1 .. each
      PROVE  steps(n)[m] \in FittingItems(r) /\ steps(n)[m].do \in Plain
  <2> DEFINE g == up(n)
             it == Do("ensure_dir", g)
             x == Do("parent_exists", Up(OnDisk(Real(g))))
             y == Do("parent_is_dir", Up(OnDisk(Real(g))))
  <2>1. g \in Places /\ g.fs = h.fs /\ Os(g) \in Makes(r)
    BY <1>2
  <2> HIDE DEF g
  <2>2. OnDisk(Real(g)) \in Places
    BY <2>1, PlacesAreClosed
  <2>3. Up(OnDisk(Real(g))) \in Places
    BY <2>2, PlacesAreClosed
  <2>4. it \in FittingItems(r) /\ it.do \in Plain
    BY <2>1, MakingFits, DoItem DEF Makings, Plain, Steps, Writings, Looks
  <2>5. x \in FittingItems(r) /\ x.do \in Plain /\ y \in FittingItems(r) /\ y.do \in Plain
    BY <2>3, NeutralFits, DoItem DEF Neutral, Plain, Steps, Writings, Looks
  <2>6. InDirectory(OnDisk(Real(g))) = <<x, y>>
    BY DEF InDirectory
  <2> HIDE DEF it, x, y
  <2>7. CASE h.fs = "altroot"
    <3>1. Forwarded("ensure_dir", g) = Append(<<x, y>>, it)
      BY <2>1, <2>6, <2>7 DEF Forwarded, it
    <3>2. Append(<<x, y>>, it) = <<x, y, it>>
      BY <2>4, <2>5, AppendThird
    <3>3. m = 1 \/ m = 2 \/ m = 3
      BY <2>7
    <3>4. steps(n) = <<x, y, it>>
      BY <3>1, <3>2 DEF g
    <3>5. /\ <<x, y, it>>[1] = x /\ <<x, y, it>>[2] = y /\ <<x, y, it>>[3] = it
      OBVIOUS
    <3> HIDE DEF steps
    <3> QED
      BY <2>4, <2>5, <3>3, <3>4, <3>5
  <2>8. CASE h.fs # "altroot"
    <3>1. Forwarded("ensure_dir", g) = <<it>>
      BY <2>1, <2>8 DEF Forwarded, it
    <3>2. m = 1
      BY <2>8
    <3> QED
      BY <2>4, <3>1, <3>2 DEF g
  <2> QED
    BY <2>7, <2>8
<1> HIDE DEF steps
<1> DEFINE total == each * Len(h.path)
           place(i) == ((i - 1) \div each) + 1
           part(i) == ((i - 1) % each) + 1
<1>4. total \in Nat /\ \A i \in 1 .. total : place(i) \in 1 .. Len(h.path) /\ part(i) \in 1 .. each
  <2>1. each = 1 \/ each = 3
    OBVIOUS
  <2>2. PICK l \in Nat : l = Len(h.path)
    BY <1>1
  <2> HIDE DEF each
  <2>3. CASE each = 3
    <3>1. \A i \in 1 .. 3 * l : ((i - 1) \div 3) + 1 \in 1 .. l /\ ((i - 1) % 3) + 1 \in 1 .. 3
      OBVIOUS
    <3>2. total = 3 * l /\ 3 * l \in Nat
      BY <2>2, <2>3
    <3>3. \A i : place(i) = ((i - 1) \div 3) + 1 /\ part(i) = ((i - 1) % 3) + 1
      BY <2>3
    <3> HIDE DEF total, place, part
    <3> QED
      BY <2>2, <2>3, <3>1, <3>2, <3>3
  <2>4. CASE each = 1
    <3>1. \A i \in 1 .. 1 * l : ((i - 1) \div 1) + 1 \in 1 .. l /\ ((i - 1) % 1) + 1 \in 1 .. 1
      OBVIOUS
    <3>2. total = 1 * l /\ 1 * l \in Nat
      BY <2>2, <2>4
    <3>3. \A i : place(i) = ((i - 1) \div 1) + 1 /\ part(i) = ((i - 1) % 1) + 1
      BY <2>4
    <3> HIDE DEF total, place, part
    <3> QED
      BY <2>2, <2>4, <3>1, <3>2, <3>3
  <2> QED
    BY <2>1, <2>3, <2>4
<1>5. s = [i \in 1 .. total |-> steps(place(i))[part(i)]]
  BY DEF CreateDirAllSteps, steps
<1> HIDE DEF s, total, place, part, each
<1>6. \A i \in 1 .. total : steps(place(i))[part(i)] \in FittingItems(r)
  BY <1>3, <1>4
<1>7. s \in Seq(FittingItems(r)) /\ DOMAIN s = 1 .. total
  BY <1>4, <1>5, <1>6
<1>8. \A i \in DOMAIN s : s[i].do \in Plain
  BY <1>3, <1>4, <1>5, <1>7
<1>9. Sound(r, s, FALSE)
  BY <1>7, <1>8, PlainIsSound
<1> QED
  BY <1>9 DEF s

LEMMA OsCopySound ==
    ASSUME NEW r, r.op # "append_file", NEW h \in Places, NEW g \in Places, Os(g) \in Makes(r)
    PROVE  Sound(r, OsCopySteps(h, g), FALSE)
<1> DEFINE x == From("os_copy", h, g)
           y == From("os_some", h, g)
           z == From("os_rest", h, g)
           s == <<x, y, z>>
<1>1. x \in FittingItems(r) /\ x.do = "os_copy"
  <2>1. "os_copy" \in Steps
    BY DEF Steps
  <2>2. "os_copy" \notin Makings \cup Renames \cup Removals
    BY DEF Makings, Renames, Removals
  <2>3. x \in Items /\ x.do = "os_copy" /\ x.dest = g
    BY <2>1, DoItem
  <2> HIDE DEF x
  <2> QED
    BY <2>2, <2>3 DEF FittingItems, Fits
<1>2. y \in FittingItems(r) /\ y.do = "os_some" /\ z \in FittingItems(r) /\ z.do = "os_rest"
  BY NeutralFits, DoItem DEF Neutral, Steps
<1> HIDE DEF x, y, z
<1>3. /\ s \in Seq(FittingItems(r)) /\ DOMAIN s = 1 .. 3
      /\ s[1] = x /\ s[2] = y /\ s[3] = z
  BY <1>1, <1>2
<1> HIDE DEF s
<1>4. \A i \in DOMAIN s : i = 1 \/ i = 2 \/ i = 3
  BY <1>3
<1>5. Together(s)
  BY <1>1, <1>2, <1>3, <1>4 DEF Together
<1>6. OpensFirst(s, FALSE)
  BY <1>1, <1>2, <1>3, <1>4 DEF OpensFirst, Openings, Writings
<1>7. \A i \in DOMAIN s : s[i].do \notin Looks
  BY <1>1, <1>2, <1>3, <1>4 DEF Looks
<1>8. Sound(r, s, FALSE)
  BY <1>3, <1>5, <1>6, <1>7 DEF Sound
<1> QED
  BY <1>8 DEF OsCopySteps, s, x, y, z

LEMMA OneNeutralSound ==
    ASSUME NEW r, r.op # "append_file", NEW h \in Places,
           NEW do \in {"absent", "open", "open_file", "metadata", "exists", "read_dir", "set_time",
                       "set_time_elsewhere"}
    PROVE  Sound(r, <<Do(do, h)>>, FALSE)
<1>1. do \in Plain /\ do \in Neutral
  BY DEF Plain, Neutral, Steps, Writings, Looks
<1>2. Do(do, h) \in FittingItems(r) /\ Do(do, h).do = do
  BY <1>1, NeutralFits, DoItem DEF Plain
<1> QED
  BY <1>1, <1>2, OneIsSound

LEMMA StreamSound ==
    ASSUME NEW r, r.op # "append_file", NEW h \in Places, NEW g \in Places, Os(g) \in Makes(r)
    PROVE  Sound(r, StreamSteps(h, g), FALSE)
<1> DEFINE o == <<Do("open", h)>>
           c == CreateFileSteps(g)
           x == From("copy_some", h, g)
           y == From("copy_rest", h, g)
           s == <<x, y>>
<1>1. Sound(r, o, FALSE) /\ Sound(r, c, FALSE) /\ Opens(c)
  BY OneNeutralSound, CreateSound
<1>2. x \in FittingItems(r) /\ x.do = "copy_some" /\ y \in FittingItems(r) /\ y.do = "copy_rest"
  BY NeutralFits, DoItem DEF Neutral, Steps
<1> HIDE DEF o, c, x, y
<1>3. /\ s \in Seq(FittingItems(r)) /\ DOMAIN s = 1 .. 2 /\ s[1] = x /\ s[2] = y
  BY <1>2
<1> HIDE DEF s
<1>4. \A i \in DOMAIN s : i = 1 \/ i = 2
  BY <1>3
<1>5. Sound(r, s, TRUE)
  BY <1>2, <1>3, <1>4 DEF Sound, Together, OpensFirst, Looks
<1>6. Sound(r, o \o c, FALSE) /\ Opens(o \o c)
  BY <1>1, ConcatIsSound
<1> DEFINE oc == o \o c
<1> HIDE DEF oc
<1>7. Sound(r, oc \o s, FALSE)
  BY <1>5, <1>6, ConcatIsSound DEF oc
<1> QED
  BY <1>7 DEF StreamSteps, oc, o, c, s, x, y

LEMMA CopyFileSound ==
    ASSUME NEW r, r.op # "append_file", NEW h \in Places, NEW g \in Places, Os(g) \in Makes(r)
    PROVE  Sound(r, CopyFileSteps(h, g), FALSE)
<1> DEFINE a == <<Do("absent", g)>>
           b == <<Do("absent", OnDisk(Real(g)))>>
           o == OsCopySteps(h, g)
           s == StreamSteps(h, g)
<1>1. OnDisk(Real(g)) \in Places
  BY PlacesAreClosed
<1>2. Sound(r, a, FALSE) /\ Sound(r, b, FALSE) /\ Sound(r, o, FALSE) /\ Sound(r, s, FALSE)
  BY <1>1, OneNeutralSound, OsCopySound, StreamSound
<1> HIDE DEF a, b, o, s
<1>3. Sound(r, b \o o, FALSE)
  BY <1>2, ConcatIsSound
<1>4. Transfer(h, g) = s \/ Transfer(h, g) = b \o o \/ Transfer(h, g) = o
  BY DEF Transfer, AltrootCopySteps, b, o, s
<1> DEFINE t == Transfer(h, g)
<1>5. Sound(r, t, FALSE)
  BY <1>2, <1>3, <1>4
<1> HIDE DEF t
<1>6. Sound(r, a \o t, FALSE)
  BY <1>2, <1>5, ConcatIsSound
<1> QED
  BY <1>6 DEF CopyFileSteps, a, t

LEMMA MoveFileSound ==
    ASSUME NEW r \in Requests, r.op = "move_file"
    PROVE  Sound(r, MoveFileSteps(r.path, r.dest), FALSE)
<1> DEFINE h == r.path
           g == r.dest
           a == <<Do("absent", g)>>
           x == From("rename", h, g)
           y == Do("remove_file", h)
           s == StreamSteps(h, g)
<1>1. h \in Places /\ g \in Places
  BY DEF Requests
<1>2. r.op \in MovingOps /\ r.op \in RemovingOps /\ r.op \in CopyingOps /\ r.op # "append_file"
  BY DEF MovingOps, RemovingOps, CopyingOps
<1>3. Os(g) \in Makes(r) /\ Below(Os(h), Os(h))
  BY <1>1, <1>2, Reached, PlaceIsBelowItself
<1>4. Sound(r, a, FALSE) /\ Sound(r, s, FALSE)
  BY <1>1, <1>2, <1>3, OneNeutralSound, StreamSound
<1>5. x \in FittingItems(r) /\ x.do \in Plain
  <2>1. "rename" \in Steps /\ "rename" \in Plain
    BY DEF Steps, Plain, Writings, Looks
  <2>2. "rename" \notin Makings \cup Removals
    BY DEF Makings, Removals
  <2>3. x \in Items /\ x.do = "rename" /\ x.path = h /\ x.dest = g
    BY <1>1, <2>1, DoItem
  <2> HIDE DEF x
  <2> QED
    BY <1>2, <2>1, <2>2, <2>3 DEF FittingItems, Fits
<1>6. y \in FittingItems(r) /\ y.do \in Plain
  BY <1>1, <1>2, <1>3, RemovalFits, DoItem DEF Removals, Plain, Steps, Writings, Looks
<1> HIDE DEF a, x, y, s
<1>7. Sound(r, <<x>>, FALSE) /\ Sound(r, Append(s, y), FALSE)
  BY <1>4, <1>5, <1>6, OneIsSound, AppendIsSound
<1> DEFINE t == IF MoveItself(h, g) THEN <<x>> ELSE Append(s, y)
<1>8. Sound(r, t, FALSE)
  BY <1>7
<1>9. MoveFileSteps(h, g) = a \o t
  BY DEF MoveFileSteps, a, x, y, s
<1> HIDE DEF t
<1>10. Sound(r, a \o t, FALSE)
  BY <1>4, <1>8, ConcatIsSound
<1> QED
  BY <1>9, <1>10

LEMMA CopyTreeSound ==
    ASSUME NEW r \in Requests, r.op \in CopyingOps
    PROVE  /\ Sound(r, CopyTreeSteps(r.path, r.dest), FALSE)
           /\ Sound(r, CopyDirSteps(r.path, r.dest), FALSE)
<1> DEFINE h == r.path
           g == r.dest
           a == <<Do("absent", g)>>
           c == CreateDirSteps(g)
           it == From("walk", h, g)
           w == [it EXCEPT !.todo = <<h>>]
<1>1. h \in Places /\ g \in Places /\ r.op # "append_file"
  BY Reached DEF Requests
<1>2. Os(g) \in Makes(r) /\ Below(h.path, h.path)
  BY <1>1, Reached, PlaceIsBelowItself, PlaceFields, BelowItself
<1>3. Sound(r, a, FALSE) /\ Sound(r, c, FALSE)
  BY <1>1, <1>2, OneNeutralSound, CreateSound
<1>4. w \in FittingItems(r) /\ w.do \in Plain
  <2>1. "walk" \in Steps /\ "walk" \in Plain
    BY DEF Steps, Plain, Writings, Looks
  <2>2. "walk" \notin Makings \cup Renames \cup Removals
    BY DEF Makings, Renames, Removals
  <2>3. it \in Items /\ it.do = "walk" /\ it.path = h /\ it.dest = g /\ it.left = {}
    BY <1>1, <2>1, DoItem
  <2> HIDE DEF it
  <2>4. <<h>> \in Seq(Places) /\ DOMAIN <<h>> = {1} /\ <<h>>[1] = h
    BY <1>1
  <2>5. /\ w \in Items /\ w.do = "walk" /\ w.path = h /\ w.dest = g /\ w.left = {}
        /\ w.todo = <<h>> /\ w.todo # << >>
    BY <2>3, <2>4 DEF Items
  <2> HIDE DEF w
  <2>6. Ahead(w) = {h}
    BY <2>4, <2>5 DEF Ahead
  <2> QED
    BY <1>1, <1>2, <2>1, <2>2, <2>5, <2>6 DEF FittingItems, Fits
<1> HIDE DEF a, c, it, w
<1>5. Sound(r, Append(c, w), FALSE)
  BY <1>3, <1>4, AppendIsSound
<1> DEFINE t == Append(c, w)
<1> HIDE DEF t
<1>6. Sound(r, a \o t, FALSE)
  BY <1>3, <1>5, ConcatIsSound DEF t
<1> QED
  BY <1>5, <1>6 DEF CopyTreeSteps, CopyDirSteps, a, c, it, w, t

LEMMA MoveDirSound ==
    ASSUME NEW r \in Requests, r.op \in MovingOps
    PROVE  /\ Sound(r, MoveTreeSteps(r.path, r.dest), FALSE)
           /\ Sound(r, MoveDirSteps(r.path, r.dest), FALSE)
<1> DEFINE h == r.path
           g == r.dest
           a == <<Do("absent", g)>>
           c == CopyTreeSteps(h, g)
           x == From("rename_dir", h, g)
           y == Do("remove_dir_all", h)
<1>1. h \in Places /\ g \in Places
  BY DEF Requests
<1>2. r.op \in MovingOps /\ r.op \in RemovingOps /\ r.op \in CopyingOps /\ r.op # "append_file"
  BY DEF MovingOps, RemovingOps, CopyingOps
<1>3. Below(Os(h), Os(h))
  BY <1>1, PlaceIsBelowItself
<1>4. Sound(r, a, FALSE) /\ Sound(r, c, FALSE)
  BY <1>1, <1>2, OneNeutralSound, CopyTreeSound
<1>5. x \in FittingItems(r) /\ x.do \in Plain
  <2>1. "rename_dir" \in Steps /\ "rename_dir" \in Plain
    BY DEF Steps, Plain, Writings, Looks
  <2>2. "rename_dir" \notin Makings \cup Removals
    BY DEF Makings, Removals
  <2>3. x \in Items /\ x.do = "rename_dir" /\ x.path = h /\ x.dest = g
    BY <1>1, <2>1, DoItem
  <2> HIDE DEF x
  <2> QED
    BY <1>2, <2>1, <2>2, <2>3 DEF FittingItems, Fits
<1>6. y \in FittingItems(r) /\ y.do \in Plain
  BY <1>1, <1>2, <1>3, RemovalFits, DoItem DEF Removals, Plain, Steps, Writings, Looks
<1> HIDE DEF a, c, x, y
<1>7. Sound(r, <<x>>, FALSE) /\ Sound(r, Append(c, y), FALSE)
  BY <1>4, <1>5, <1>6, OneIsSound, AppendIsSound
<1>8. MoveTreeSteps(h, g) = Append(c, y)
  BY DEF MoveTreeSteps, c, y
<1> DEFINE t == IF MoveItself(h, g) THEN <<x>> ELSE MoveTreeSteps(h, g)
<1>9. Sound(r, t, FALSE)
  BY <1>7, <1>8
<1>10. MoveDirSteps(h, g) = a \o t
  BY DEF MoveDirSteps, a, x
<1> HIDE DEF t
<1>11. Sound(r, a \o t, FALSE)
  BY <1>4, <1>9, ConcatIsSound
<1> QED
  BY <1>7, <1>8, <1>10, <1>11

LEMMA AppendFileSound ==
    ASSUME NEW r \in Requests, r.op = "append_file"
    PROVE  Sound(r, AppendFileSteps(r.path), FALSE)
<1> DEFINE x == Do("open_append", r.path)
           y == Do("write", r.path)
           s == <<x, y>>
<1>1. r.path \in Places /\ Os(r.path) \in Makes(r)
  BY Reached DEF Requests
<1>2. /\ x \in Items /\ x.do = "open_append" /\ x.path = r.path
      /\ y \in Items /\ y.do = "write"
  BY <1>1, DoItem DEF Steps
<1>3. x \in FittingItems(r)
  <2>1. "open_append" \notin Renames \cup Removals
    BY DEF Renames, Removals
  <2>2. x \in {x, y}
    OBVIOUS
  <2> QED
    BY <1>1, <1>2, <2>1, <2>2 DEF FittingItems, Fits
<1>4. y \in FittingItems(r)
  <2>1. "write" \notin Makings \cup Renames \cup Removals
    BY DEF Makings, Renames, Removals
  <2>2. y \in {x, y}
    OBVIOUS
  <2> QED
    BY <1>2, <2>1, <2>2 DEF FittingItems, Fits
<1> HIDE DEF x, y
<1>5. s \in Seq(FittingItems(r)) /\ DOMAIN s = 1 .. 2 /\ s[1] = x /\ s[2] = y
  BY <1>3, <1>4
<1> HIDE DEF s
<1>6. \A i \in DOMAIN s : i = 1 \/ i = 2
  BY <1>5
<1>7. OpensFirst(s, FALSE)
  BY <1>2, <1>5, <1>6 DEF OpensFirst, Openings, Writings
<1>8. Sound(r, s, FALSE)
  BY <1>2, <1>5, <1>6, <1>7 DEF Sound, Together, Looks
<1> QED
  BY <1>8 DEF AppendFileSteps, s, x, y

\* Whatever is asked for begins with sound steps.
LEMMA StepsAreSound ==
    ASSUME NEW r \in Requests
    PROVE  Sound(r, StepsOf(r), FALSE)
<1>1. r.path \in Places /\ r.dest \in Places /\ r.op \in ClientOps
  BY DEF Requests
<1>2. Below(Os(r.path), Os(r.path)) /\ Below(Os(r.dest), Os(r.dest)) /\ Os(r.dest) \in Paths
  BY <1>1, PlaceIsBelowItself
<1>3. CASE r.op \in {"create_dir", "write_file"}
  <2>1. Sound(r, CreateDirSteps(r.path), FALSE) /\ Sound(r, WriteFileSteps(r.path), FALSE)
    BY <1>1, <1>3, Reached, CreateSound
  <2> QED
    BY <1>3, <2>1 DEF StepsOf
<1>4. CASE r.op = "create_dir_all"
  BY <1>4, CreateDirAllSound DEF StepsOf
<1>5. CASE r.op = "append_file"
  BY <1>5, AppendFileSound DEF StepsOf
<1>6. CASE r.op = "copy_file"
  <2>1. Os(r.dest) \in Makes(r)
    BY <1>2, <1>6, Reached DEF CopyingOps
  <2> QED
    BY <1>1, <1>6, <2>1, CopyFileSound DEF StepsOf
<1>7. CASE r.op = "move_file"
  BY <1>7, MoveFileSound DEF StepsOf
<1>8. CASE r.op = "copy_dir"
  BY <1>8, CopyTreeSound DEF StepsOf, CopyingOps
<1>9. CASE r.op = "move_dir"
  BY <1>9, MoveDirSound DEF StepsOf, MovingOps
<1>10. CASE r.op \in {"remove_file", "remove_dir", "remove_dir_all"}
  <2>1. Do(r.op, r.path) \in FittingItems(r)
    BY <1>1, <1>2, <1>10, RemovalFits DEF RemovingOps, Removals
  <2>2. Do(r.op, r.path).do \in Plain
    BY <1>1, <1>10, DoItem DEF Plain, Steps, Writings, Looks
  <2>3. StepsOf(r) = <<Do(r.op, r.path)>>
    BY <1>10 DEF StepsOf
  <2> QED
    BY <2>1, <2>2, <2>3, OneIsSound
<1>11. CASE r.op \in {"open_file", "metadata", "exists", "read_dir", "set_time",
                      "set_time_elsewhere"}
  <2>1. StepsOf(r) = <<Do(r.op, r.path)>>
    BY <1>11 DEF StepsOf
  <2> QED
    BY <1>1, <1>11, <2>1, OneNeutralSound
<1> QED
  BY <1>1, <1>3, <1>4, <1>5, <1>6, <1>7, <1>8, <1>9, <1>10, <1>11 DEF ClientOps

-----------------------------------------------------------------------------
(* What the calls of the operating system leave.                            *)

\* The outcome changes nothing but R, and takes nothing away unless it may.
Confined(f, o, R, removes) ==
    /\ o.map \in Maps
    /\ \A s \in Paths \ R : o.map[s] = f[s]
    /\ o.unlinked \subseteq R
    /\ o.from # o.to =>
          \A s \in Paths : Below(s, o.from) => s \in R /\ Rebase(s, o.from, o.to) \in R
    /\ ~removes =>
          /\ o.unlinked = {} /\ o.from = o.to
          /\ \A s \in Paths : Exists(f, s) => Exists(o.map, s)

LEMMA NothingDone ==
    ASSUME NEW f \in Maps, NEW error, NEW R \in SUBSET Paths, NEW removes \in BOOLEAN
    PROVE  Confined(f, Outcome(f, error), R, removes) /\ Outcome(f, error).error = error
BY DEF Confined, Outcome

LEMMA InsertConfined ==
    ASSUME NEW f \in Maps, NEW error, NEW p \in Paths, NEW entry \in Entries,
           entry.kind # "Vacant", NEW R \in SUBSET Paths, p \in R, NEW removes \in BOOLEAN
    PROVE  Confined(f, Outcome(Insert(f, p, entry), error), R, removes)
<1> DEFINE g == Insert(f, p, entry)
<1>1. g \in Maps
  BY MapTypes
<1>2. \A s \in Paths : g[s] = IF s = p THEN entry ELSE f[s]
  BY DEF Insert, Maps
<1> HIDE DEF g
<1>3. \A s \in Paths : Exists(f, s) => Exists(g, s)
  BY <1>2 DEF Exists
<1> QED
  BY <1>1, <1>2, <1>3 DEF Confined, Outcome, g

LEMMA RemoveConfined ==
    ASSUME NEW f \in Maps, NEW error, NEW p \in Paths, NEW R \in SUBSET Paths, p \in R
    PROVE  /\ Confined(f, Outcome(Remove(f, p), error), R, TRUE)
           /\ Confined(f, [Outcome(Remove(f, p), error) EXCEPT !.unlinked = {p}], R, TRUE)
<1> DEFINE g == Remove(f, p)
<1>1. g \in Maps
  BY MapTypes
<1>2. \A s \in Paths : s # p => g[s] = f[s]
  BY DEF Remove, Maps
<1> HIDE DEF g
<1>3. /\ Outcome(g, error).map = g /\ Outcome(g, error).unlinked = {}
      /\ Outcome(g, error).from = Outcome(g, error).to
      /\ [Outcome(g, error) EXCEPT !.unlinked = {p}].map = g
      /\ [Outcome(g, error) EXCEPT !.unlinked = {p}].unlinked = {p}
      /\ [Outcome(g, error) EXCEPT !.unlinked = {p}].from
         = [Outcome(g, error) EXCEPT !.unlinked = {p}].to
  BY DEF Outcome
<1> QED
  BY <1>1, <1>2, <1>3 DEF Confined, g

LEMMA MakingCalls ==
    ASSUME NEW f \in Maps, NEW p \in Paths, NEW R \in SUBSET Paths, p \in R,
           NEW removes \in BOOLEAN
    PROVE  /\ Confined(f, Mkdir(f, p), R, removes)
           /\ Mkdir(f, p).error = "AlreadyExists" => Exists(f, p) /\ Mkdir(f, p).map = f
           /\ Confined(f, Creat(f, p), R, removes)
<1>1. /\ DirectoryEntry \in Entries /\ DirectoryEntry.kind # "Vacant"
      /\ FileEntry(<< >>) \in Entries /\ FileEntry(<< >>).kind # "Vacant"
  BY EntryTypes, EmptyContent DEF DirectoryEntry, FileEntry
<1>2. Mkdir(f, p).error = "AlreadyExists" => Exists(f, p) /\ Mkdir(f, p).map = f
  <2>1. Lookup(f, p) # "AlreadyExists"
    BY DEF Lookup
  <2>2. \A m, e : Outcome(m, e).error = e /\ Outcome(m, e).map = m
    BY DEF Outcome
  <2> QED
    BY <2>1, <2>2 DEF Mkdir
<1>3. \A e : /\ Confined(f, Outcome(f, e), R, removes)
             /\ Confined(f, Outcome(Insert(f, p, DirectoryEntry), e), R, removes)
             /\ Confined(f, Outcome(Insert(f, p, FileEntry(<< >>)), e), R, removes)
  BY <1>1, NothingDone, InsertConfined
<1> QED
  BY <1>2, <1>3 DEF Mkdir, Creat

LEMMA RemovingCalls ==
    ASSUME NEW f \in Maps, NEW p \in Paths, NEW R \in SUBSET Paths, p \in R
    PROVE  Confined(f, Unlink(f, p), R, TRUE) /\ Confined(f, Rmdir(f, p), R, TRUE)
<1>1. \A e : /\ Confined(f, Outcome(f, e), R, TRUE)
             /\ Confined(f, Outcome(Remove(f, p), e), R, TRUE)
             /\ Confined(f, [Outcome(Remove(f, p), e) EXCEPT !.unlinked = {p}], R, TRUE)
  BY NothingDone, RemoveConfined
<1> QED
  BY <1>1 DEF Unlink, Rmdir

LEMMA RenamingCall ==
    ASSUME NEW f \in Maps, NEW p \in Paths, NEW q \in Paths, NEW R \in SUBSET Paths,
           \A s \in Paths : Below(s, p) \/ Below(s, q) => s \in R,
           \A s \in Paths : Below(s, p) => Rebase(s, p, q) \in Paths
    PROVE  Confined(f, Rename(f, p, q), R, TRUE)
<1> DEFINE g == MoveTree(f, p, q)
           o == [Outcome(g, "None") EXCEPT !.unlinked = {q}, !.from = p, !.to = q]
<1>1. g \in Maps
  <2>1. ASSUME NEW s \in Paths PROVE g[s] \in Entries
    BY <2>1, EntryTypes DEF MoveTree, Maps
  <2> QED
    BY <2>1 DEF MoveTree, Maps
<1>2. \A s \in Paths \ R : g[s] = f[s]
  BY DEF MoveTree
<1>3. q \in AnyPath /\ Below(q, q)
  BY BelowItself, PathsAreSequences
<1>4. \A s \in Paths : Below(s, p) => s \in R /\ Rebase(s, p, q) \in R
  BY <1>3, RebasedIsBelow, PathsAreSequences
<1> HIDE DEF g
<1>5. o.map = g /\ o.unlinked = {q} /\ o.from = p /\ o.to = q
  BY DEF Outcome
<1> HIDE DEF o
<1>6. Confined(f, o, R, TRUE)
  BY <1>1, <1>2, <1>3, <1>4, <1>5 DEF Confined
<1>7. \A e : Confined(f, Outcome(f, e), R, TRUE)
  BY NothingDone
<1> QED
  BY <1>6, <1>7 DEF Rename, o, g

\* An open file after a confined call.
LEMMA FollowingFile ==
    ASSUME NEW h \in OpenFiles, NEW f \in Maps, NEW o, NEW R \in SUBSET Paths,
           NEW removes \in BOOLEAN, Confined(f, o, R, removes)
    PROVE  LET g == Follow(h, f, o) IN
           /\ g \in OpenFiles
           /\ g.open = h.open /\ g.appending = h.appending
           /\ \A p \in Paths \ R :
                 /\ g.open /\ g.path = p /\ ~g.gone => h.path = p /\ ~h.gone
                 /\ AppendsAt(h, p) => AppendsAt(g, p)
<1> DEFINE c == f[h.path].content
           x == [h EXCEPT !.gone = TRUE, !.content = c]
           y == [h EXCEPT !.path = Rebase(h.path, o.from, o.to)]
<1>1. h.path \in Paths /\ c \in Contents
  BY EntryFields DEF OpenFiles, Maps
<1> HIDE DEF c
<1>2. x \in OpenFiles /\ x.open = h.open /\ x.appending = h.appending /\ x.gone /\ x.path = h.path
  BY <1>1 DEF OpenFiles
<1>3. ASSUME o.from # o.to, Below(h.path, o.from)
      PROVE  /\ y \in OpenFiles /\ y.open = h.open /\ y.appending = h.appending
             /\ h.path \in R /\ y.path \in R
  <2>1. h.path \in R /\ Rebase(h.path, o.from, o.to) \in R
    BY <1>1, <1>3 DEF Confined
  <2> QED
    BY <2>1 DEF OpenFiles
<1>4. \/ Follow(h, f, o) = h
      \/ Follow(h, f, o) = x /\ h.path \in R
      \/ Follow(h, f, o) = y /\ o.from # o.to /\ Below(h.path, o.from)
  BY DEF Follow, Confined, c
<1> HIDE DEF x, y
<1> QED
  BY <1>2, <1>3, <1>4 DEF AppendsAt

\* An open file that a confined call does not reach, and where the others are put.
LEMMA FileKept ==
    ASSUME NEW h \in OpenFiles, NEW f \in Maps, NEW o, NEW R \in SUBSET Paths,
           NEW removes \in BOOLEAN, Confined(f, o, R, removes), NEW M,
           o.from # o.to =>
               \A s \in Paths : Below(s, o.from) => Rebase(s, o.from, o.to) \in M
    PROVE  LET g == Follow(h, f, o) IN
           /\ h.open => g.path = h.path \/ (h.path \in R /\ g.path \in M)
           /\ h.path \notin R => g = h
<1>1. h.path \in Paths
  BY DEF OpenFiles
<1>2. CASE ~h.open \/ h.gone
  BY <1>2 DEF Follow
<1>3. CASE h.open /\ ~h.gone /\ h.path \in o.unlinked
  BY <1>3 DEF Follow, Confined, OpenFiles
<1>4. CASE /\ h.open /\ ~h.gone /\ h.path \notin o.unlinked
           /\ o.from # o.to /\ Below(h.path, o.from)
  <2>1. Follow(h, f, o) = [h EXCEPT !.path = Rebase(@, o.from, o.to)]
    BY <1>4 DEF Follow
  <2>2. h.path \in R /\ Rebase(h.path, o.from, o.to) \in M
    BY <1>1, <1>4 DEF Confined
  <2> QED
    BY <2>1, <2>2 DEF OpenFiles
<1>5. CASE /\ h.open /\ ~h.gone /\ h.path \notin o.unlinked
           /\ ~(o.from # o.to /\ Below(h.path, o.from))
  BY <1>5 DEF Follow
<1> QED
  BY <1>2, <1>3, <1>4, <1>5

-----------------------------------------------------------------------------
(* What a step does to the job it is a step of.                             *)

Jobs == [request : Requests, agenda : Seq(Items), answer : Replies,
         end : {"none", "returned", "panicked", "dropped"}]

JobStep(a) ==
    /\ job' \in [Actors -> Jobs]
    /\ \A b \in Actors \ {a} : job'[b] = job[b]
    /\ job'[a].request = job[a].request
    /\ AgendaOK(job[a].request, job'[a].agenda, hold'[a].dst.open)
    /\ job'[a].end = "panicked" =>
          job[a].end = "panicked" \/ (At(a, Looks) /\ ~Exists(disk, Os(Now(a).path)))
    /\ job'[a].agenda # << >> /\ Head(job'[a].agenda).do \in Looks =>
          Exists(disk', Os(Head(job'[a].agenda).path))

\* An actor in the middle of a request.
Acting(a) == a \in Actors /\ DiskTypeOK /\ AgendasOK /\ Busy(a)

LEMMA ActingFacts ==
    ASSUME NEW a, Acting(a)
    PROVE  LET r == job[a].request IN
           /\ a \in Actors /\ job[a] \in Jobs /\ r \in Requests
           /\ hold[a].dst.open \in BOOLEAN
           /\ Now(a) \in Items /\ Now(a) \in FittingItems(r)
           /\ Now(a).path \in Places /\ Now(a).dest \in Places
           /\ Os(Now(a).path) \in Paths /\ Os(Now(a).dest) \in Paths
           /\ AgendaOK(r, job[a].agenda, hold[a].dst.open) /\ job[a].agenda # << >>
           /\ Sound(r, Tail(job[a].agenda), hold[a].dst.open \/ Now(a).do \in Openings)
           /\ Now(a).do \in Writings => hold[a].dst.open
<1>1. a \in Actors /\ job[a] \in Jobs /\ hold[a].dst.open \in BOOLEAN
  <2>1. hold[a] \in [src : OpenFiles, dst : OpenFiles]
    BY DEF Acting, DiskTypeOK
  <2> QED
    BY <2>1 DEF Acting, DiskTypeOK, Jobs, OpenFiles
<1>2. AgendaOK(job[a].request, job[a].agenda, hold[a].dst.open) /\ job[a].agenda # << >>
  BY DEF Acting, AgendasOK, Busy
<1>3. /\ Now(a) \in FittingItems(job[a].request)
      /\ Sound(job[a].request, Tail(job[a].agenda), hold[a].dst.open \/ Now(a).do \in Openings)
      /\ Now(a).do \in Writings => hold[a].dst.open
  BY <1>1, <1>2, TailIsSound DEF Now
<1>4. Now(a) \in Items /\ Now(a).path \in Places /\ Now(a).dest \in Places
  BY <1>3 DEF FittingItems, Items
<1> QED
  BY <1>1, <1>2, <1>3, <1>4, PlaceFields DEF Jobs

LEMMA ResumeOK ==
    ASSUME NEW a, Acting(a), NEW steps, Sound(job[a].request, steps, FALSE),
           hold'[a].dst.open \in BOOLEAN,
           hold[a].dst.open \/ Now(a).do \in Openings => hold'[a].dst.open,
           Resume(a, steps)
    PROVE  JobStep(a)
<1> DEFINE r == job[a].request
           tail == Tail(job[a].agenda)
           mine == IF a \in Tasks THEN steps ELSE << >>
           agenda == mine \o tail
           o == hold'[a].dst.open
           u == hold[a].dst.open \/ Now(a).do \in Openings
<1>1. /\ a \in Actors /\ job[a] \in Jobs /\ job \in [Actors -> Jobs] /\ u \in BOOLEAN
      /\ Sound(r, tail, u)
  BY ActingFacts DEF Acting, DiskTypeOK, Jobs
<1>2. Sound(r, mine, o)
  BY NothingIsSound DEF Sound, OpensFirst
<1>3. job' = [job EXCEPT ![a].agenda = agenda,
                         ![a].end = IF agenda = << >> THEN "returned" ELSE @]
  BY DEF Resume
<1> HIDE DEF tail, mine, u
<1>4. Sound(r, agenda, o)
  BY <1>1, <1>2, ConcatIsSound DEF u
<1> HIDE DEF agenda
<1>5. agenda \in Seq(FittingItems(r)) /\ agenda \in Seq(Items)
  BY <1>4 DEF Sound, FittingItems
<1>6. /\ job' \in [Actors -> Jobs]
      /\ \A b \in Actors \ {a} : job'[b] = job[b]
      /\ job'[a].request = r /\ job'[a].agenda = agenda
      /\ job'[a].end = "panicked" => job[a].end = "panicked"
  BY <1>1, <1>3, <1>5 DEF Jobs
<1>7. agenda # << >> => Head(agenda).do \notin Looks
  <2> SUFFICES ASSUME agenda # << >> PROVE Head(agenda).do \notin Looks
    OBVIOUS
  <2>1. 1 \in DOMAIN agenda /\ Head(agenda) = agenda[1]
    BY <1>5, EmptySeq, LenProperties, HeadTailProperties
  <2> QED
    BY <1>4, <2>1 DEF Sound
<1>8. AgendaOK(r, agenda, o)
  BY <1>4, SoundIsOK
<1> QED
  BY <1>6, <1>7, <1>8 DEF JobStep

LEMMA EndOK ==
    ASSUME NEW a, Acting(a), NEW answer \in Replies, NEW how \in {"returned", "panicked"},
           how = "panicked" => At(a, Looks) /\ ~Exists(disk, Os(Now(a).path)),
           End(a, answer, how)
    PROVE  JobStep(a)
<1>1. a \in Actors /\ job[a] \in Jobs /\ job \in [Actors -> Jobs]
  BY ActingFacts DEF Acting, DiskTypeOK, Jobs
<1>2. job' = [job EXCEPT ![a].answer = answer, ![a].end = how, ![a].agenda = << >>]
  BY DEF End
<1>3. << >> \in Seq(Items)
  BY EmptySeq
<1>4. /\ job' \in [Actors -> Jobs]
      /\ \A b \in Actors \ {a} : job'[b] = job[b]
      /\ job'[a].request = job[a].request /\ job'[a].agenda = << >>
      /\ job'[a].end = how
  BY <1>1, <1>2, <1>3 DEF Jobs
<1>5. AgendaOK(job[a].request, << >>, hold'[a].dst.open)
  BY NothingIsSound, SoundIsOK
<1> QED
  BY <1>4, <1>5 DEF JobStep

LEMMA PlainAnswers == \A code \in Codes : Answer(code) \in Replies
BY EmptyContent DEF Answer, Replies, Kinds

LEMMA AbortOK ==
    ASSUME NEW a, Acting(a), NEW code \in Codes, Abort(a, code)
    PROVE  JobStep(a)
BY EndOK, PlainAnswers DEF Abort

LEMMA SettleOK ==
    ASSUME NEW a, Acting(a), NEW code \in Codes, NEW codes, NEW steps,
           code \in codes => Sound(job[a].request, steps, FALSE),
           hold'[a].dst.open \in BOOLEAN,
           code \in codes =>
               (hold[a].dst.open \/ Now(a).do \in Openings => hold'[a].dst.open),
           Settle(a, code, codes, steps)
    PROVE  JobStep(a)
BY AbortOK, ResumeOK DEF Settle

LEMMA VfsCodes == \A error : VfsCode(error) \in Codes
BY DEF VfsCode, Codes

-----------------------------------------------------------------------------
(* What a step does to the disk and to the files that are open.             *)

\* Whoever has p open to write to it appends.
Calm(files, p) ==
    \A b \in Actors :
        LET h == files[b].dst IN h.open /\ h.path = p /\ ~h.gone => h.appending

Held == [Actors -> [src : OpenFiles, dst : OpenFiles]]

\* What the step a is at may change.
Changed(a) ==
    IF At(a, Removals \cup Renames) THEN Reach(job[a].request) ELSE Makes(job[a].request)

\* The files that are open stay where they are, but for those that a opens or
\* that it renames.
FilesStay(a) ==
    LET r == job[a].request IN
    /\ \A b \in Actors : hold'[b].dst.open =>
          \/ hold[b].dst.open /\ hold'[b].dst.path = hold[b].dst.path
          \/ /\ hold'[b].dst.path \in Makes(r)
             /\ b = a \/ (hold[b].dst.open /\ hold[b].dst.path \in Reach(r))
    /\ \A b \in Actors \ {a} :
          /\ hold[b].src.path \notin Reach(r) => hold'[b].src = hold[b].src
          /\ hold[b].dst.path \notin Reach(r) => hold'[b].dst = hold[b].dst

WorldStep(a) ==
    LET r == job[a].request IN
    /\ disk' \in Maps
    /\ hold' \in Held
    /\ FilesStay(a)
    /\ \A b \in Actors \ {a} : hold'[b].dst.open = hold[b].dst.open
    /\ \A s \in Paths \ Changed(a) :
          disk'[s] = disk[s] \/ (hold[a].dst.open /\ ~hold[a].dst.gone /\ hold[a].dst.path = s)
    /\ \A s \in Paths : Exists(disk, s) /\ ~Exists(disk', s) =>
          s \in Reach(r) /\ r.op \in RemovingOps
    /\ \A p \in Paths : (p \in Reach(r) => r.op = "append_file") /\ Calm(hold, p) =>
          /\ IsStart(disk[p].content, disk'[p].content)
          /\ Calm(hold', p)
          /\ \A b \in Actors \ {a} : AppendsAt(hold[b].dst, p) => AppendsAt(hold'[b].dst, p)

\* The request has been one of a task's.
Known(r) == \E u \in Tasks : \E i \in DOMAIN script[u] : script[u][i] = r

LEMMA StartsItself == \A c \in Contents : IsStart(c, c)
BY DEF IsStart, Contents

LEMMA StartsOn ==
    ASSUME NEW s \in Contents, NEW c \in Contents, NEW d \in Contents,
           IsStart(s, c), IsStart(c, d)
    PROVE  IsStart(s, d)
<1>1. Len(s) \in Nat /\ Len(c) \in Nat /\ Len(d) \in Nat /\ Len(s) <= Len(c) /\ Len(c) <= Len(d)
  BY DEF IsStart, Contents
<1>2. /\ SubSeq(d, 1, Len(s)) \in Contents /\ Len(SubSeq(d, 1, Len(s))) = Len(s)
      /\ \A i \in 1 .. Len(s) : SubSeq(d, 1, Len(s))[i] = d[i]
  BY <1>1 DEF Contents
<1>3. \A i \in 1 .. Len(s) : s[i] = c[i]
  <2>1. \A i \in 1 .. Len(s) : SubSeq(c, 1, Len(s))[i] = c[i]
    BY <1>1 DEF Contents
  <2> QED
    BY <2>1 DEF IsStart
<1>4. \A i \in 1 .. Len(c) : c[i] = d[i]
  <2>1. \A i \in 1 .. Len(c) : SubSeq(d, 1, Len(c))[i] = d[i]
    BY <1>1 DEF Contents
  <2> QED
    BY <2>1 DEF IsStart
<1>5. SubSeq(d, 1, Len(s)) = s
  <2> DEFINE x == SubSeq(d, 1, Len(s))
  <2>1. \A i \in 1 .. Len(s) : x[i] = s[i]
    BY <1>1, <1>2, <1>3, <1>4
  <2> HIDE DEF x
  <2> QED
    BY <1>2, <2>1, SeqEqual DEF x, Contents
<1> QED
  BY <1>1, <1>5 DEF IsStart

\* What is written with O_APPEND goes behind what is there.
LEMMA WrittenContent ==
    ASSUME NEW content \in Contents, NEW h \in OpenFiles, NEW data \in Contents
    PROVE  /\ Written(content, h, data) \in Contents
           /\ h.appending => Written(content, h, data) = content \o data
<1> DEFINE pos == IF h.appending THEN Len(content) ELSE h.pos
           end == pos + Len(data)
           n == IF end > Len(content) THEN end ELSE Len(content)
           w == [i \in 1 .. n |-> IF i > pos /\ i <= end THEN data[i - pos]
                                  ELSE IF i <= Len(content) THEN content[i] ELSE 0]
<1>1. /\ Len(content) \in Nat /\ Len(data) \in Nat /\ h.pos \in Nat
      /\ pos \in Nat /\ end \in Nat /\ n \in Nat
  BY DEF Contents, OpenFiles
<1>2. \A i \in 1 .. Len(content) : content[i] \in Bytes \cup {0}
  BY ElementOfSeq DEF Contents
<1>3. \A i \in 1 .. Len(data) : data[i] \in Bytes \cup {0}
  BY ElementOfSeq DEF Contents
<1>4. ASSUME NEW i \in 1 .. n PROVE w[i] \in Bytes \cup {0}
  <2>1. CASE i > pos /\ i <= end
    <3>1. i - pos \in 1 .. Len(data)
      BY <1>1, <2>1
    <3> QED
      BY <1>3, <2>1, <3>1
  <2>2. CASE ~(i > pos /\ i <= end)
    BY <1>1, <1>2, <2>2
  <2> QED
    BY <2>1, <2>2
<1>5. w \in Contents /\ Len(w) = n
  <2> HIDE DEF n
  <2>1. w \in [1 .. n -> Bytes \cup {0}] /\ DOMAIN w = 1 .. n
    BY <1>4
  <2> HIDE DEF w
  <2>2. w \in Seq(Bytes \cup {0}) /\ Len(w) = n
    BY <1>1, <2>1
  <2> QED
    BY <2>2 DEF Contents
<1>6. h.appending => w = content \o data
  <2> SUFFICES ASSUME h.appending PROVE w = content \o data
    OBVIOUS
  <2> DEFINE c == content \o data
  <2>1. pos = Len(content) /\ n = Len(content) + Len(data)
    BY <1>1
  <2>2. /\ c \in Contents /\ Len(c) = Len(content) + Len(data)
        /\ \A i \in 1 .. Len(content) + Len(data) :
              c[i] = IF i <= Len(content) THEN content[i] ELSE data[i - Len(content)]
    BY DEF Contents
  <2>3. ASSUME NEW i \in 1 .. n PROVE w[i] = c[i]
    BY <1>1, <2>1, <2>2
  <2> HIDE DEF c, w
  <2>4. w = c
    BY <1>5, <2>1, <2>2, <2>3, SeqEqual DEF Contents
  <2> QED
    BY <2>4 DEF c
<1> QED
  BY <1>5, <1>6 DEF Written

LEMMA JoinStarts ==
    ASSUME NEW c \in Contents, NEW d \in Contents
    PROVE  IsStart(c, c \o d) /\ SubSeq(c \o d, Len(c) + 1, Len(c) + Len(d)) = d
<1> DEFINE e == c \o d
           x == SubSeq(e, 1, Len(c))
           y == SubSeq(e, Len(c) + 1, Len(c) + Len(d))
<1>1. /\ Len(c) \in Nat /\ Len(d) \in Nat
      /\ e \in Contents /\ Len(e) = Len(c) + Len(d)
      /\ \A i \in 1 .. Len(c) + Len(d) : e[i] = IF i <= Len(c) THEN c[i] ELSE d[i - Len(c)]
  BY DEF Contents
<1> HIDE DEF e
<1>2. x \in Contents /\ Len(x) = Len(c) /\ \A i \in 1 .. Len(c) : x[i] = e[i]
  BY <1>1 DEF Contents
<1>3. y \in Contents /\ Len(y) = Len(d) /\ \A i \in 1 .. Len(d) : y[i] = e[Len(c) + i]
  BY <1>1 DEF Contents
<1> HIDE DEF x, y
<1>4. \A i \in 1 .. Len(c) : x[i] = c[i]
  BY <1>1, <1>2
<1>5. ASSUME NEW i \in 1 .. Len(d) PROVE y[i] = d[i]
  <2>1. Len(c) + i \in 1 .. Len(c) + Len(d) /\ ~(Len(c) + i <= Len(c)) /\ Len(c) + i - Len(c) = i
    BY <1>1
  <2> QED
    BY <1>1, <1>3, <2>1
<1>6. x = c /\ y = d
  BY <1>2, <1>3, <1>4, <1>5, SeqEqual DEF Contents
<1> QED
  BY <1>1, <1>6 DEF IsStart, e, x, y

\* The types of what a step finds.
LEMMA WorldTypes ==
    ASSUME NEW a, Acting(a)
    PROVE  /\ disk \in Maps /\ hold \in Held /\ job[a].request \in Requests
           /\ Reach(job[a].request) \subseteq Paths
           /\ Makes(job[a].request) \subseteq Reach(job[a].request)
           /\ Makes(job[a].request) \subseteq Changed(a) /\ Changed(a) \subseteq Reach(job[a].request)
           /\ \A b \in Actors : hold[b].src \in OpenFiles /\ hold[b].dst \in OpenFiles
           /\ \A p \in Paths : disk[p] \in Entries /\ disk[p].content \in Contents
<1>1. disk \in Maps /\ hold \in Held
  BY DEF Acting, DiskTypeOK, Held
<1>2. \A b \in Actors : hold[b].src \in OpenFiles /\ hold[b].dst \in OpenFiles
  BY <1>1 DEF Held
<1>3. \A p \in Paths : disk[p] \in Entries /\ disk[p].content \in Contents
  BY <1>1, EntryFields DEF Maps
<1>4. Makes(job[a].request) \subseteq Changed(a) /\ Changed(a) \subseteq Reach(job[a].request)
  BY DEF Makes, Changed
<1> QED
  BY <1>1, <1>2, <1>3, <1>4, ActingFacts, Reached

\* A step that leaves everybody else's files alone: what it opens to write to is
\* where the request may make something.
LEMMA OwnFilesOK ==
    ASSUME NEW a, Acting(a), NEW o,
           LET r == job[a].request IN
           \/ disk' = disk
           \/ r.op # "append_file" /\ disk' = o.map /\ Confined(disk, o, Makes(r), FALSE),
           hold' \in Held, \A b \in Actors \ {a} : hold'[b] = hold[b],
           \/ hold'[a].dst = hold[a].dst
           \/ /\ hold'[a].dst.path \in Makes(job[a].request)
              /\ hold'[a].dst.appending \/ job[a].request.op # "append_file"
    PROVE  WorldStep(a)
<1> DEFINE r == job[a].request
<1>1. /\ a \in Actors /\ disk \in Maps /\ r \in Requests
      /\ Makes(r) \subseteq Reach(r) /\ Makes(r) \subseteq Changed(a)
      /\ \A p \in Paths : disk[p].content \in Contents
  BY WorldTypes DEF Acting
<1>2. /\ disk' \in Maps
      /\ \A s \in Paths \ Changed(a) : disk'[s] = disk[s]
      /\ \A s \in Paths : Exists(disk, s) => Exists(disk', s)
  BY <1>1 DEF Confined
<1>3. ASSUME NEW p \in Paths, p \in Reach(r) => r.op = "append_file", Calm(hold, p)
      PROVE  /\ IsStart(disk[p].content, disk'[p].content)
             /\ Calm(hold', p)
             /\ \A b \in Actors \ {a} : AppendsAt(hold[b].dst, p) => AppendsAt(hold'[b].dst, p)
  <2>1. disk'[p] = disk[p]
    BY <1>1, <1>3 DEF Confined
  <2>2. ASSUME NEW b \in Actors
        PROVE  LET h == hold'[b].dst IN h.open /\ h.path = p /\ ~h.gone => h.appending
    BY <1>1, <1>3, <2>2 DEF Calm
  <2> QED
    BY <1>1, <2>1, <2>2, StartsItself DEF Calm
<1>4. FilesStay(a)
  <2>1. ASSUME NEW b \in Actors, hold'[b].dst.open
        PROVE  \/ hold[b].dst.open /\ hold'[b].dst.path = hold[b].dst.path
               \/ hold'[b].dst.path \in Makes(r) /\ b = a
    BY <2>1
  <2> QED
    BY <2>1 DEF FilesStay
<1> QED
  BY <1>1, <1>2, <1>3, <1>4 DEF WorldStep

\* A call of the operating system that changes what others have open.
LEMMA ApplyOK ==
    ASSUME NEW a, Acting(a), NEW o, job[a].request.op # "append_file", NEW removes \in BOOLEAN,
           removes => job[a].request.op \in RemovingOps,
           NEW R, R \subseteq Changed(a), Confined(disk, o, R, removes),
           o.from # o.to =>
               \A s \in Paths : Below(s, o.from) => Rebase(s, o.from, o.to) \in Makes(job[a].request),
           Apply(o)
    PROVE  WorldStep(a) /\ hold'[a].dst.open = hold[a].dst.open
<1> DEFINE r == job[a].request
<1>1. /\ a \in Actors /\ disk \in Maps /\ R \subseteq Paths /\ R \subseteq Reach(r)
      /\ \A b \in Actors : hold[b].src \in OpenFiles /\ hold[b].dst \in OpenFiles
      /\ \A p \in Paths : disk[p].content \in Contents
  BY WorldTypes DEF Acting
<1>2. /\ disk' = o.map
      /\ hold' = [b \in Actors |-> [src |-> Follow(hold[b].src, disk, o),
                                    dst |-> Follow(hold[b].dst, disk, o)]]
  BY DEF Apply
<1>3. ASSUME NEW b \in Actors
      PROVE  LET h == hold[b].dst
                 g == hold'[b].dst
             IN /\ hold'[b] \in [src : OpenFiles, dst : OpenFiles]
                /\ g.open = h.open /\ g.appending = h.appending
                /\ \A p \in Paths \ R :
                      /\ g.open /\ g.path = p /\ ~g.gone => h.path = p /\ ~h.gone
                      /\ AppendsAt(h, p) => AppendsAt(g, p)
                /\ h.open => g.path = h.path \/ (h.path \in R /\ g.path \in Makes(r))
                /\ h.path \notin R => g = h
                /\ hold[b].src.path \notin R => hold'[b].src = hold[b].src
  <2> DEFINE s == Follow(hold[b].src, disk, o)
             d == Follow(hold[b].dst, disk, o)
  <2>1. hold'[b] = [src |-> s, dst |-> d]
    BY <1>2
  <2>2. /\ s \in OpenFiles /\ d \in OpenFiles
        /\ d.open = hold[b].dst.open /\ d.appending = hold[b].dst.appending
        /\ \A p \in Paths \ R :
              /\ d.open /\ d.path = p /\ ~d.gone => hold[b].dst.path = p /\ ~hold[b].dst.gone
              /\ AppendsAt(hold[b].dst, p) => AppendsAt(d, p)
    BY <1>1, FollowingFile
  <2>3. /\ hold[b].dst.open => \/ d.path = hold[b].dst.path
                               \/ hold[b].dst.path \in R /\ d.path \in Makes(r)
        /\ hold[b].dst.path \notin R => d = hold[b].dst
        /\ hold[b].src.path \notin R => s = hold[b].src
    BY <1>1, FileKept
  <2> HIDE DEF s, d
  <2> QED
    BY <2>1, <2>2, <2>3
<1>4. hold' \in Held
  <2>1. hold' = [b \in Actors |-> hold'[b]]
    BY <1>2
  <2> QED
    BY <1>3, <2>1 DEF Held
<1>5. /\ disk' \in Maps
      /\ \A s \in Paths \ R : disk'[s] = disk[s]
      /\ \A s \in Paths : Exists(disk, s) /\ ~Exists(disk', s) => s \in R /\ r.op \in RemovingOps
  <2>1. disk' \in Maps /\ \A s \in Paths \ R : disk'[s] = disk[s]
    BY <1>2 DEF Confined
  <2>2. \A s \in Paths : Exists(disk, s) /\ ~Exists(disk', s) => s \in R
    BY <2>1 DEF Exists
  <2>3. ~removes => \A s \in Paths : Exists(disk, s) => Exists(disk', s)
    BY <1>2 DEF Confined
  <2> QED
    BY <2>1, <2>2, <2>3
<1>6. ASSUME NEW p \in Paths, p \in Reach(r) => r.op = "append_file", Calm(hold, p)
      PROVE  /\ IsStart(disk[p].content, disk'[p].content)
             /\ Calm(hold', p)
             /\ \A b \in Actors \ {a} : AppendsAt(hold[b].dst, p) => AppendsAt(hold'[b].dst, p)
  <2>1. p \in Paths \ R
    BY <1>1, <1>6
  <2>2. disk'[p] = disk[p]
    BY <1>5, <2>1
  <2>3. Calm(hold', p)
    BY <1>3, <1>6, <2>1 DEF Calm
  <2> QED
    BY <1>1, <1>3, <2>1, <2>2, <2>3, StartsItself
<1>7. FilesStay(a)
  <2>1. ASSUME NEW b \in Actors, hold'[b].dst.open
        PROVE  \/ hold[b].dst.open /\ hold'[b].dst.path = hold[b].dst.path
               \/ /\ hold'[b].dst.path \in Makes(r)
                  /\ hold[b].dst.open /\ hold[b].dst.path \in Reach(r)
    BY <1>1, <1>3, <2>1
  <2>2. ASSUME NEW b \in Actors
        PROVE  /\ hold[b].src.path \notin Reach(r) => hold'[b].src = hold[b].src
               /\ hold[b].dst.path \notin Reach(r) => hold'[b].dst = hold[b].dst
    BY <1>1, <1>3, <2>2
  <2> QED
    BY <2>1, <2>2 DEF FilesStay
<1> QED
  BY <1>1, <1>3, <1>4, <1>5, <1>6, <1>7 DEF WorldStep

\* Bytes written to an open file.
LEMMA PutOK ==
    ASSUME NEW a, Acting(a), hold[a].dst.open,
           NEW data \in Contents, NEW src \in OpenFiles, Put(a, data, src)
    PROVE  /\ WorldStep(a)
           /\ hold'[a].dst.open
           /\ \A p \in Paths : AppendsAt(hold[a].dst, p) =>
                 disk'[p].content = disk[p].content \o data
<1> DEFINE r == job[a].request
           h == hold[a].dst
           old == ContentOf(disk, h)
           content == Written(old, h, data)
           pos == h.pos + Len(data)
           kept == IF h.gone THEN content ELSE h.content
           g == [[h EXCEPT !.pos = pos] EXCEPT !.content = kept]
<1>1. /\ a \in Actors /\ disk \in Maps /\ hold \in Held
      /\ h \in OpenFiles /\ h.path \in Paths /\ h.pos \in Nat /\ h.content \in Contents
      /\ \A p \in Paths : disk[p] \in Entries /\ disk[p].content \in Contents
  BY WorldTypes DEF Acting, OpenFiles
<1>2. old \in Contents /\ Len(data) \in Nat
  BY <1>1 DEF ContentOf, Contents
<1>3. content \in Contents /\ (h.appending => content = old \o data)
  BY <1>1, <1>2, WrittenContent
<1>4. /\ disk' = IF h.gone THEN disk ELSE Insert(disk, h.path, FileEntry(content))
      /\ hold' = [hold EXCEPT ![a].dst.pos = pos, ![a].dst.content = kept, ![a].src = src]
  BY DEF Put
<1> HIDE DEF content, old
<1>5. pos \in Nat /\ kept \in Contents
  BY <1>1, <1>2, <1>3
<1> HIDE DEF pos, kept
<1>6. /\ hold' \in Held /\ hold'[a].dst = g /\ \A b \in Actors \ {a} : hold'[b] = hold[b]
      /\ g.open = h.open /\ g.path = h.path /\ g.gone = h.gone /\ g.appending = h.appending
  <2>1. /\ g \in OpenFiles
        /\ g.open = h.open /\ g.path = h.path /\ g.gone = h.gone /\ g.appending = h.appending
    BY <1>1, <1>5 DEF OpenFiles
  <2> DEFINE x == hold[a]
             y == [x EXCEPT !.dst = [@ EXCEPT !.pos = pos]]
             z == [y EXCEPT !.dst = [@ EXCEPT !.content = kept]]
             w == [z EXCEPT !.src = src]
  <2>2. x \in [src : OpenFiles, dst : OpenFiles] /\ x.dst = h
    BY <1>1 DEF Held
  <2> HIDE DEF x
  <2>3. y \in [src : OpenFiles, dst : OpenFiles] /\ y.dst = [h EXCEPT !.pos = pos]
    BY <1>5, <2>2 DEF OpenFiles
  <2> HIDE DEF y
  <2>4. z \in [src : OpenFiles, dst : OpenFiles] /\ z.dst = g
    <3>1. z.dst = g
      BY <2>3
    <3> QED
      BY <2>1, <2>3, <3>1
  <2> HIDE DEF z
  <2>5. w \in [src : OpenFiles, dst : OpenFiles] /\ w.dst = g
    BY <2>4
  <2> HIDE DEF w
  <2>6. hold' = [hold EXCEPT ![a] = w]
    BY <1>4 DEF w, x, y, z
  <2> HIDE DEF g
  <2> QED
    BY <1>1, <2>1, <2>5, <2>6 DEF Held
<1> HIDE DEF g
<1>7. disk' \in Maps
  BY <1>1, <1>3, <1>4, EntryTypes, MapTypes
<1>8. \A s \in Paths : s # h.path => disk'[s] = disk[s]
  BY <1>1, <1>4 DEF Insert, Maps
<1>9. disk'[h.path] = IF h.gone THEN disk[h.path] ELSE FileEntry(content)
  BY <1>1, <1>4 DEF Insert, Maps
<1>10. \A s \in Paths : Exists(disk, s) => Exists(disk', s)
  BY <1>8, <1>9 DEF Exists, FileEntry
<1>11. \A p \in Paths : AppendsAt(h, p) => disk'[p].content = disk[p].content \o data
  BY <1>3, <1>9 DEF AppendsAt, FileEntry, ContentOf, old
<1>12. ASSUME NEW p \in Paths, Calm(hold, p)
       PROVE  /\ IsStart(disk[p].content, disk'[p].content)
              /\ Calm(hold', p)
              /\ \A b \in Actors \ {a} : AppendsAt(hold[b].dst, p) => AppendsAt(hold'[b].dst, p)
  <2>1. CASE h.path = p /\ ~h.gone
    <3>1. AppendsAt(h, p)
      BY <1>1, <1>12, <2>1 DEF Calm, AppendsAt
    <3> QED
      BY <1>1, <1>6, <1>11, <1>12, <3>1, JoinStarts DEF Calm
  <2>2. CASE ~(h.path = p /\ ~h.gone)
    <3>1. disk'[p] = disk[p]
      BY <1>8, <1>9, <2>2
    <3> QED
      BY <1>1, <1>6, <1>12, <3>1, StartsItself DEF Calm
  <2> QED
    BY <2>1, <2>2
<1>13. FilesStay(a)
  BY <1>1, <1>6 DEF FilesStay
<1>14. WorldStep(a)
  <2>1. \A s \in Paths : disk'[s] = disk[s] \/ (h.open /\ ~h.gone /\ h.path = s)
    BY <1>8, <1>9
  <2> QED
    BY <1>6, <1>7, <1>10, <1>12, <1>13, <2>1 DEF WorldStep
<1> QED
  BY <1>6, <1>11, <1>14

-----------------------------------------------------------------------------
(* The steps one by one.                                                    *)

StepOK(a) == JobStep(a) /\ WorldStep(a)

\* A step that only looks.
LEMMA LookingOK ==
    ASSUME NEW a, Acting(a), Now(a).do \notin Openings, UNCHANGED <<disk, hold>>
    PROVE  /\ WorldStep(a)
           /\ hold'[a].dst.open \in BOOLEAN
           /\ hold[a].dst.open \/ Now(a).do \in Openings => hold'[a].dst.open
BY OwnFilesOK, ActingFacts, WorldTypes

LEMMA GoesOnOrGivesUp ==
    ASSUME NEW a, Acting(a), Now(a).do \notin Openings, UNCHANGED <<disk, hold>>,
           NEW code \in Codes, NEW codes, NEW steps,
           code \in codes => Sound(job[a].request, steps, FALSE),
           Settle(a, code, codes, steps)
    PROVE  StepOK(a)
<1>1. /\ WorldStep(a)
      /\ hold'[a].dst.open \in BOOLEAN
      /\ hold[a].dst.open \/ Now(a).do \in Openings => hold'[a].dst.open
  BY LookingOK
<1>2. JobStep(a)
  BY <1>1, SettleOK
<1> QED
  BY <1>1, <1>2 DEF StepOK

\* Whatever is asked of the disk has an answer.
LEMMA AnswersOfDisk ==
    ASSUME NEW a, Acting(a)
    PROVE  /\ Metadata(disk, Here(a)) \in Replies
           /\ ReadDir(disk, Here(a)) \in Replies
           /\ OpenAnswer(disk, Here(a)) \in Codes /\ SetTime(disk, Here(a)) \in Codes
           /\ ContentOf(disk, OpenFile(disk, Here(a))) \in Contents
<1> DEFINE it == Now(a)
           q == OsPath(Here(a))
<1>1. it.path \in Places /\ q = Os(it.path) /\ q \in Paths
  BY ActingFacts DEF Here, Os
<1>2. disk[q] \in Entries /\ disk[q].kind \in Kinds /\ disk[q].content \in Contents
  BY <1>1, WorldTypes, EntryFields
<1> HIDE DEF q
<1>3. OpenAnswer(disk, Here(a)) \in Codes /\ SetTime(disk, Here(a)) \in Codes
  BY VfsCodes DEF OpenAnswer, SetTime
<1>4. ContentOf(disk, OpenFile(disk, Here(a))) \in Contents
  <2>1. OpenFile(disk, Here(a)) = [Opened(q) EXCEPT !.directory = IsDirectory(disk, q)]
    BY DEF OpenFile, q
  <2>2. /\ OpenFile(disk, Here(a)).gone = FALSE
        /\ OpenFile(disk, Here(a)).path = q
    BY <2>1 DEF Opened, Closed
  <2> QED
    BY <1>2, <2>2 DEF ContentOf
<1>5. Metadata(disk, Here(a)) \in Replies
  <2>1. Answer("Ok") \in Replies /\ \A e : Answer(VfsCode(e)) \in Replies
    BY PlainAnswers, VfsCodes DEF Codes
  <2>2. Len(disk[q].content) \in Nat
    BY <1>2 DEF Contents
  <2>3. [Answer("Ok") EXCEPT !.kind = disk[q].kind, !.len = Len(disk[q].content)] \in Replies
    BY <1>2, <2>1, <2>2 DEF Replies
  <2> QED
    BY <2>1, <2>3 DEF Metadata, q
<1>6. ReadDir(disk, Here(a)) \in Replies
  <2> DEFINE entries == {SubSeq(x, Len(PhysRoot) + 1, Len(x)) : x \in Children(disk, q)}
  <2>1. entries \in SUBSET AnyPath
    <3>1. ASSUME NEW x \in Children(disk, Os(it.path))
          PROVE  SubSeq(x, Len(PhysRoot) + 1, Len(x)) \in AnyPath
      BY <1>1, ListedPlaces
    <3> QED
      BY <1>1, <3>1
  <2>2. Answer("Ok") \in Replies /\ Answer("IoError") \in Replies
        /\ \A e : Answer(VfsCode(e)) \in Replies
    BY PlainAnswers, VfsCodes DEF Codes
  <2>3. ReadDir(disk, Here(a)) = IF IsDirectory(disk, q) THEN [Answer("Ok") EXCEPT !.entries = entries]
            ELSE Answer(IF IsFile(disk, q) THEN "IoError" ELSE VfsCode(Find(disk, q)))
    BY DEF ReadDir, q
  <2> HIDE DEF entries
  <2>4. [Answer("Ok") EXCEPT !.entries = entries] \in Replies
    BY <2>1, <2>2 DEF Replies
  <2> QED
    BY <2>2, <2>3, <2>4
<1> QED
  BY <1>3, <1>4, <1>5, <1>6

LEMMA ReplyOK ==
    ASSUME NEW a, Acting(a), NEW step, step \notin Openings, NEW answer \in Replies,
           Reply(a, step, answer)
    PROVE  StepOK(a)
<1>1. Now(a).do \notin Openings /\ UNCHANGED <<disk, hold>>
  BY DEF Reply, At
<1>2. WorldStep(a)
  BY <1>1, LookingOK
<1>3. JobStep(a)
  BY EndOK DEF Reply
<1> QED
  BY <1>2, <1>3 DEF StepOK

LEMMA QuestionsOK ==
    ASSUME NEW a, Acting(a),
           \/ OpenFileStep(a) \/ MetadataStep(a) \/ ExistsStep(a) \/ ReadDirStep(a)
           \/ SetTimeStep(a) \/ SetTimeElsewhere(a)
    PROVE  StepOK(a)
<1>1. \A step \in {"open_file", "metadata", "exists", "read_dir", "set_time", "set_time_elsewhere"} :
          step \notin Openings
  BY DEF Openings
<1>2. \A answer \in Replies :
          \A step \in {"open_file", "metadata", "exists", "read_dir", "set_time",
                       "set_time_elsewhere"} :
             Reply(a, step, answer) => StepOK(a)
  BY <1>1, ReplyOK
<1>3. /\ Metadata(disk, Here(a)) \in Replies /\ ReadDir(disk, Here(a)) \in Replies
      /\ OpenAnswer(disk, Here(a)) \in Codes /\ SetTime(disk, Here(a)) \in Codes
      /\ ContentOf(disk, OpenFile(disk, Here(a))) \in Contents
  BY AnswersOfDisk
<1>4. \A code \in Codes : Answer(code) \in Replies
  BY PlainAnswers
<1>5. "Ok" \in Codes /\ "True" \in Codes /\ "False" \in Codes /\ "NotSupported" \in Codes
  BY DEF Codes
<1>6. CASE OpenFileStep(a)
  <2> DEFINE content == ContentOf(disk, OpenFile(disk, Here(a)))
  <2>1. \A c \in Contents : [Answer("Ok") EXCEPT !.content = c] \in Replies
    BY <1>4, <1>5 DEF Replies
  <2> QED
    BY <1>2, <1>3, <1>4, <1>6, <2>1 DEF OpenFileStep
<1>7. CASE MetadataStep(a)
  BY <1>2, <1>3, <1>7 DEF MetadataStep
<1>8. CASE ExistsStep(a)
  BY <1>2, <1>4, <1>5, <1>8 DEF ExistsStep
<1>9. CASE ReadDirStep(a)
  BY <1>2, <1>3, <1>9 DEF ReadDirStep
<1>10. CASE SetTimeStep(a)
  BY <1>2, <1>3, <1>4, <1>10 DEF SetTimeStep
<1>11. CASE SetTimeElsewhere(a)
  BY <1>2, <1>3, <1>4, <1>5, <1>11 DEF SetTimeElsewhere
<1> QED
  BY <1>6, <1>7, <1>8, <1>9, <1>10, <1>11

LEMMA ChecksOK ==
    ASSUME NEW a, Acting(a),
           ParentExists(a) \/ ParentIsDir(a) \/ Absent(a) \/ KindStep(a)
    PROVE  StepOK(a)
<1> DEFINE r == job[a].request
           q == Os(Now(a).path)
<1>1. Sound(r, << >>, FALSE)
  BY NothingIsSound
<1>2. q = OsPath(Here(a)) /\ q \in Paths
  BY ActingFacts DEF Here, Os
<1>3. /\ Now(a).do \in {"parent_exists", "parent_is_dir", "absent", "kind_there", "kind_ensured"}
      /\ UNCHANGED <<disk, hold>>
  BY DEF ParentExists, ParentIsDir, Absent, KindStep, At
<1>4. Now(a).do \notin Openings
  BY <1>3 DEF Openings
<1>5. /\ WorldStep(a)
      /\ hold'[a].dst.open \in BOOLEAN
      /\ hold[a].dst.open \/ Now(a).do \in Openings => hold'[a].dst.open
  BY <1>3, <1>4, LookingOK
<1>6. Resume(a, << >>) => JobStep(a)
  BY <1>1, <1>5, ResumeOK
<1>7. \A code \in Codes : Abort(a, code) => JobStep(a)
  BY AbortOK
<1>8. "NoParent" \in Codes /\ "FileExists" \in Codes /\ "DirectoryExists" \in Codes
  BY DEF Codes
<1>9. CASE ParentExists(a)
  BY <1>5, <1>6, <1>7, <1>8, <1>9 DEF ParentExists, StepOK
<1>10. CASE ParentIsDir(a)
  <2>1. Metadata(disk, Here(a)).code \in Codes
    BY AnswersOfDisk DEF Replies
  <2> QED
    BY <1>5, <1>6, <1>7, <1>8, <1>10, <2>1 DEF ParentIsDir, Settle, StepOK
<1>11. CASE Absent(a)
  BY <1>5, <1>6, <1>7, <1>8, <1>11 DEF Absent, StepOK
<1>12. CASE KindStep(a)
  <2> DEFINE kind == KindThere(disk, Here(a))
  <2>1. /\ kind = "Panic" => ~Exists(disk, q)
        /\ kind # "Panic" => kind \in Codes
    BY <1>2, <1>8 DEF KindThere
  <2>2. At(a, Looks) /\ kind = "Panic" /\ End(a, Answer("Ok"), "panicked") => JobStep(a)
    <3>1. Answer("Ok") \in Replies
      BY PlainAnswers DEF Codes
    <3> QED
      BY <2>1, <3>1, EndOK
  <2>3. At(a, Looks)
    BY <1>12 DEF KindStep, Looks
  <2> HIDE DEF kind
  <2>4. IF kind = "Panic" THEN End(a, Answer("Ok"), "panicked")
        ELSE Settle(a, kind, IF Now(a).do = "kind_ensured" THEN {"DirectoryExists"} ELSE {}, << >>)
    BY <1>12 DEF KindStep, kind
  <2> QED
    BY <1>5, <1>6, <1>7, <2>1, <2>2, <2>3, <2>4 DEF Settle, StepOK
<1> QED
  BY <1>9, <1>10, <1>11, <1>12

LEMMA HeadFits ==
    ASSUME NEW a, Acting(a)
    PROVE  /\ Fits(job[a].request, Now(a))
           /\ Now(a).do \notin {"open_append", "write"} => job[a].request.op # "append_file"
<1>1. Fits(job[a].request, Now(a))
  BY ActingFacts DEF FittingItems
<1>2. \A h : Do("open_append", h).do = "open_append" /\ Do("write", h).do = "write"
  BY DEF Do
<1> QED
  BY <1>1, <1>2 DEF Fits

LEMMA FirstOfJoined ==
    ASSUME NEW S, NEW x \in S, NEW t \in Seq(S)
    PROVE  /\ <<x>> \o t \in Seq(S) /\ <<x>> \o t # << >> /\ Head(<<x>> \o t) = x
<1> DEFINE c == <<x>> \o t
<1>1. /\ c \in Seq(S) /\ Len(c) = 1 + Len(t) /\ Len(t) \in Nat
      /\ c[1] = x
  OBVIOUS
<1> HIDE DEF c
<1>2. c # << >>
  BY <1>1, EmptySeq
<1>3. Head(c) = x
  BY <1>1, <1>2, HeadTailProperties
<1> QED
  BY <1>1, <1>2, <1>3 DEF c

LEMMA FittingAreItems == \A r : \A s \in Seq(FittingItems(r)) : s \in Seq(Items)
BY DEF FittingItems

LEMMA CreateDirOK ==
    ASSUME NEW a, Acting(a), CreateDirStep(a)
    PROVE  StepOK(a)
<1> DEFINE r == job[a].request
           h == Now(a).path
           q == Os(h)
           o == CreateDir(disk, Here(a))
           look == IF Now(a).do = "ensure_dir" THEN "kind_ensured" ELSE "kind_there"
           tail == Tail(job[a].agenda)
<1>1. /\ a \in Actors /\ h \in Places /\ q \in Paths /\ disk \in Maps /\ Reach(r) \subseteq Paths
      /\ hold[a].dst.open \in BOOLEAN /\ Sound(r, tail, hold[a].dst.open \/ Now(a).do \in Openings)
      /\ Makes(r) \subseteq Reach(r) /\ Makes(r) \subseteq Changed(a)
  BY ActingFacts, WorldTypes
<1>2. Now(a).do \in {"create_dir", "ensure_dir"} /\ Apply(o)
  BY DEF CreateDirStep, At
<1>3. Now(a).do \in Makings /\ Now(a).do \notin Openings /\ r.op # "append_file"
  BY <1>2, HeadFits DEF Makings, Openings
<1>4. q \in Makes(r)
  BY <1>3, HeadFits DEF Fits
<1>5. o = Mkdir(disk, q)
  BY DEF CreateDir, Os, Here
<1>6. /\ Confined(disk, o, Makes(r), FALSE) /\ o.from = o.to
      /\ o.error = "AlreadyExists" => Exists(disk, q) /\ o.map = disk
  <2>1. Makes(r) \in SUBSET Paths
    BY <1>1
  <2>2. /\ Confined(disk, o, Makes(r), FALSE)
        /\ o.error = "AlreadyExists" => Exists(disk, q) /\ o.map = disk
    BY <1>1, <1>4, <1>5, <2>1, MakingCalls
  <2> QED
    BY <2>2 DEF Confined
<1> HIDE DEF o
<1>7. WorldStep(a) /\ hold'[a].dst.open = hold[a].dst.open
  BY <1>1, <1>2, <1>3, <1>6, ApplyOK
<1>8. CASE o.error # "AlreadyExists"
  <2>1. Settle(a, VfsCode(o.error), {"Ok"}, << >>)
    BY <1>8 DEF CreateDirStep, o
  <2>2. JobStep(a)
    BY <1>1, <1>3, <1>7, <2>1, VfsCodes, NothingIsSound, SettleOK
  <2> QED
    BY <1>7, <2>2 DEF StepOK
<1>9. CASE o.error = "AlreadyExists"
  <2> DEFINE it == Do(look, h)
             mine == IF a \in Tasks THEN <<it>> ELSE << >>
             agenda == mine \o tail
  <2>1. Resume(a, <<it>>)
    BY <1>9 DEF CreateDirStep, o
  <2>2. /\ look \in Makings /\ look \in Looks
    BY DEF Makings, Looks
  <2>3. it \in FittingItems(r) /\ it.do = look /\ it.path = h
    BY <1>1, <1>3, <1>4, <2>2, MakingFits DEF Do
  <2> HIDE DEF it
  <2>4. Sound(r, tail, hold'[a].dst.open)
    BY <1>1, <1>3, <1>7
  <2>5. /\ AgendaOK(r, agenda, hold'[a].dst.open)
        /\ agenda \in Seq(Items)
        /\ agenda # << >> /\ Head(agenda).do \in Looks => Head(agenda) = it
    <3>1. tail \in Seq(FittingItems(r)) /\ << >> \o tail = tail
      BY <1>1 DEF Sound
    <3>2. CASE a \in Tasks
      <4>1. agenda = <<it>> \o tail
        BY <3>2
      <4>2. AgendaOK(r, agenda, hold'[a].dst.open)
        BY <1>1, <1>7, <2>2, <2>3, <2>4, <4>1, LookIsOK
      <4>3. Head(agenda) = it /\ agenda \in Seq(FittingItems(r))
        BY <2>3, <3>1, <4>1, FirstOfJoined
      <4> HIDE DEF mine, agenda
      <4>4. agenda \in Seq(Items)
        BY <4>3, FittingAreItems
      <4> QED
        BY <4>2, <4>3, <4>4
    <3>3. CASE a \notin Tasks
      <4>1. agenda = tail
        BY <3>1, <3>3
      <4>2. agenda # << >> => Head(agenda).do \notin Looks
        <5> SUFFICES ASSUME tail # << >> PROVE Head(tail).do \notin Looks
          BY <4>1
        <5> HIDE DEF tail
        <5>1. 1 \in DOMAIN tail /\ Head(tail) = tail[1]
          BY <3>1, EmptySeq, LenProperties, HeadTailProperties
        <5> QED
          BY <2>4, <5>1 DEF Sound
      <4> QED
        <5> HIDE DEF mine, agenda
        <5>1. AgendaOK(r, tail, hold'[a].dst.open) /\ tail \in Seq(Items)
          BY <2>4, <3>1, SoundIsOK, FittingAreItems
        <5> QED
          BY <4>1, <4>2, <5>1
    <3> QED
      BY <3>2, <3>3
  <2>6. job' = [job EXCEPT ![a].agenda = agenda,
                           ![a].end = IF agenda = << >> THEN "returned" ELSE @]
    BY <2>1 DEF Resume
  <2> HIDE DEF agenda
  <2>7. job \in [Actors -> Jobs]
    BY DEF Acting, DiskTypeOK, Jobs
  <2>8. /\ job' \in [Actors -> Jobs]
        /\ \A b \in Actors \ {a} : job'[b] = job[b]
        /\ job'[a].request = r /\ job'[a].agenda = agenda
        /\ job'[a].end = "panicked" => job[a].end = "panicked"
    BY <1>1, <2>5, <2>6, <2>7 DEF Jobs
  <2>9. Exists(disk', Os(it.path))
    BY <1>2, <1>6, <1>9, <2>3 DEF Apply
  <2>10. JobStep(a)
    BY <2>5, <2>8, <2>9 DEF JobStep
  <2> QED
    BY <1>7, <2>10 DEF StepOK
<1> QED
  BY <1>8, <1>9

LEMMA ChangeOK ==
    ASSUME NEW a, Acting(a), NEW step, step \notin Openings, NEW o, Apply(o), NEW steps,
           job[a].request.op # "append_file", job[a].request.op \in RemovingOps,
           Confined(disk, o, Reach(job[a].request), TRUE), At(a, {step}),
           step \in Removals \cup Renames,
           o.from # o.to =>
               \A s \in Paths : Below(s, o.from) => Rebase(s, o.from, o.to) \in Makes(job[a].request),
           \/ Settle(a, VfsCode(o.error), {"Ok"}, << >>)
           \/ Resume(a, steps) /\ Sound(job[a].request, steps, FALSE)
    PROVE  StepOK(a)
<1>1. WorldStep(a) /\ hold'[a].dst.open = hold[a].dst.open
  <2>1. Changed(a) = Reach(job[a].request)
    BY DEF Changed, At
  <2> QED
    BY <2>1, ApplyOK
<1>2. Now(a).do \notin Openings /\ hold[a].dst.open \in BOOLEAN
  BY ActingFacts DEF At
<1>3. Sound(job[a].request, << >>, FALSE) /\ VfsCode(o.error) \in Codes
  BY NothingIsSound, VfsCodes
<1>4. CASE Settle(a, VfsCode(o.error), {"Ok"}, << >>)
  <2>1. JobStep(a)
    BY <1>1, <1>2, <1>3, <1>4, SettleOK
  <2> QED
    BY <1>1, <2>1 DEF StepOK
<1>5. CASE Resume(a, steps) /\ Sound(job[a].request, steps, FALSE)
  <2>1. JobStep(a)
    BY <1>1, <1>2, <1>5, ResumeOK
  <2> QED
    BY <1>1, <2>1 DEF StepOK
<1> QED
  BY <1>4, <1>5

LEMMA RemovalsOK ==
    ASSUME NEW a, Acting(a), RemoveFileStep(a) \/ RemoveDirStep(a)
    PROVE  StepOK(a)
<1> DEFINE r == job[a].request
           q == Os(Now(a).path)
           x == RemoveFile(disk, Here(a))
           y == RemoveDir(disk, Here(a))
<1>1. /\ r \in Requests /\ q \in Paths /\ disk \in Maps /\ Reach(r) \subseteq Paths
  BY ActingFacts, WorldTypes
<1>2. Now(a).do \in Removals /\ Now(a).do \notin Openings /\ r.op # "append_file"
  BY HeadFits DEF RemoveFileStep, RemoveDirStep, Change, At, Removals, Openings
<1>3. r.op \in RemovingOps /\ q \in Reach(r)
  <2>1. r.op \in RemovingOps /\ Below(q, Os(r.path))
    BY <1>2, HeadFits DEF Fits
  <2> QED
    BY <1>1, <2>1, Reached
<1>4. x = Unlink(disk, q) /\ y = Rmdir(disk, q)
  BY DEF RemoveFile, RemoveDir, Os, Here
<1>5. /\ Confined(disk, x, Reach(r), TRUE) /\ Confined(disk, y, Reach(r), TRUE)
      /\ x.from = x.to /\ y.from = y.to
  <2>1. x.from = x.to /\ y.from = y.to
    BY <1>4 DEF Unlink, Rmdir, Outcome
  <2> QED
    BY <1>1, <1>3, <1>4, <2>1, RemovingCalls
<1> HIDE DEF x, y
<1>6. CASE RemoveFileStep(a)
  <2>1. /\ At(a, {"remove_file"}) /\ Apply(x) /\ Settle(a, VfsCode(x.error), {"Ok"}, << >>)
        /\ "remove_file" \notin Openings /\ "remove_file" \in Removals \cup Renames
    BY <1>6 DEF RemoveFileStep, Change, Openings, Removals, x
  <2> QED
    BY <1>2, <1>3, <1>5, <2>1, ChangeOK
<1>7. CASE RemoveDirStep(a)
  <2>1. /\ At(a, {"remove_dir"}) /\ Apply(y) /\ Settle(a, VfsCode(y.error), {"Ok"}, << >>)
        /\ "remove_dir" \notin Openings /\ "remove_dir" \in Removals \cup Renames
    BY <1>7 DEF RemoveDirStep, Change, Openings, Removals, y
  <2> QED
    BY <1>2, <1>3, <1>5, <2>1, ChangeOK
<1> QED
  BY <1>6, <1>7

\* What a task's request moves stays among the paths.
LEMMA MovesStay ==
    ASSUME NEW r \in Requests, Known(r), script \in Scripts, r.op \in CopyingOps,
           NEW s \in Paths, Below(s, Os(r.path))
    PROVE  Rebase(s, Os(r.path), Os(r.dest)) \in Paths
<1>1. Named(r.path) = Os(r.path) /\ Named(r.dest) = Os(r.dest)
  BY PlaceFields, OsPaths DEF Requests
<1>2. PICK u \in Tasks : \E i \in DOMAIN script[u] : script[u][i] = r
  BY DEF Known
<1>3. PICK i \in DOMAIN script[u] : script[u][i] = r
  BY <1>2
<1>4. \A x \in Paths : Below(x, Named(r.path)) => Rebase(x, Named(r.path), Named(r.dest)) \in Paths
  BY <1>3, MovesAssumption
<1> QED
  BY <1>1, <1>4

LEMMA FailedRename ==
    ASSUME NEW f, NEW p, NEW q, NEW e, Rename(f, p, q).error # "None"
    PROVE  [Rename(f, p, q) EXCEPT !.error = e] = Outcome(f, e)
<1>1. PICK x : Rename(f, p, q) = Outcome(f, x)
  BY DEF Rename, Outcome
<1>2. [Outcome(f, x) EXCEPT !.error = e] = Outcome(f, e)
  BY DEF Outcome
<1> QED
  BY <1>1, <1>2

LEMMA RenamesOK ==
    ASSUME NEW a, Acting(a), Known(job[a].request), script \in Scripts,
           RenameFile(a) \/ RenameDir(a)
    PROVE  StepOK(a)
<1> DEFINE r == job[a].request
           p == Os(r.path)
           q == Os(r.dest)
           x == MoveFile(disk, Here(a), Real(Now(a).dest))
           y == MoveDir(disk, Here(a), Real(Now(a).dest))
<1>1. /\ r \in Requests /\ disk \in Maps /\ Reach(r) \subseteq Paths
  BY ActingFacts, WorldTypes
<1>2. Now(a).do \in Renames /\ Now(a).do \notin Openings /\ r.op # "append_file"
  BY HeadFits DEF RenameFile, RenameDir, Change, At, Renames, Openings
<1>3. /\ r.op \in MovingOps /\ r.op \in CopyingOps /\ r.op \in RemovingOps
      /\ Now(a).path = r.path /\ Now(a).dest = r.dest
  BY <1>2, HeadFits DEF Fits, MovingOps, CopyingOps, RemovingOps
<1>4. /\ p \in Paths /\ q \in Paths
      /\ \A s \in Paths : Below(s, p) \/ Below(s, q) => s \in Reach(r)
      /\ \A s \in Paths : Below(s, p) => Rebase(s, p, q) \in Paths
  BY <1>1, <1>3, ActingFacts, Reached, MovesStay
<1>5. /\ x = Rename(disk, p, q)
      /\ y = IF x.error = "None" THEN x ELSE [x EXCEPT !.error = "NotSupported"]
  BY <1>3 DEF MoveFile, MoveDir, Os, Here
<1>6. \A s \in Paths : Below(s, p) => Rebase(s, p, q) \in Makes(r)
  <2>1. p \in AnyPath /\ q \in AnyPath /\ Paths \subseteq AnyPath
    BY <1>4, PathsAreSequences
  <2> QED
    BY <1>1, <1>3, <1>4, <2>1, RebasedIsBelow, Reached
<1> HIDE DEF p, q
<1>7. /\ Confined(disk, x, Reach(r), TRUE)
      /\ x.from # x.to =>
            \A s \in Paths : Below(s, x.from) => Rebase(s, x.from, x.to) \in Makes(r)
  <2>1. x.from = x.to \/ (x.from = p /\ x.to = q)
    BY <1>5 DEF Rename, Outcome
  <2> QED
    BY <1>1, <1>4, <1>5, <1>6, <2>1, RenamingCall
<1>8. /\ Confined(disk, y, Reach(r), TRUE)
      /\ y.from # y.to =>
            \A s \in Paths : Below(s, y.from) => Rebase(s, y.from, y.to) \in Makes(r)
  <2>1. CASE x.error = "None"
    BY <1>5, <1>7, <2>1
  <2>2. CASE x.error # "None"
    <3>1. y = Outcome(disk, "NotSupported")
      BY <1>5, <2>2, FailedRename
    <3>2. y.from = y.to
      BY <3>1 DEF Outcome
    <3> HIDE DEF y
    <3> QED
      BY <1>1, <3>1, <3>2, NothingDone
  <2> QED
    BY <2>1, <2>2
<1> HIDE DEF x, y
<1>9. CASE RenameFile(a)
  <2>1. /\ At(a, {"rename"}) /\ Apply(x) /\ Settle(a, VfsCode(x.error), {"Ok"}, << >>)
        /\ "rename" \notin Openings /\ "rename" \in Removals \cup Renames
    BY <1>9 DEF RenameFile, Change, Openings, Renames, x
  <2> QED
    BY <1>2, <1>3, <1>7, <2>1, ChangeOK
<1>10. CASE RenameDir(a)
  <2> DEFINE steps == IF y.error = "None" THEN << >> ELSE MoveTreeSteps(Now(a).path, Now(a).dest)
  <2>1. /\ At(a, {"rename_dir"}) /\ Apply(y) /\ Resume(a, steps)
        /\ "rename_dir" \notin Openings /\ "rename_dir" \in Removals \cup Renames
    BY <1>10 DEF RenameDir, Openings, Renames, y
  <2>2. Sound(r, steps, FALSE)
    BY <1>1, <1>3, NothingIsSound, MoveDirSound
  <2> HIDE DEF steps
  <2> QED
    BY <1>2, <1>3, <1>8, <2>1, <2>2, ChangeOK
<1> QED
  BY <1>9, <1>10

\* Files as they are opened.
LEMMA OpenedTypes ==
    ASSUME NEW q \in Paths, NEW f
    PROVE  /\ Opened(q) \in OpenFiles /\ Opened(q).open = TRUE /\ Opened(q).path = q
           /\ [Opened(q) EXCEPT !.directory = IsDirectory(f, q)] \in OpenFiles
           /\ [Opened(q) EXCEPT !.appending = TRUE] \in OpenFiles
           /\ [Opened(q) EXCEPT !.appending = TRUE].open = TRUE
           /\ [Opened(q) EXCEPT !.appending = TRUE].path = q
           /\ [Opened(q) EXCEPT !.appending = TRUE].gone = FALSE
           /\ [Opened(q) EXCEPT !.appending = TRUE].appending = TRUE
<1>1. IsDirectory(f, q) \in BOOLEAN
  BY DEF IsDirectory
<1>2. Opened(q) \in OpenFiles /\ Opened(q).open = TRUE /\ Opened(q).path = q /\ Opened(q).gone = FALSE
  BY EmptyContent, PathsAssumption DEF Opened, Closed, OpenFiles
<1>3. [Opened(q) EXCEPT !.directory = IsDirectory(f, q)] \in OpenFiles
  BY <1>1, <1>2 DEF OpenFiles
<1> QED
  BY <1>2, <1>3 DEF OpenFiles

LEMMA CreateFileOK ==
    ASSUME NEW a, Acting(a), CreateFileStep(a) \/ OsCopy(a)
    PROVE  StepOK(a)
<1> DEFINE r == job[a].request
           p == Os(Now(a).path)
           q == IF CreateFileStep(a) THEN Os(Now(a).path) ELSE Os(Now(a).dest)
           o == IF CreateFileStep(a) THEN CreateFile(disk, Here(a))
                ELSE CopyFile(disk, Here(a), Real(Now(a).dest))
<1>1. /\ a \in Actors /\ p \in Paths /\ q \in Paths /\ disk \in Maps /\ hold \in Held
      /\ Reach(r) \subseteq Paths /\ hold[a].dst.open \in BOOLEAN /\ Makes(r) \subseteq Reach(r)
  BY ActingFacts, WorldTypes
<1>2. /\ CreateFileStep(a) => Now(a).do = "create_file"
      /\ ~CreateFileStep(a) => Now(a).do = "os_copy"
  BY DEF CreateFileStep, OsCopy, At
<1>3. q \in Makes(r) /\ r.op # "append_file"
  BY <1>2, HeadFits DEF Fits, Makings
<1>4. Confined(disk, o, Makes(r), FALSE)
  <2>1. CASE CreateFileStep(a)
    <3>1. o = Creat(disk, q)
      BY <2>1 DEF CreateFile, Os, Here
    <3> QED
      BY <1>1, <1>3, <3>1, MakingCalls
  <2>2. CASE ~CreateFileStep(a)
    <3>1. o = CopyFile(disk, Here(a), Real(Now(a).dest)) /\ q = OsPath(Real(Now(a).dest))
      BY <2>2 DEF Os
    <3>2. o = Creat(disk, q) \/ \E e : o = Outcome(disk, e)
      BY <3>1 DEF CopyFile
    <3> HIDE DEF o, q, r
    <3>3. CASE o = Creat(disk, q)
      BY <1>1, <1>3, <3>3, MakingCalls
    <3>4. CASE \E e : o = Outcome(disk, e)
      <4>1. PICK e : o = Outcome(disk, e)
        BY <3>4
      <4> QED
        BY <1>1, <4>1, NothingDone
    <3> QED
      BY <3>2, <3>3, <3>4
  <2> QED
    BY <2>1, <2>2
<1>5. /\ disk' = o.map
      /\ \/ hold' = hold /\ o.error # "None"
         \/ hold' = [hold EXCEPT ![a].dst = Opened(q)]
         \/ hold' = [hold EXCEPT ![a].src = Opened(p), ![a].dst = Opened(q)]
      /\ Settle(a, VfsCode(o.error), {"Ok"}, << >>)
  BY DEF CreateFileStep, OsCopy
<1> HIDE DEF o, p, q
<1>6. Opened(p) \in OpenFiles /\ Opened(q) \in OpenFiles /\ Opened(q).open = TRUE /\ Opened(q).path = q
  BY <1>1, OpenedTypes
<1>7. /\ hold' \in Held /\ \A b \in Actors \ {a} : hold'[b] = hold[b]
      /\ \/ hold'[a].dst = hold[a].dst /\ o.error # "None"
         \/ hold'[a].dst = Opened(q)
  <2> DEFINE x == Opened(p)
             y == Opened(q)
  <2> HIDE DEF x, y
  <2>1. x \in OpenFiles /\ y \in OpenFiles
    BY <1>6 DEF x, y
  <2>2. CASE hold' = hold /\ o.error # "None"
    BY <1>1, <2>2
  <2>3. CASE hold' = [hold EXCEPT ![a].dst = y]
    <3>1. hold' \in Held /\ hold'[a].dst = y /\ \A b \in Actors \ {a} : hold'[b] = hold[b]
      BY <1>1, <2>1, <2>3 DEF Held
    <3> QED
      BY <3>1 DEF y
  <2>4. CASE hold' = [hold EXCEPT ![a].src = x, ![a].dst = y]
    <3>1. hold' \in Held /\ hold'[a].dst = y /\ \A b \in Actors \ {a} : hold'[b] = hold[b]
      BY <1>1, <2>1, <2>4 DEF Held
    <3> QED
      BY <3>1 DEF y
  <2> QED
    BY <1>5, <2>2, <2>3, <2>4 DEF x, y
<1>8. WorldStep(a)
  BY <1>3, <1>4, <1>5, <1>6, <1>7, OwnFilesOK
<1>9. VfsCode(o.error) = "Ok" => o.error = "None"
  BY DEF VfsCode
<1>10. /\ hold'[a].dst.open \in BOOLEAN
       /\ VfsCode(o.error) \in {"Ok"} => hold'[a].dst.open
  BY <1>1, <1>6, <1>7, <1>9
<1>11. JobStep(a)
  BY <1>5, <1>10, VfsCodes, NothingIsSound, SettleOK
<1> QED
  BY <1>8, <1>11 DEF StepOK

LEMMA OpenOK ==
    ASSUME NEW a, Acting(a), OpenStep(a)
    PROVE  StepOK(a)
<1> DEFINE q == Os(Now(a).path)
           code == OpenAnswer(disk, Here(a))
           x == OpenFile(disk, Here(a))
<1>1. /\ a \in Actors /\ q \in Paths /\ hold \in Held /\ hold[a].dst.open \in BOOLEAN
      /\ hold[a].dst \in OpenFiles
  BY ActingFacts, WorldTypes
<1>2. Now(a).do \notin Openings /\ disk' = disk
      /\ hold' = (IF code = "Ok" THEN [hold EXCEPT ![a].src = x] ELSE hold)
      /\ Settle(a, code, {"Ok"}, << >>)
  BY DEF OpenStep, At, Openings
<1>3. x \in OpenFiles /\ code \in Codes
  <2>1. x = [Opened(q) EXCEPT !.directory = IsDirectory(disk, q)]
    BY DEF OpenFile, Os, Here
  <2>2. \A f : [Opened(q) EXCEPT !.directory = IsDirectory(f, q)] \in OpenFiles
    BY <1>1, OpenedTypes
  <2>3. code \in Codes
    BY AnswersOfDisk
  <2> QED
    BY <2>1, <2>2, <2>3
<1> HIDE DEF x, code
<1>4. hold' \in Held /\ hold'[a].dst = hold[a].dst /\ \A b \in Actors \ {a} : hold'[b] = hold[b]
  <2>1. CASE code = "Ok"
    <3>1. hold' = [hold EXCEPT ![a].src = x]
      BY <1>2, <2>1
    <3> QED
      BY <1>1, <1>3, <3>1 DEF Held
  <2>2. CASE code # "Ok"
    BY <1>1, <1>2, <2>2
  <2> QED
    BY <2>1, <2>2
<1>5. WorldStep(a)
  BY <1>2, <1>4, OwnFilesOK
<1>6. JobStep(a)
  BY <1>1, <1>2, <1>3, <1>4, NothingIsSound, SettleOK
<1> QED
  BY <1>5, <1>6 DEF StepOK

\* What append_file opens is in the middle of nothing.
LEMMA AppendFileOK ==
    ASSUME NEW a, Acting(a), AppendFileStep(a)
    PROVE  /\ StepOK(a)
           /\ \/ Abort(a, job'[a].answer.code) /\ job'[a].answer.code # "Ok"
              \/ Resume(a, << >>) /\ AppendsAt(hold'[a].dst, Os(Now(a).path))
<1> DEFINE q == Os(Now(a).path)
           code == IF IsDirectory(disk, q) THEN "IoError" ELSE OpenAnswer(disk, Here(a))
           x == AppendFile(disk, Here(a))
<1>1. /\ a \in Actors /\ q \in Paths /\ hold \in Held /\ hold[a].dst.open \in BOOLEAN
      /\ job \in [Actors -> Jobs] /\ hold[a].dst \in OpenFiles
  BY ActingFacts, WorldTypes DEF Acting, DiskTypeOK, Jobs
<1>2. disk' = disk
      /\ hold' = (IF code = "Ok" THEN [hold EXCEPT ![a].dst = x] ELSE hold)
      /\ Settle(a, code, {"Ok"}, << >>)
  BY DEF AppendFileStep
<1>3. /\ x \in OpenFiles /\ x.open = TRUE /\ x.path = q /\ x.gone = FALSE /\ x.appending = TRUE
      /\ code \in Codes
  <2>1. x = [Opened(q) EXCEPT !.appending = TRUE]
    BY DEF AppendFile, Os, Here
  <2>2. code \in Codes
    BY AnswersOfDisk DEF Codes
  <2> HIDE DEF code
  <2> QED
    BY <1>1, <2>1, <2>2, OpenedTypes
<1> HIDE DEF x, code
<1>4. /\ hold' \in Held /\ \A b \in Actors \ {a} : hold'[b] = hold[b]
      /\ code = "Ok" => hold'[a].dst = x
      /\ code # "Ok" => hold'[a].dst = hold[a].dst
  <2>1. CASE code = "Ok"
    <3>1. hold' = [hold EXCEPT ![a].dst = x]
      BY <1>2, <2>1
    <3> QED
      BY <1>1, <1>3, <2>1, <3>1 DEF Held
  <2>2. CASE code # "Ok"
    BY <1>1, <1>2, <2>2
  <2> QED
    BY <2>1, <2>2
<1>5. WorldStep(a)
  <2>1. Now(a).do \in Makings
    BY DEF AppendFileStep, At, Makings
  <2>2. q \in Makes(job[a].request)
    BY <2>1, HeadFits DEF Fits
  <2> QED
    BY <1>2, <1>3, <1>4, <2>2, OwnFilesOK
<1>6. hold'[a].dst.open \in BOOLEAN /\ (code \in {"Ok"} => hold'[a].dst.open)
  BY <1>1, <1>3, <1>4
<1>7. JobStep(a)
  BY <1>2, <1>3, <1>6, NothingIsSound, SettleOK
<1>8. CASE code = "Ok"
  BY <1>2, <1>3, <1>4, <1>5, <1>7, <1>8 DEF StepOK, Settle, AppendsAt
<1>9. CASE code # "Ok"
  <2>1. Abort(a, code)
    BY <1>2, <1>9 DEF Settle
  <2>2. job'[a].answer = Answer(code)
    BY <1>1, <2>1 DEF Abort, End, Jobs
  <2>3. job'[a].answer.code = code
    BY <2>2 DEF Answer
  <2> QED
    BY <1>5, <1>7, <1>9, <2>1, <2>3 DEF StepOK
<1> QED
  BY <1>8, <1>9

LEMMA WriteOK ==
    ASSUME NEW a, Acting(a), Write(a)
    PROVE  /\ StepOK(a)
           /\ Resume(a, << >>)
           /\ \A p \in Paths : AppendsAt(hold[a].dst, p) =>
                 disk'[p].content = disk[p].content \o job[a].request.data
<1> DEFINE data == job[a].request.data
<1>1. /\ Now(a).do \in Writings /\ Now(a).do \notin Openings /\ Resume(a, << >>)
      /\ Put(a, data, hold[a].src)
  BY DEF Write, At, Writings, Openings
<1>2. hold[a].dst.open /\ hold[a].src \in OpenFiles /\ data \in Contents
  <2>1. a \in Actors /\ job[a].request \in Requests /\ hold[a].dst.open
    BY <1>1, ActingFacts
  <2> QED
    BY <2>1, WorldTypes DEF Requests
<1>3. /\ WorldStep(a) /\ hold'[a].dst.open \in BOOLEAN /\ hold'[a].dst.open
      /\ \A p \in Paths : AppendsAt(hold[a].dst, p) =>
            disk'[p].content = disk[p].content \o data
  <2>1. /\ WorldStep(a) /\ hold'[a].dst.open
        /\ \A p \in Paths : AppendsAt(hold[a].dst, p) =>
              disk'[p].content = disk[p].content \o data
    BY <1>1, <1>2, PutOK
  <2>2. hold' \in Held /\ a \in Actors
    BY <2>1, ActingFacts DEF WorldStep
  <2>3. hold'[a].dst.open \in BOOLEAN
    BY <2>2 DEF Held, OpenFiles
  <2> QED
    BY <2>1, <2>3
<1>4. JobStep(a)
  BY <1>1, <1>3, NothingIsSound, ResumeOK
<1> QED
  BY <1>1, <1>3, <1>4 DEF StepOK

LEMMA CopyBytesOK ==
    ASSUME NEW a, Acting(a), CopyBytes(a)
    PROVE  StepOK(a)
<1> DEFINE src == hold[a].src
           all == ContentOf(disk, src)
           end == IF Now(a).do \in {"copy_some", "os_some"} THEN Len(all) \div 2 ELSE Len(all)
           data == SubSeq(all, src.pos + 1, end)
           then == [src EXCEPT !.pos = end]
<1>1. /\ Now(a).do \in Writings /\ Now(a).do \notin Openings
      /\ \/ UNCHANGED <<disk, hold>> /\ Abort(a, "IoError")
         \/ Put(a, data, then) /\ Resume(a, << >>)
  BY DEF CopyBytes, At, Writings, Openings
<1>2. a \in Actors /\ hold[a].dst.open /\ src \in OpenFiles
  BY <1>1, ActingFacts, WorldTypes
<1>3. all \in Contents
  <2>1. src.path \in Paths /\ src.content \in Contents
    BY <1>2 DEF OpenFiles
  <2> QED
    BY <2>1, WorldTypes DEF ContentOf
<1>4. end \in Nat /\ end <= Len(all) /\ src.pos \in Nat
  <2>1. Len(all) \in Nat
    BY <1>3 DEF Contents
  <2> HIDE DEF all
  <2> QED
    BY <1>2, <2>1 DEF OpenFiles
<1> HIDE DEF all, end
<1>5. data \in Contents /\ then \in OpenFiles
  BY <1>2, <1>3, <1>4 DEF Contents, OpenFiles
<1> HIDE DEF data, then
<1>6. CASE UNCHANGED <<disk, hold>> /\ Abort(a, "IoError")
  <2>1. WorldStep(a)
    BY <1>1, <1>6, LookingOK
  <2>2. JobStep(a)
    BY <1>6, AbortOK DEF Codes
  <2> QED
    BY <2>1, <2>2 DEF StepOK
<1>7. CASE Put(a, data, then) /\ Resume(a, << >>)
  <2>1. WorldStep(a) /\ hold'[a].dst.open
    BY <1>2, <1>5, <1>7, PutOK
  <2>2. hold' \in Held
    BY <2>1 DEF WorldStep
  <2>3. hold'[a].dst.open \in BOOLEAN
    BY <1>2, <2>2 DEF Held, OpenFiles
  <2>4. JobStep(a)
    BY <1>7, <2>1, <2>3, NothingIsSound, ResumeOK
  <2> QED
    BY <2>1, <2>4 DEF StepOK
<1> QED
  BY <1>1, <1>6, <1>7

\* What a directory lists lies in it.
LEMMA ListedOK ==
    ASSUME NEW h \in Places
    PROVE  \A c \in Listed(h) : /\ c \in Places /\ c.fs = h.fs
                                /\ Below(c.path, h.path) /\ Below(Os(c), Os(h))
<1> DEFINE name(e) == [h EXCEPT !.path = Append(@, e[Len(e)])]
           entry(x) == SubSeq(x, Len(PhysRoot) + 1, Len(x))
<1>1. ASSUME NEW x \in Children(disk, Os(h))
      PROVE  LET c == name(entry(x)) IN
             /\ c \in Places /\ c.fs = h.fs /\ Below(c.path, h.path) /\ Below(Os(c), Os(h))
  BY ListedPlaces
<1>2. ReadDir(disk, Real(h)).entries \subseteq {entry(x) : x \in Children(disk, Os(h))}
  <2>1. \A code : Answer(code).entries = {}
    BY DEF Answer
  <2> DEFINE entries == {entry(x) : x \in Children(disk, Os(h))}
  <2>2. [Answer("Ok") EXCEPT !.entries = entries].entries = entries
    BY DEF Answer
  <2> HIDE DEF entry
  <2>3. \/ ReadDir(disk, Real(h)) = [Answer("Ok") EXCEPT !.entries = entries]
        \/ \E code : ReadDir(disk, Real(h)) = Answer(code)
    BY DEF ReadDir, Os, entry
  <2> HIDE DEF entries
  <2>4. ReadDir(disk, Real(h)).entries \subseteq entries
    BY <2>1, <2>2, <2>3
  <2> QED
    BY <2>4 DEF entries
<1> HIDE DEF name, entry
<1>3. Listed(h) = {name(e) : e \in ReadDir(disk, Real(h)).entries}
  BY DEF Listed, name
<1>4. ASSUME NEW c \in Listed(h)
      PROVE  /\ c \in Places /\ c.fs = h.fs /\ Below(c.path, h.path) /\ Below(Os(c), Os(h))
  <2>1. PICK e \in ReadDir(disk, Real(h)).entries : c = name(e)
    BY <1>3
  <2>2. PICK x \in Children(disk, Os(h)) : e = entry(x)
    BY <1>2
  <2> QED
    BY <1>1, <2>1, <2>2
<1> QED
  BY <1>4

\* Transitivity, for places.
LEMMA StillBelow ==
    ASSUME NEW c \in Places, NEW h \in Places, NEW g \in Places
    PROVE  /\ Below(Os(c), Os(h)) /\ Below(Os(h), Os(g)) => Below(Os(c), Os(g))
           /\ Below(c.path, h.path) /\ Below(h.path, g.path) => Below(c.path, g.path)
<1>1. /\ c.path \in AnyPath /\ h.path \in AnyPath /\ g.path \in AnyPath
      /\ Os(c) \in AnyPath /\ Os(h) \in AnyPath /\ Os(g) \in AnyPath
  BY PlaceFields, PathsAreSequences
<1>2. \A x, y, z \in AnyPath : Below(x, y) /\ Below(y, z) => Below(x, z)
  BY BelowTransitive
<1> QED
  BY <1>1, <1>2

\* What remains of a directory that is emptied.
LEMMA RestSound ==
    ASSUME NEW r, r.op \in RemovingOps, r.op # "append_file", NEW h \in Places, NEW left \in SUBSET Places,
           Below(Os(h), Os(r.path)), \A c \in left : Below(Os(c), Os(r.path))
    PROVE  Sound(r, Rest(h, left), FALSE)
<1> DEFINE it == Do("children", h)
           x == [it EXCEPT !.left = left]
<1>1. "children" \in Steps /\ "children" \in Plain /\ "children" \in Removals
  BY DEF Steps, Plain, Writings, Looks, Removals
<1>2. "children" \notin Makings \cup Renames
  BY DEF Makings, Renames
<1>3. it \in Items /\ it.do = "children" /\ it.path = h
  BY <1>1, DoItem
<1> HIDE DEF it
<1>4. x \in Items /\ x.do = "children" /\ x.path = h /\ x.left = left
  BY <1>3 DEF Items
<1> HIDE DEF x
<1>5. x \in FittingItems(r) /\ x.do \in Plain
  BY <1>1, <1>2, <1>4 DEF FittingItems, Fits
<1>6. Sound(r, <<x>>, FALSE) /\ Sound(r, << >>, FALSE)
  BY <1>5, OneIsSound, NothingIsSound
<1> QED
  BY <1>6 DEF Rest, x, it

LEMMA EmptyingOK ==
    ASSUME NEW a, Acting(a),
           RemoveDirAll(a) \/ List(a) \/ \E child \in Now(a).left : NextChild(a, child)
    PROVE  StepOK(a)
<1> DEFINE r == job[a].request
           h == Now(a).path
           left == Now(a).left
<1>1. /\ r \in Requests /\ h \in Places /\ left \in SUBSET Places
  BY ActingFacts DEF Items
<1>2. /\ Now(a).do \in {"remove_dir_all", "list", "children"}
      /\ UNCHANGED <<disk, hold>>
  BY DEF RemoveDirAll, List, NextChild, Look, At
<1>3. Now(a).do \in Removals /\ Now(a).do \notin Openings /\ r.op # "append_file"
  BY <1>2, HeadFits DEF Removals, Openings
<1>4. /\ r.op \in RemovingOps /\ Below(Os(h), Os(r.path))
      /\ \A c \in left : Below(Os(c), Os(r.path))
  BY <1>3, HeadFits DEF Fits
<1>5. \A code \in Codes : \A steps :
          Sound(r, steps, FALSE) /\ Settle(a, code, {"Ok"}, steps) => StepOK(a)
  BY <1>2, <1>3, GoesOnOrGivesUp
<1>6. \A do \in Removals : \A c \in Places :
          Below(Os(c), Os(r.path)) => Do(do, c) \in FittingItems(r) /\ Do(do, c).do = do
  BY <1>4, RemovalFits DEF Do
<1>7. /\ \A do \in Removals : do \in Plain
      /\ "list" \in Removals /\ "remove_dir" \in Removals
      /\ "remove_file" \in Removals /\ "remove_dir_all" \in Removals
  BY DEF Removals, Plain, Steps, Writings, Looks
<1>8. CASE RemoveDirAll(a)
  <2> DEFINE x == Do("list", h)
             y == Do("remove_dir", h)
             steps == IF ThereIs(disk, Real(h)) THEN <<x, y>> ELSE << >>
  <2>1. /\ x \in FittingItems(r) /\ y \in FittingItems(r)
        /\ x.do \in Plain /\ y.do \in Plain
    BY <1>1, <1>4, <1>6, <1>7
  <2>2. Resume(a, steps)
    BY <1>8 DEF RemoveDirAll
  <2> HIDE DEF x, y
  <2>3. Sound(r, steps, FALSE)
    BY <2>1, FewSteps, NothingIsSound
  <2> HIDE DEF steps
  <2>4. Settle(a, "Ok", {"Ok"}, steps) /\ "Ok" \in Codes
    BY <2>2 DEF Settle, Codes
  <2> QED
    BY <1>5, <2>3, <2>4
<1>9. CASE List(a)
  <2> DEFINE code == ReadDir(disk, Here(a)).code
             steps == Rest(h, Listed(h))
  <2>1. code \in Codes
    BY AnswersOfDisk DEF Replies
  <2>2. Settle(a, code, {"Ok"}, steps)
    BY <1>9 DEF List, Look
  <2>3. Listed(h) \in SUBSET Places /\ \A c \in Listed(h) : Below(Os(c), Os(r.path))
    <3>1. r.path \in Places
      BY <1>1 DEF Requests
    <3>2. \A c \in Listed(h) : c \in Places /\ Below(Os(c), Os(h))
      BY <1>1, ListedOK
    <3> QED
      BY <1>1, <1>4, <3>1, <3>2, StillBelow
  <2>4. Sound(r, steps, FALSE)
    BY <1>1, <1>3, <1>4, <2>3, RestSound
  <2> HIDE DEF code, steps
  <2> QED
    BY <1>5, <2>1, <2>2, <2>4
<1>10. ASSUME NEW child \in left, NextChild(a, child)
       PROVE  StepOK(a)
  <2> DEFINE metadata == Metadata(disk, Real(child))
             removal == IF metadata.kind = "File" THEN "remove_file" ELSE "remove_dir_all"
             x == Do(removal, child)
             rest == Rest(h, left \ {child})
  <2>1. x \in FittingItems(r) /\ x.do \in Plain
    BY <1>1, <1>4, <1>6, <1>7
  <2>2. Sound(r, rest, FALSE) /\ Sound(r, <<x>>, FALSE)
    BY <1>1, <1>3, <1>4, <2>1, RestSound, OneIsSound
  <2>3. Settle(a, metadata.code, {"Ok"}, <<x>> \o rest)
    BY <1>10 DEF NextChild, Look
  <2>4. metadata.code \in Codes
    BY VfsCodes DEF Metadata, Answer, Codes
  <2> HIDE DEF metadata, x, rest
  <2>5. Sound(r, <<x>> \o rest, FALSE)
    BY <2>2, ConcatIsSound
  <2> QED
    BY <1>5, <2>3, <2>4, <2>5
<1> QED
  BY <1>8, <1>9, <1>10

\* What remains of a walk.
LEMMA WalkSound ==
    ASSUME NEW r \in Requests, r.op \in CopyingOps, NEW it \in Items,
           it.do = "walk", it.path = r.path, it.dest = r.dest,
           NEW left \in SUBSET Places, NEW todo \in Seq(Places),
           \A c \in left : c.fs = r.path.fs /\ Below(c.path, r.path.path),
           \A i \in DOMAIN todo : todo[i].fs = r.path.fs /\ Below(todo[i].path, r.path.path)
    PROVE  Sound(r, Walk(it, left, todo), FALSE)
<1> DEFINE x == [it EXCEPT !.left = left, !.todo = todo]
<1>1. "walk" \in Plain /\ "walk" \notin Makings \cup Renames \cup Removals
  BY DEF Steps, Plain, Writings, Looks, Makings, Renames, Removals
<1>2. /\ x \in Items /\ x.do = "walk" /\ x.path = r.path /\ x.dest = r.dest
      /\ x.left = left /\ x.todo = todo
  BY DEF Items
<1> HIDE DEF x
<1>3. CASE left # {} \/ todo # << >>
  <2>1. x \in FittingItems(r) /\ x.do \in Plain
    BY <1>1, <1>2, <1>3, Reached DEF FittingItems, Fits, Ahead
  <2>2. Sound(r, <<x>>, FALSE)
    BY <2>1, OneIsSound
  <2> QED
    BY <1>3, <2>2 DEF Walk, x
<1>4. CASE left = {} /\ todo = << >>
  BY <1>4, NothingIsSound DEF Walk
<1> QED
  BY <1>3, <1>4

LEMMA WalkingOK ==
    ASSUME NEW a, Acting(a), Known(job[a].request), script \in Scripts,
           WalkList(a) \/ \E child \in Now(a).left : WalkYield(a, child)
    PROVE  StepOK(a)
<1> DEFINE r == job[a].request
           it == Now(a)
           h == r.path
           n == Len(it.todo)
<1>1. /\ r \in Requests /\ it \in Items /\ h \in Places /\ r.dest \in Places
      /\ it.left \in SUBSET Places /\ it.todo \in Seq(Places)
  BY ActingFacts DEF Items, Requests
<1>2. it.do = "walk" /\ UNCHANGED <<disk, hold>>
  BY DEF WalkList, WalkYield, Look, At
<1>3. it.do \notin Openings /\ r.op # "append_file"
  BY <1>2, HeadFits DEF Openings
<1>4. /\ r.op \in CopyingOps /\ it.path = h /\ it.dest = r.dest
      /\ it.left # {} \/ it.todo # << >>
      /\ \A c \in Ahead(it) : c.fs = h.fs /\ Below(c.path, h.path)
  BY <1>2, HeadFits DEF Fits
<1>5. /\ \A c \in it.left : c.fs = h.fs /\ Below(c.path, h.path)
      /\ \A i \in DOMAIN it.todo : it.todo[i].fs = h.fs /\ Below(it.todo[i].path, h.path)
  BY <1>4 DEF Ahead
<1>6. \A code \in Codes : \A steps :
          Sound(r, steps, FALSE) /\ Settle(a, code, {"Ok"}, steps) => StepOK(a)
  BY <1>2, <1>3, GoesOnOrGivesUp
<1>7. CASE WalkList(a)
  <2> DEFINE top == it.todo[n]
             rest == SubSeq(it.todo, 1, n - 1)
             listed == Listed(top)
             code == ReadDir(disk, Real(top)).code
  <2>1. n \in Nat \ {0} /\ n \in DOMAIN it.todo /\ DOMAIN it.todo = 1 .. n
    <3>1. it.left = {}
      BY <1>7 DEF WalkList
    <3>2. it.todo # << >>
      BY <1>4, <3>1
    <3> QED
      BY <1>1, <3>2, EmptySeq, LenProperties
  <2>2. top \in Places /\ top.fs = h.fs /\ Below(top.path, h.path)
    BY <1>1, <1>5, <2>1, ElementOfSeq
  <2>3. rest \in Seq(Places) /\ DOMAIN rest = 1 .. n - 1 /\ \A i \in 1 .. n - 1 : rest[i] = it.todo[i]
    BY <1>1, <2>1
  <2>4. Settle(a, code, {"Ok"}, Walk(it, listed, rest))
    BY <1>7 DEF WalkList, Look
  <2>5. code \in Codes
    BY VfsCodes DEF ReadDir, Answer, Codes
  <2> HIDE DEF code, top, rest
  <2>6. listed \in SUBSET Places /\ \A c \in listed : c.fs = h.fs /\ Below(c.path, h.path)
    <3>1. \A c \in listed : c \in Places /\ c.fs = top.fs /\ Below(c.path, top.path)
      BY <2>2, ListedOK
    <3> QED
      BY <1>1, <2>2, <3>1, StillBelow
  <2>7. \A i \in DOMAIN rest : rest[i].fs = h.fs /\ Below(rest[i].path, h.path)
    <3>1. \A i \in 1 .. n - 1 : i \in DOMAIN it.todo
      BY <2>1
    <3> QED
      BY <1>5, <2>3, <3>1
  <2> HIDE DEF listed
  <2>8. Sound(r, Walk(it, listed, rest), FALSE)
    BY <1>1, <1>2, <1>4, <2>3, <2>6, <2>7, WalkSound
  <2> QED
    BY <1>6, <2>4, <2>5, <2>8
<1>8. ASSUME NEW child \in it.left, WalkYield(a, child)
      PROVE  StepOK(a)
  <2> DEFINE metadata == Metadata(disk, Real(child))
             todo == IF metadata.kind = "Directory" THEN Append(it.todo, child) ELSE it.todo
             target == [it.dest EXCEPT !.path = Rebase(child.path, it.path.path, @)]
             x == From("copy_entry", child, target)
             walk == Walk(it, it.left \ {child}, todo)
  <2>1. child \in Places /\ child.fs = h.fs /\ Below(child.path, h.path)
    BY <1>1, <1>5
  <2>2. target \in Places /\ Below(Os(target), Os(r.dest))
    <3>1. child \in AnyPlaces /\ h \in AnyPlaces /\ r.dest \in AnyPlaces /\ Os(child) \in Paths
      BY <1>1, <2>1, PlaceFields
    <3>2. /\ target \in AnyPlaces /\ Below(Os(child), Os(h)) /\ Below(Os(target), Os(r.dest))
          /\ Os(target) = Rebase(Os(child), Os(h), Os(r.dest))
      <4>1. target = [r.dest EXCEPT !.path = Rebase(child.path, h.path, @)]
        BY <1>4
      <4> HIDE DEF target, it, h, r
      <4>2. \A c, k, l \in AnyPlaces : c.fs = k.fs /\ Below(c.path, k.path) =>
               LET t == [l EXCEPT !.path = Rebase(c.path, k.path, @)] IN
               /\ t \in AnyPlaces /\ Below(Os(c), Os(k)) /\ Below(Os(t), Os(l))
               /\ Os(t) = Rebase(Os(c), Os(k), Os(l))
        BY RebasedPlaces
      <4> QED
        BY <2>1, <3>1, <4>1, <4>2
    <3>3. Os(target) \in Paths
      BY <1>1, <1>4, <3>1, <3>2, MovesStay
    <3> QED
      BY <3>2, <3>3 DEF Places, AnyPlaces
  <2>3. metadata.code \in Codes
    BY VfsCodes DEF Metadata, Answer, Codes
  <2>4. Settle(a, metadata.code, {"Ok"}, <<x>> \o walk)
    BY <1>8 DEF WalkYield, Look
  <2> HIDE DEF target
  <2>5. x \in FittingItems(r) /\ x.do \in Plain
    <3>1. "copy_entry" \in Steps /\ "copy_entry" \in Plain
      BY DEF Steps, Plain, Writings, Looks
    <3>2. "copy_entry" \notin Makings \cup Renames \cup Removals
      BY DEF Makings, Renames, Removals
    <3>3. x \in Items /\ x.do = "copy_entry" /\ x.dest = target
      BY <2>1, <2>2, <3>1, DoItem
    <3> HIDE DEF x
    <3> QED
      BY <1>3, <1>4, <2>2, <3>1, <3>2, <3>3 DEF FittingItems, Fits
  <2> HIDE DEF x
  <2>6. /\ todo \in Seq(Places)
        /\ \A i \in DOMAIN todo : todo[i].fs = h.fs /\ Below(todo[i].path, h.path)
    <3> DEFINE longer == Append(it.todo, child)
    <3>1. /\ longer \in Seq(Places)
          /\ DOMAIN longer = 1 .. n + 1 /\ longer[n + 1] = child
          /\ \A i \in 1 .. n : i \in DOMAIN it.todo /\ longer[i] = it.todo[i]
      BY <1>1, <2>1, AppendProperties
    <3> HIDE DEF longer
    <3>2. \A i \in DOMAIN longer : longer[i].fs = h.fs /\ Below(longer[i].path, h.path)
      <4>1. n \in Nat
        BY <1>1
      <4>2. \A i \in DOMAIN longer : i = n + 1 \/ i \in 1 .. n
        BY <3>1, <4>1
      <4> QED
        BY <1>5, <2>1, <3>1, <4>2
    <3> QED
      BY <1>1, <1>5, <3>1, <3>2 DEF longer
  <2> HIDE DEF metadata, todo
  <2>7. Sound(r, walk, FALSE)
    BY <1>1, <1>2, <1>4, <1>5, <2>6, WalkSound
  <2> HIDE DEF walk
  <2>8. Sound(r, <<x>> \o walk, FALSE)
    BY <2>5, <2>7, OneIsSound, ConcatIsSound
  <2> QED
    BY <1>6, <2>3, <2>4, <2>8
<1> QED
  BY <1>7, <1>8

LEMMA CopyEntryOK ==
    ASSUME NEW a, Acting(a), CopyEntry(a)
    PROVE  StepOK(a)
<1> DEFINE r == job[a].request
           h == Now(a).path
           g == Now(a).dest
           metadata == Metadata(disk, Here(a))
           steps == IF metadata.kind = "File" THEN CopyFileSteps(h, g) ELSE CreateDirSteps(g)
<1>1. r \in Requests /\ h \in Places /\ g \in Places /\ Os(g) \in Paths
  BY ActingFacts
<1>2. /\ Now(a).do = "copy_entry" /\ UNCHANGED <<disk, hold>>
      /\ Settle(a, metadata.code, {"Ok"}, steps)
  BY DEF CopyEntry, Look, At
<1>3. Now(a).do \notin Openings /\ r.op # "append_file"
  BY <1>2, HeadFits DEF Openings
<1>4. Os(g) \in Makes(r)
  <2>1. r.op \in CopyingOps /\ Below(Os(g), Os(r.dest))
    BY <1>2, HeadFits DEF Fits
  <2> QED
    BY <1>1, <2>1, Reached
<1>5. Sound(r, steps, FALSE)
  BY <1>1, <1>3, <1>4, CopyFileSound, CreateSound
<1>6. metadata.code \in Codes
  BY AnswersOfDisk DEF Replies
<1> HIDE DEF metadata, steps
<1> QED
  BY <1>2, <1>3, <1>5, <1>6, GoesOnOrGivesUp

\* Whatever step an actor takes.
LEMMA StepsAreOK ==
    ASSUME NEW a \in Actors, DiskTypeOK, AgendasOK, Known(job[a].request), script \in Scripts, Step(a)
    PROVE  Acting(a) /\ StepOK(a)
<1>1. Busy(a)
  BY DEF Step, At, Look, Reply, Change, ParentExists, ParentIsDir, CreateDirStep, KindStep,
         CreateFileStep, AppendFileStep, OpenStep, Write, CopyBytes, OsCopy, Absent, RenameFile,
         RenameDir, RemoveFileStep, RemoveDirStep, OpenFileStep, MetadataStep, ExistsStep,
         ReadDirStep, SetTimeStep, SetTimeElsewhere, RemoveDirAll, List, WalkList, CopyEntry
<1>2. Acting(a)
  BY <1>1 DEF Acting
<1> QED
  BY <1>2, ChecksOK, CreateDirOK, CreateFileOK, AppendFileOK, OpenOK, WriteOK, CopyBytesOK,
     RenamesOK, RemovalsOK, QuestionsOK, EmptyingOK, WalkingOK, CopyEntryOK DEF Step

-----------------------------------------------------------------------------
(* The invariant, step by step.                                             *)

\* The request of a busy actor is one of a task's, begun before now.
LEMMA BusyIsAsked ==
    ASSUME PInv, NEW a \in Actors, Busy(a)
    PROVE  /\ Known(job[a].request)
           /\ \E u \in Tasks : \E i \in 1 .. at[u] :
                 /\ script[u][i] = job[a].request
                 /\ \A b \in Actors \ {a} : Busy(b) => u # b \/ i < at[b]
<1>1. \A t \in Tasks : at[t] \in 0 .. Len(script[t]) /\ script[t] \in Seq(Requests)
  BY ScriptsAssumption DEF PInv, TasksAreAsked
<1>2. \A t \in Tasks : \A i \in 1 .. at[t] : i \in DOMAIN script[t]
  BY <1>1
<1>3. CASE a \in Tasks
  <2>1. /\ at[a] > 0 /\ at[a] \in 1 .. at[a] /\ script[a][at[a]] = job[a].request
    BY <1>1, <1>3 DEF PInv, TasksAreAsked
  <2> QED
    BY <1>2, <1>3, <2>1 DEF Known
<1>4. CASE a \notin Tasks
  <2>1. PICK t \in Async : a = Straggler[t]
    BY <1>4 DEF Actors
  <2>2. t \in Tasks
    BY TasksAssumption
  <2>3. PICK i \in 1 .. at[t] : script[t][i] = job[a].request /\ (Busy(t) => i < at[t])
    BY <2>1 DEF PInv, StragglersAreAsked
  <2> QED
    BY <1>2, <2>2, <2>3 DEF Known
<1> QED
  BY <1>3, <1>4

\* A step of a request that is known.
LEMMA KnownStep ==
    ASSUME PInv, NEW a \in Actors, Step(a)
    PROVE  /\ Acting(a) /\ JobStep(a) /\ WorldStep(a) /\ Known(job[a].request)
           /\ UNCHANGED <<script, at, died, before>>
<1>1. Busy(a)
  BY DEF Step, At, Look, Reply, Change, ParentExists, ParentIsDir, CreateDirStep, KindStep,
         CreateFileStep, AppendFileStep, OpenStep, Write, CopyBytes, OsCopy, Absent, RenameFile,
         RenameDir, RemoveFileStep, RemoveDirStep, OpenFileStep, MetadataStep, ExistsStep,
         ReadDirStep, SetTimeStep, SetTimeElsewhere, RemoveDirAll, List, WalkList, CopyEntry
<1>2. Known(job[a].request)
  BY <1>1, BusyIsAsked
<1>3. Acting(a) /\ StepOK(a)
  BY <1>2, StepsAreOK DEF PInv
<1> QED
  BY <1>2, <1>3 DEF StepOK, Step

LEMMA StepKeepsAgendas ==
    ASSUME PInv, NEW a \in Actors, Step(a)
    PROVE  DiskTypeOK' /\ AgendasOK' /\ TasksAreAsked' /\ StragglersAreAsked'
<1>1. /\ Acting(a) /\ JobStep(a) /\ WorldStep(a) /\ UNCHANGED <<script, at, died, before>>
  BY KnownStep
<1>2. Busy(a)
  BY <1>1 DEF Acting
<1>3. DiskTypeOK'
  BY <1>1 DEF PInv, DiskTypeOK, JobStep, WorldStep, Jobs, Held
<1>4. ASSUME NEW b \in Actors
      PROVE  AgendaOK(job'[b].request, job'[b].agenda, hold'[b].dst.open)
  <2>1. CASE b = a
    BY <1>1, <2>1 DEF JobStep
  <2>2. CASE b # a
    <3>1. job'[b] = job[b] /\ hold'[b].dst.open = hold[b].dst.open
      BY <1>1, <2>2 DEF JobStep, WorldStep
    <3>2. AgendaOK(job[b].request, job[b].agenda, hold[b].dst.open)
      BY DEF PInv, AgendasOK
    <3> QED
      BY <3>1, <3>2
  <2> QED
    BY <2>1, <2>2
<1>5. AgendasOK'
  BY <1>4 DEF AgendasOK
<1>6. \A b \in Actors : job'[b].request = job[b].request /\ (Busy(b)' => Busy(b))
  BY <1>1, <1>2 DEF JobStep, Busy
<1>7. TasksAreAsked'
  <2>1. \A t \in Tasks : t \in Actors
    BY DEF Actors
  <2> QED
    BY <1>1, <1>6, <2>1 DEF PInv, TasksAreAsked
<1>8. StragglersAreAsked'
  <2>1. ASSUME NEW t \in Async, Busy(Straggler[t])'
        PROVE  \E i \in 1 .. at'[t] :
                  script'[t][i] = job'[Straggler[t]].request /\ (Busy(t)' => i < at'[t])
    <3>1. t \in Actors /\ Straggler[t] \in Actors
      BY TasksAssumption DEF Actors
    <3>2. PICK i \in 1 .. at[t] :
              script[t][i] = job[Straggler[t]].request /\ (Busy(t) => i < at[t])
      BY <1>6, <2>1, <3>1 DEF PInv, StragglersAreAsked
    <3> QED
      BY <1>1, <1>6, <3>1, <3>2
  <2> QED
    BY <2>1 DEF StragglersAreAsked
<1> QED
  BY <1>3, <1>5, <1>7, <1>8

\* Whoever looks at what has just been there, and finds it gone, has been raced.
LEMMA StepKeepsRaces ==
    ASSUME PInv, NEW a \in Actors, Step(a)
    PROVE  PanicsAreRaced'
<1>1. /\ Acting(a) /\ JobStep(a) /\ WorldStep(a) /\ UNCHANGED <<script, at, died, before>>
  BY KnownStep
<1>2. \A b \in Actors : job'[b].request = job[b].request
  BY <1>1 DEF JobStep
<1>3. \A b \in Actors : Raced(b) => Raced(b)'
  BY <1>1, <1>2 DEF Raced
<1>4. ASSUME NEW b \in Actors, At(b, Looks)', ~Exists(disk', Os(Now(b)'.path))
      PROVE  Raced(b)'
  <2>1. b # a
    <3>1. CASE b = a
      <4>1. job'[a].agenda # << >> /\ Head(job'[a].agenda).do \in Looks
        BY <1>4, <3>1 DEF At, Busy, Now
      <4> QED
        BY <1>1, <1>4, <3>1, <4>1 DEF JobStep, Now
    <3> QED
      BY <3>1
  <2>2. job'[b] = job[b]
    BY <1>1, <2>1 DEF JobStep
  <2>3. At(b, Looks) /\ Now(b)' = Now(b)
    BY <1>4, <2>2 DEF At, Busy, Now
  <2> DEFINE q == Os(Now(b).path)
  <2>4. Acting(b)
    BY <2>3 DEF Acting, At, PInv
  <2>5. q \in Paths /\ q \in Reach(job[b].request)
    <3>1. Now(b).do \in Makings
      BY <2>3 DEF At, Looks, Makings
    <3> QED
      BY <2>4, <3>1, ActingFacts, HeadFits, WorldTypes DEF Fits
  <2>6. CASE ~Exists(disk, q)
    BY <1>3, <2>3, <2>6 DEF PInv, PanicsAreRaced
  <2>7. CASE Exists(disk, q)
    <3>1. q \in Reach(job[a].request) /\ job[a].request.op \in RemovingOps
      BY <1>1, <1>4, <2>3, <2>5, <2>7 DEF WorldStep
    <3>2. Busy(a) /\ Busy(b)
      BY <1>1, <2>4 DEF Acting
    <3>3. PICK u \in Tasks : \E i \in 1 .. at[u] :
             /\ script[u][i] = job[a].request
             /\ \A c \in Actors \ {a} : Busy(c) => u # c \/ i < at[c]
      BY <3>2, BusyIsAsked
    <3>4. PICK i \in 1 .. at[u] :
             /\ script[u][i] = job[a].request
             /\ \A c \in Actors \ {a} : Busy(c) => u # c \/ i < at[c]
      BY <3>3
    <3>5. Raced(b)
      BY <2>1, <2>5, <3>1, <3>2, <3>4 DEF Raced
    <3> QED
      BY <1>3, <3>5
  <2> QED
    BY <2>6, <2>7
<1>5. ASSUME NEW b \in Actors, job'[b].end = "panicked"
      PROVE  Raced(b)'
  <2>1. job[b].end = "panicked" \/ (At(b, Looks) /\ ~Exists(disk, Os(Now(b).path)))
    BY <1>1, <1>5 DEF JobStep
  <2> QED
    BY <1>3, <2>1 DEF PInv, PanicsAreRaced
<1> QED
  BY <1>4, <1>5 DEF PanicsAreRaced

LEMMA StepKeepsContents ==
    ASSUME PInv, NEW a \in Actors, Step(a)
    PROVE  /\ ContentGrows'
           /\ \A p \in Paths : OnlyAppended(p) =>
                 /\ IsStart(disk[p].content, disk'[p].content)
                 /\ \A b \in Actors \ {a} : AppendsAt(hold[b].dst, p) => AppendsAt(hold'[b].dst, p)
<1>1. /\ Acting(a) /\ WorldStep(a) /\ Known(job[a].request) /\ UNCHANGED <<script, at, died, before>>
  BY KnownStep
<1>2. ASSUME NEW p \in Paths, OnlyAppended(p)
      PROVE  /\ IsStart(disk[p].content, disk'[p].content)
             /\ Calm(hold', p)
             /\ \A b \in Actors \ {a} : AppendsAt(hold[b].dst, p) => AppendsAt(hold'[b].dst, p)
  <2>1. p \in Reach(job[a].request) => job[a].request.op = "append_file"
    BY <1>1, <1>2 DEF OnlyAppended, Known
  <2>2. Calm(hold, p)
    BY <1>2 DEF PInv, ContentGrows, Calm
  <2> QED
    BY <1>1, <2>1, <2>2 DEF WorldStep
<1>3. ASSUME NEW p \in Paths, OnlyAppended(p)
      PROVE  IsStart(before[p].content, disk'[p].content)
  <2>1. /\ disk \in Maps /\ disk' \in Maps /\ before \in Maps
    BY <1>1, TreesAssumption DEF PInv, DiskTypeOK, WorldStep
  <2>2. /\ before[p].content \in Contents /\ disk[p].content \in Contents
        /\ disk'[p].content \in Contents
    BY <2>1, EntryFields DEF Maps
  <2>3. IsStart(before[p].content, disk[p].content)
    BY <1>3 DEF PInv, ContentGrows
  <2>4. IsStart(disk[p].content, disk'[p].content)
    BY <1>2, <1>3
  <2> QED
    BY <2>2, <2>3, <2>4, StartsOn
<1>4. \A p : OnlyAppended(p)' => OnlyAppended(p)
  BY <1>1 DEF OnlyAppended
<1>5. ContentGrows'
  BY <1>1, <1>2, <1>3, <1>4 DEF ContentGrows, Calm
<1> QED
  BY <1>2, <1>5

\* What is in a content stays in it.
LEMMA HoldsOn ==
    ASSUME NEW c \in Contents, NEW d \in Contents, IsStart(c, d),
           NEW n \in Nat, NEW data \in Contents, Holds(c, n, data)
    PROVE  Holds(d, n, data)
<1>1. PICK i \in n .. Len(c) - Len(data) : SubSeq(c, i + 1, i + Len(data)) = data
  BY DEF Holds
<1>2. /\ Len(c) \in Nat /\ Len(d) \in Nat /\ Len(data) \in Nat /\ Len(c) <= Len(d)
      /\ i \in Nat /\ i + Len(data) <= Len(c)
  BY <1>1 DEF Contents, IsStart
<1>3. \A k \in 1 .. Len(c) : d[k] = c[k]
  <2>1. \A k \in 1 .. Len(c) : SubSeq(d, 1, Len(c))[k] = d[k]
    BY <1>2 DEF Contents
  <2> QED
    BY <2>1 DEF IsStart
<1> DEFINE x == SubSeq(c, i + 1, i + Len(data))
           y == SubSeq(d, i + 1, i + Len(data))
<1>4. /\ x \in Contents /\ Len(x) = Len(data) /\ \A k \in 1 .. Len(data) : x[k] = c[i + k]
  BY <1>2 DEF Contents
<1>5. /\ y \in Contents /\ Len(y) = Len(data) /\ \A k \in 1 .. Len(data) : y[k] = d[i + k]
  BY <1>2 DEF Contents
<1> HIDE DEF x, y
<1>6. \A k \in 1 .. Len(data) : x[k] = y[k]
  <2>1. \A k \in 1 .. Len(data) : i + k \in 1 .. Len(c)
    BY <1>2
  <2> QED
    BY <1>3, <1>4, <1>5, <2>1
<1>7. y = data
  BY <1>1, <1>4, <1>5, <1>6, SeqEqual DEF x, Contents
<1>8. i \in n .. Len(d) - Len(data)
  BY <1>1, <1>2
<1> QED
  BY <1>7, <1>8 DEF Holds, y

\* What append_file has written is behind what was there.
LEMMA WrittenIsHeld ==
    ASSUME NEW c \in Contents, NEW n \in Nat, n <= Len(c), NEW data \in Contents
    PROVE  Holds(c \o data, n, data)
<1>1. /\ Len(c) \in Nat /\ Len(data) \in Nat /\ Len(c \o data) = Len(c) + Len(data)
  BY DEF Contents
<1>2. Len(c) \in n .. Len(c \o data) - Len(data)
  BY <1>1
<1>3. SubSeq(c \o data, Len(c) + 1, Len(c) + Len(data)) = data
  BY JoinStarts
<1> QED
  BY <1>2, <1>3 DEF Holds

LEMMA AppendSteps ==
    ASSUME NEW a, Step(a)
    PROVE  /\ Now(a).do = "open_append" => AppendFileStep(a)
           /\ Now(a).do = "write" => Write(a)
BY DEF Step, At, Look, Reply, Change, ParentExists, ParentIsDir, CreateDirStep, KindStep,
       CreateFileStep, AppendFileStep, OpenStep, Write, CopyBytes, OsCopy, Absent, RenameFile,
       RenameDir, RemoveFileStep, RemoveDirStep, OpenFileStep, MetadataStep, ExistsStep,
       ReadDirStep, SetTimeStep, SetTimeElsewhere, RemoveDirAll, List, WalkList, CopyEntry

LEMMA StepKeepsAppends ==
    ASSUME PInv, NEW a \in Actors, Step(a)
    PROVE  AppendPhases'
<1> DEFINE Phase(t, r, p) ==
        \/ job[t].agenda = AppendFileSteps(r.path)
        \/ /\ job[t].agenda = <<Do("write", r.path)>>
           /\ OnlyAppended(p) => AppendsAt(hold[t].dst, p)
        \/ /\ job[t].agenda = << >>
           /\ OnlyAppended(p) /\ job[t].end = "returned" /\ job[t].answer.code = "Ok" =>
                 Holds(disk[p].content, Len(before[p].content), r.data)
<1>1. /\ Acting(a) /\ JobStep(a) /\ WorldStep(a) /\ UNCHANGED <<script, at, died, before>>
      /\ Busy(a)
  BY KnownStep DEF Acting
<1>2. \A p : OnlyAppended(p)' <=> OnlyAppended(p)
  BY <1>1 DEF OnlyAppended
<1>3. \A p \in Paths :
          /\ before[p].content \in Contents /\ Len(before[p].content) \in Nat
          /\ disk[p].content \in Contents /\ disk'[p].content \in Contents
          /\ OnlyAppended(p) => Len(before[p].content) <= Len(disk[p].content)
  <2>1. /\ disk \in Maps /\ disk' \in Maps /\ before \in Maps
    BY <1>1, TreesAssumption DEF PInv, DiskTypeOK, WorldStep
  <2>2. \A p \in Paths : OnlyAppended(p) => Len(before[p].content) <= Len(disk[p].content)
    BY DEF PInv, ContentGrows, IsStart
  <2> QED
    BY <2>1, <2>2, EntryFields DEF Maps, Contents
<1>4. ASSUME NEW t \in Tasks, at'[t] > 0, job'[t].request.op = "append_file"
      PROVE  Phase(t, job[t].request, Os(job[t].request.path))'
  <2> DEFINE r == job[t].request
             p == Os(r.path)
  <2>1. /\ t \in Actors /\ r \in Requests /\ r.op = "append_file" /\ at[t] > 0
        /\ job'[t].request = r /\ r.path \in Places /\ r.data \in Contents /\ p \in Paths
    <3>1. t \in Actors
      BY DEF Actors
    <3>2. job'[t].request = r
      BY <1>1, <3>1 DEF JobStep
    <3>3. r \in Requests
      BY <3>1 DEF PInv, DiskTypeOK
    <3> QED
      BY <1>1, <1>4, <3>1, <3>2, <3>3, PlaceFields DEF Requests
  <2>2. Phase(t, r, p)
    BY <2>1 DEF PInv, AppendPhases
  <2>3. /\ ContentGrows'
        /\ OnlyAppended(p) =>
              /\ IsStart(disk[p].content, disk'[p].content)
              /\ \A b \in Actors \ {a} : AppendsAt(hold[b].dst, p) => AppendsAt(hold'[b].dst, p)
    BY <2>1, StepKeepsContents
  <2> HIDE DEF p
  <2>4. CASE t # a
    <3>1. job'[t] = job[t]
      BY <1>1, <2>1, <2>4 DEF JobStep
    <3>2. OnlyAppended(p) /\ Holds(disk[p].content, Len(before[p].content), r.data) =>
              Holds(disk'[p].content, Len(before[p].content), r.data)
      BY <1>3, <2>1, <2>3, HoldsOn
    <3>3. \/ job'[t].agenda = AppendFileSteps(r.path)
          \/ /\ job'[t].agenda = <<Do("write", r.path)>>
             /\ OnlyAppended(p) => AppendsAt(hold'[t].dst, p)
          \/ /\ job'[t].agenda = << >>
             /\ OnlyAppended(p) /\ job'[t].end = "returned" /\ job'[t].answer.code = "Ok" =>
                   Holds(disk'[p].content, Len(before[p].content), r.data)
      BY <2>1, <2>2, <2>3, <2>4, <3>1, <3>2
    <3> QED
      BY <1>1, <1>2, <2>1, <3>3 DEF p
  <2>5. CASE t = a
    <3> DEFINE x == Do("open_append", r.path)
               y == Do("write", r.path)
    <3>0. x.do = "open_append" /\ x.path = r.path /\ y.do = "write" /\ y.path = r.path
          /\ AppendFileSteps(r.path) = <<x, y>>
      BY DEF Do, AppendFileSteps
    <3> HIDE DEF x, y
    <3>1. job[a].agenda # << >>
      BY <1>1 DEF Busy
    <3>2. CASE job[a].agenda = <<x, y>>
      <4>1. Now(a) = x /\ Tail(job[a].agenda) = <<y>>
        BY <3>2 DEF Now
      <4>2. AppendFileStep(a)
        BY <3>0, <4>1, AppendSteps
      <4>3. \/ Abort(a, job'[a].answer.code) /\ job'[a].answer.code # "Ok"
            \/ Resume(a, << >>) /\ AppendsAt(hold'[a].dst, p)
        BY <1>1, <3>0, <4>1, <4>2, AppendFileOK DEF p
      <4>4. job \in [Actors -> Jobs]
        BY DEF PInv, DiskTypeOK, Jobs
      <4>5. CASE Abort(a, job'[a].answer.code) /\ job'[a].answer.code # "Ok"
        <5>1. job'[a].agenda = << >>
          BY <4>4, <4>5 DEF Abort, End, Jobs
        <5> QED
          BY <2>1, <2>5, <4>5, <5>1
      <4>6. CASE Resume(a, << >>) /\ AppendsAt(hold'[a].dst, p)
        <5>1. << >> \o <<y>> = <<y>>
          OBVIOUS
        <5>2. job'[a].agenda = <<y>>
          BY <2>5, <4>1, <4>4, <4>6, <5>1 DEF Resume, Jobs
        <5> QED
          BY <2>1, <2>5, <4>6, <5>2 DEF p, y
      <4> QED
        BY <4>3, <4>5, <4>6
    <3>3. CASE job[a].agenda = <<y>> /\ (OnlyAppended(p) => AppendsAt(hold[a].dst, p))
      <4>1. Now(a) = y /\ Tail(job[a].agenda) = << >> /\ << >> \o << >> = << >>
        BY <3>3 DEF Now
      <4>2. Write(a)
        BY <3>0, <4>1, AppendSteps
      <4>3. /\ Resume(a, << >>)
            /\ AppendsAt(hold[a].dst, p) => disk'[p].content = disk[p].content \o r.data
        BY <1>1, <2>1, <2>5, <4>2, WriteOK
      <4>4. job \in [Actors -> Jobs]
        BY DEF PInv, DiskTypeOK, Jobs
      <4>5. job'[a].agenda = << >>
        BY <4>1, <4>3, <4>4 DEF Resume, Jobs
      <4>6. OnlyAppended(p) => Holds(disk'[p].content, Len(before[p].content), r.data)
        BY <1>3, <2>1, <3>3, <4>3, WrittenIsHeld
      <4> QED
        BY <1>1, <1>2, <2>1, <2>5, <4>5, <4>6 DEF p
    <3> QED
      BY <2>2, <2>5, <3>0, <3>1, <3>2, <3>3 DEF y
  <2> QED
    BY <2>4, <2>5
<1> QED
  BY <1>4 DEF AppendPhases

LEMMA StepKeepsInv ==
    ASSUME PInv, NEW a \in Actors, Step(a)
    PROVE  PInv'
<1>1. UNCHANGED <<script, at, died, before>>
  BY KnownStep
<1> QED
  BY <1>1, StepKeepsAgendas, StepKeepsRaces, StepKeepsContents, StepKeepsAppends DEF PInv

LEMMA IdleTypes ==
    /\ Idle \in Jobs /\ Idle.end = "none" /\ Idle.agenda = << >>
    /\ NoFiles \in [src : OpenFiles, dst : OpenFiles] /\ NoFiles.dst.open = FALSE
    /\ \A r \in Requests : \A s \in Seq(Items) :
          /\ Job(r, s) \in Jobs /\ Job(r, s).request = r /\ Job(r, s).agenda = s
          /\ Job(r, s).end = "none"
<1>1. \A r \in Requests : \A s \in Seq(Items) :
          /\ Job(r, s) \in Jobs /\ Job(r, s).request = r /\ Job(r, s).agenda = s
          /\ Job(r, s).end = "none"
  BY PlainAnswers DEF Job, Jobs, Codes
<1>2. OnDisk(Root) \in Places
  <2>1. /\ OnDisk(Root) \in [fs : {"physical", "altroot"}, path : AnyPath]
        /\ Os(OnDisk(Root)) = PhysRoot \o Root
    BY RootsArePaths DEF OnDisk, Os, OsPath, Real
  <2>2. PhysRoot \o Root = PhysRoot
    BY RootsArePaths, JoinWithRoot
  <2> QED
    BY <2>1, <2>2, RootsAssumption DEF Places
<1>3. [op |-> "exists", path |-> OnDisk(Root), dest |-> OnDisk(Root), data |-> << >>] \in Requests
  BY <1>2, EmptyContent DEF Requests, ClientOps
<1>4. << >> \in Seq(Items)
  BY EmptySeq
<1>5. Closed \in OpenFiles /\ Closed.open = FALSE
  BY EmptyContent, PathsAssumption DEF Closed, OpenFiles
<1> QED
  BY <1>1, <1>3, <1>4, <1>5 DEF Idle, NoFiles

LEMMA InitHasInv == Init => PInv
<1> SUFFICES ASSUME Init PROVE PInv
  OBVIOUS
<1>1. DiskTypeOK /\ script \in Scripts /\ before \in Trees
  BY IdleTypes, TreesAssumption DEF Init, DiskTypeOK, Jobs
<1>2. \A a \in Actors : job[a] = Idle /\ hold[a] = NoFiles
  BY DEF Init
<1>3. AgendasOK
  <2>1. \A r, o : AgendaOK(r, << >>, o)
    BY NothingIsSound, SoundIsOK
  <2> QED
    BY <1>2, <2>1, IdleTypes DEF AgendasOK
<1>4. \A t \in Tasks : t \in Actors /\ at[t] = 0 /\ ~Busy(t)
  BY <1>2, IdleTypes DEF Init, Actors, Busy
<1>5. TasksAreAsked
  <2>1. \A t \in Tasks : Len(script[t]) \in Nat
    BY <1>1, ScriptsAssumption
  <2> QED
    BY <1>4, <2>1 DEF TasksAreAsked
<1>6. StragglersAreAsked
  <2>1. \A t \in Async : Straggler[t] \in Actors
    BY DEF Actors
  <2> QED
    BY <1>2, <2>1, IdleTypes DEF StragglersAreAsked, Busy
<1>7. PanicsAreRaced
  BY <1>2, IdleTypes DEF PanicsAreRaced, At, Busy
<1>8. ContentGrows
  <2>1. \A p \in Paths : before[p].content \in Contents
    BY <1>1, TreesAssumption, EntryFields DEF Maps
  <2>2. before = disk
    BY DEF Init
  <2> QED
    BY <1>2, <2>1, <2>2, IdleTypes, StartsItself DEF ContentGrows
<1>9. AppendPhases
  BY <1>4 DEF AppendPhases
<1> QED
  BY <1>1, <1>3, <1>5, <1>6, <1>7, <1>8, <1>9 DEF PInv

\* A request begins with sound steps and no file open.
LEMMA StartKeepsInv ==
    ASSUME PInv, NEW t \in Tasks, Start(t)
    PROVE  PInv'
<1> DEFINE n == at[t] + 1
           r == script[t][n]
           s == StepsOf(r)
<1>1. /\ ~Busy(t) /\ at[t] < Len(script[t])
      /\ at' = [at EXCEPT ![t] = n]
      /\ hold' = [hold EXCEPT ![t] = NoFiles]
      /\ job' = [job EXCEPT ![t] = Job(r, s)]
      /\ UNCHANGED <<disk, script, died, before>>
  BY DEF Start
<1>2. /\ t \in Actors /\ script[t] \in Seq(Requests) /\ at \in [Tasks -> Nat]
      /\ job \in [Actors -> Jobs] /\ hold \in Held
  BY ScriptsAssumption DEF PInv, DiskTypeOK, Jobs, Held, Actors
<1>3. n \in DOMAIN script[t] /\ n \in 0 .. Len(script[t]) /\ n > 0 /\ at[t] \in Nat /\ n > at[t]
  BY <1>1, <1>2
<1>4. r \in Requests
  BY <1>2, <1>3, ElementOfSeq
<1> HIDE DEF n, r, s
<1>5. Sound(r, s, FALSE)
  BY <1>4, StepsAreSound DEF s
<1>6. s \in Seq(FittingItems(r)) /\ s \in Seq(Items)
  BY <1>5, FittingAreItems DEF Sound
<1> DEFINE j == Job(r, s)
<1>7. j \in Jobs /\ j.request = r /\ j.agenda = s /\ j.end = "none"
  BY <1>4, <1>6, IdleTypes
<1> HIDE DEF j
<1>8. /\ at' \in [Tasks -> Nat] /\ at'[t] = n /\ \A u \in Tasks \ {t} : at'[u] = at[u]
      /\ hold' \in Held /\ hold'[t] = NoFiles /\ \A b \in Actors \ {t} : hold'[b] = hold[b]
      /\ job' \in [Actors -> Jobs] /\ job'[t] = j /\ \A b \in Actors \ {t} : job'[b] = job[b]
  <2>1. /\ at' \in [Tasks -> Nat] /\ at'[t] = n /\ \A u \in Tasks \ {t} : at'[u] = at[u]
    <3>1. n \in Nat
      BY <1>3
    <3> QED
      BY <1>1, <1>2, <3>1
  <2>2. /\ hold' \in Held /\ hold'[t] = NoFiles
        /\ \A b \in Actors \ {t} : hold'[b] = hold[b]
    <3>1. NoFiles \in [src : OpenFiles, dst : OpenFiles]
      BY IdleTypes
    <3> HIDE DEF NoFiles
    <3> QED
      BY <1>1, <1>2, <3>1 DEF Held
  <2>3. /\ job' \in [Actors -> Jobs] /\ job'[t] = j
        /\ \A b \in Actors \ {t} : job'[b] = job[b]
    <3>1. job' = [job EXCEPT ![t] = j]
      BY <1>1 DEF j
    <3> QED
      BY <1>2, <1>7, <3>1
  <2> QED
    BY <2>1, <2>2, <2>3
<1>9. ASSUME NEW u \in Tasks
      PROVE  at[u] \in Nat /\ at'[u] \in Nat /\ at[u] <= at'[u]
  <2>1. at[u] \in Nat /\ at'[u] \in Nat
    BY <1>2, <1>8
  <2>2. at'[u] = at[u] \/ (u = t /\ at'[u] = n)
    BY <1>8
  <2> QED
    BY <1>3, <2>1, <2>2
<1>10. DiskTypeOK' /\ (script \in Scripts /\ before \in Trees)'
  BY <1>1, <1>8 DEF PInv, DiskTypeOK, Jobs, Held
<1>11. AgendasOK'
  <2>1. AgendaOK(r, s, hold'[t].dst.open)
    <3>1. \A o : Sound(r, s, o)
      BY <1>5 DEF Sound, OpensFirst
    <3> QED
      BY <3>1, SoundIsOK
  <2>2. \A b \in Actors : AgendaOK(job'[b].request, job'[b].agenda, hold'[b].dst.open)
    BY <1>7, <1>8, <2>1 DEF PInv, AgendasOK
  <2> QED
    BY <2>2 DEF AgendasOK
<1>12. TasksAreAsked'
  <2>1. ASSUME NEW u \in Tasks
        PROVE  /\ at'[u] \in 0 .. Len(script[u])
               /\ at'[u] > 0 => job'[u].request = script[u][at'[u]]
               /\ Busy(u)' => at'[u] > 0
    <3>1. u \in Actors
      BY DEF Actors
    <3>2. CASE u = t
      BY <1>3, <1>7, <1>8, <3>2 DEF r
    <3>3. CASE u # t
      BY <1>8, <3>1, <3>3 DEF PInv, TasksAreAsked, Busy
    <3> QED
      BY <3>2, <3>3
  <2> QED
    BY <1>1, <2>1 DEF TasksAreAsked
<1>13. StragglersAreAsked'
  <2>1. ASSUME NEW u \in Async, Busy(Straggler[u])'
        PROVE  \E i \in 1 .. at'[u] :
                  script[u][i] = job'[Straggler[u]].request /\ (Busy(u)' => i < at'[u])
    <3>1. u \in Tasks /\ u \in Actors /\ Straggler[u] \in Actors /\ Straggler[u] # t
      BY TasksAssumption DEF Actors
    <3>2. job'[Straggler[u]] = job[Straggler[u]] /\ Busy(Straggler[u])
      BY <1>8, <2>1, <3>1 DEF Busy
    <3>3. PICK i \in 1 .. at[u] :
              script[u][i] = job[Straggler[u]].request /\ (Busy(u) => i < at[u])
      BY <3>2 DEF PInv, StragglersAreAsked
    <3>4. i \in 1 .. at'[u]
      BY <1>9, <3>1
    <3>5. Busy(u)' => i < at'[u]
      <4>1. CASE u = t
        BY <1>3, <1>8, <4>1
      <4>2. CASE u # t
        BY <1>8, <3>1, <3>3, <4>2 DEF Busy
      <4> QED
        BY <4>1, <4>2
    <3> QED
      BY <3>2, <3>3, <3>4, <3>5
  <2> QED
    BY <1>1, <2>1 DEF StragglersAreAsked
<1>14. PanicsAreRaced'
  <2>1. ASSUME NEW b \in Actors \ {t}, Raced(b) PROVE Raced(b)'
    <3>1. PICK u \in Tasks : \E i \in 1 .. at[u] :
              /\ u # b \/ i < at[b]
              /\ script[u][i].op \in RemovingOps
              /\ Reach(script[u][i]) \cap Reach(job[b].request) # {}
      BY <2>1 DEF Raced
    <3>2. PICK i \in 1 .. at[u] :
              /\ u # b \/ i < at[b]
              /\ script[u][i].op \in RemovingOps
              /\ Reach(script[u][i]) \cap Reach(job[b].request) # {}
      BY <3>1
    <3>3. i \in 1 .. at'[u] /\ (u # b \/ i < at'[b])
      BY <1>8, <1>9, <2>1, <3>2
    <3> QED
      BY <1>1, <1>8, <3>2, <3>3 DEF Raced
  <2>2. s # << >> => Head(s).do \notin Looks
    <3> SUFFICES ASSUME s # << >> PROVE Head(s).do \notin Looks
      OBVIOUS
    <3>1. 1 \in DOMAIN s /\ Head(s) = s[1]
      BY <1>6, EmptySeq, LenProperties, HeadTailProperties
    <3> QED
      BY <1>5, <3>1 DEF Sound
  <2>3. ASSUME NEW b \in Actors
        PROVE  /\ At(b, Looks)' /\ ~Exists(disk', Os(Now(b)'.path)) => Raced(b)'
               /\ job'[b].end = "panicked" => Raced(b)'
    <3>1. CASE b = t
      BY <1>7, <1>8, <2>2, <3>1 DEF At, Busy, Now
    <3>2. CASE b # t
      <4>1. job'[b] = job[b]
        BY <1>8, <3>2
      <4>2. /\ At(b, Looks)' => At(b, Looks)
            /\ Now(b)' = Now(b)
        BY <4>1 DEF At, Busy, Now
      <4> QED
        BY <1>1, <2>1, <3>2, <4>1, <4>2 DEF PInv, PanicsAreRaced
    <3> QED
      BY <3>1, <3>2
  <2> QED
    BY <2>3 DEF PanicsAreRaced
<1>15. ContentGrows'
  <2>1. \A p : OnlyAppended(p)' => OnlyAppended(p)
    BY <1>1 DEF OnlyAppended
  <2> QED
    BY <1>1, <1>8, <2>1, IdleTypes DEF PInv, ContentGrows
<1>16. AppendPhases'
  <2>1. \A p : OnlyAppended(p)' <=> OnlyAppended(p)
    BY <1>1 DEF OnlyAppended
  <2>2. r.op = "append_file" => s = AppendFileSteps(r.path)
    BY DEF StepsOf, s
  <2>3. \A u \in Tasks : u \in Actors
    BY DEF Actors
  <2> QED
    BY <1>1, <1>7, <1>8, <2>1, <2>2, <2>3 DEF PInv, AppendPhases
<1> QED
  BY <1>10, <1>11, <1>12, <1>13, <1>14, <1>15, <1>16 DEF PInv

\* What the pool has been handed is a beginning that can be left to it.
LEMMA InThePoolOK ==
    ASSUME NEW r, NEW s, NEW o, AgendaOK(r, s, o), s # << >>
    PROVE  /\ AgendaOK(r, InThePool(s), o)
           /\ InThePool(s) # << >> => Head(InThePool(s)).do \notin Looks
<1> DEFINE n == CASE Head(s).do = "os_copy" -> 3
                  [] Head(s).do = "os_some" -> 2
                  [] Head(s).do \in Pooled  -> 1
                  [] OTHER -> 0
           t == SubSeq(s, 1, n)
<1>1. /\ s \in Seq(FittingItems(r)) /\ Together(s) /\ OpensFirst(s, o) /\ LooksFirst(s)
  BY DEF AgendaOK
<1>2. Len(s) \in Nat \ {0} /\ DOMAIN s = 1 .. Len(s) /\ Head(s) = s[1] /\ 1 \in DOMAIN s
  BY <1>1, EmptySeq, LenProperties, HeadTailProperties
<1>3. /\ n \in 0 .. 3 /\ (n = 0 \/ s[1].do \in Pooled \cup {"os_copy", "os_some"})
      /\ n = 3 => 3 <= Len(s) /\ s[1].do = "os_copy" /\ s[2].do = "os_some" /\ s[3].do = "os_rest"
      /\ n = 2 => 2 <= Len(s) /\ s[1].do = "os_some" /\ s[2].do = "os_rest"
      /\ n = 1 => s[1].do \in Pooled
  <2>1. /\ s[1].do = "os_copy" =>
              1 + 2 \in DOMAIN s /\ s[1 + 1].do = "os_some" /\ s[1 + 2].do = "os_rest"
        /\ s[1].do = "os_some" => 1 + 1 \in DOMAIN s /\ s[1 + 1].do = "os_rest"
    BY <1>1, <1>2 DEF Together
  <2> QED
    BY <1>2, <2>1 DEF Pooled
<1> HIDE DEF n
<1>4. /\ t \in Seq(FittingItems(r)) /\ n <= Len(s) /\ Len(t) = n /\ DOMAIN t = 1 .. n
      /\ \A i \in 1 .. n : t[i] = s[i]
  <2>1. n \in Nat /\ n <= Len(s)
    BY <1>2, <1>3
  <2> QED
    BY <1>1, <1>2, <2>1
<1> HIDE DEF t
<1>5. \A i \in DOMAIN t : i \in DOMAIN s /\ t[i] = s[i]
  BY <1>2, <1>3, <1>4
<1>6. Together(t)
  <2>1. n = 0 \/ n = 1 \/ n = 2 \/ n = 3
    BY <1>3
  <2>2. \A i \in DOMAIN t : i = 1 \/ (i = 2 /\ n \in {2, 3}) \/ (i = 3 /\ n = 3)
    BY <1>4, <2>1
  <2> QED
    BY <1>3, <1>4, <2>1, <2>2 DEF Together, Pooled
<1>7. OpensFirst(t, o)
  <2> SUFFICES ASSUME NEW i \in DOMAIN t, t[i].do \in Writings, ~o
               PROVE  \E j \in DOMAIN t : j < i /\ t[j].do \in Openings
    BY DEF OpensFirst
  <2>1. PICK j \in DOMAIN s : j < i /\ s[j].do \in Openings
    BY <1>1, <1>5 DEF OpensFirst
  <2>2. j \in DOMAIN t
    BY <1>2, <1>3, <1>4, <2>1
  <2> QED
    BY <1>5, <2>1, <2>2
<1>8. LooksFirst(t)
  BY <1>1, <1>5 DEF LooksFirst
<1>9. t # << >> => Head(t).do \notin Looks
  <2> SUFFICES ASSUME t # << >> PROVE Head(t).do \notin Looks
    OBVIOUS
  <2>1. Head(t) = t[1] /\ 1 \in DOMAIN t
    BY <1>4, EmptySeq, LenProperties, HeadTailProperties
  <2> QED
    BY <1>3, <1>4, <2>1 DEF Pooled, Looks
<1> QED
  BY <1>4, <1>6, <1>7, <1>8, <1>9 DEF AgendaOK, InThePool, t, n

\* A dropped future: its call is gone, or left to the pool with the files it has
\* open.
LEMMA CancelKeepsInv ==
    ASSUME PInv, NEW t \in Tasks, Cancel(t)
    PROVE  PInv'
<1> DEFINE x == Straggler[t]
           r == job[t].request
           left == InThePool(job[t].agenda)
           d == [job[t] EXCEPT !.agenda = << >>, !.end = "dropped"]
           j == Job(r, left)
<1>1. /\ t \in Async /\ Busy(t) /\ UNCHANGED <<disk, script, at, died, before>>
      /\ \/ /\ job' = [job EXCEPT ![t].agenda = << >>, ![t].end = "dropped"]
            /\ UNCHANGED hold
         \/ /\ job' = [[job EXCEPT ![t].agenda = << >>, ![t].end = "dropped"] EXCEPT ![x] = j]
            /\ hold' = [hold EXCEPT ![x] = hold[t]]
            /\ ~Busy(x)
  BY DEF Cancel
<1>2. /\ t \in Actors /\ x \in Actors /\ x \notin Tasks
      /\ job \in [Actors -> Jobs] /\ hold \in Held
  BY <1>1, TasksAssumption DEF PInv, DiskTypeOK, Jobs, Held, Actors
<1>3. AgendaOK(r, job[t].agenda, hold[t].dst.open) /\ job[t].agenda # << >> /\ r \in Requests
  BY <1>1, <1>2 DEF PInv, AgendasOK, Busy, Jobs
<1>4. /\ AgendaOK(r, left, hold[t].dst.open)
      /\ left # << >> => Head(left).do \notin Looks
  BY <1>3, InThePoolOK
<1> HIDE DEF r, left
<1>5. left \in Seq(Items)
  BY <1>4, FittingAreItems DEF AgendaOK
<1>6. j \in Jobs /\ j.request = r /\ j.agenda = left /\ j.end = "none"
  BY <1>3, <1>5, IdleTypes
<1> HIDE DEF j
<1>7. d \in Jobs /\ d.request = r /\ d.agenda = << >> /\ d.end = "dropped"
  <2>1. << >> \in Seq(Items)
    BY EmptySeq
  <2> QED
    BY <1>2, <2>1 DEF Jobs, r
<1>8. /\ job' \in [Actors -> Jobs] /\ job'[t] = d /\ hold' \in Held
      /\ \A b \in Actors \ {t, x} : job'[b] = job[b]
      /\ \A b \in Actors \ {x} : hold'[b] = hold[b]
      /\ \/ job'[x] = job[x] /\ hold'[x] = hold[x]
         \/ job'[x] = j /\ hold'[x] = hold[t] /\ ~Busy(x)
  <2> HIDE DEF x
  <2>1. [job EXCEPT ![t].agenda = << >>, ![t].end = "dropped"] = [job EXCEPT ![t] = d]
    BY <1>2
  <2>2. x # t
    BY <1>2
  <2> HIDE DEF d
  <2>3. CASE job' = [job EXCEPT ![t] = d] /\ hold' = hold
    BY <1>2, <1>7, <2>2, <2>3
  <2>4. CASE job' = [[job EXCEPT ![t] = d] EXCEPT ![x] = j] /\ hold' = [hold EXCEPT ![x] = hold[t]]
             /\ ~Busy(x)
    <3>1. hold[t] \in [src : OpenFiles, dst : OpenFiles]
      BY <1>2 DEF Held
    <3>2. hold' \in Held /\ hold'[x] = hold[t] /\ \A b \in Actors \ {x} : hold'[b] = hold[b]
      BY <1>2, <2>4, <3>1 DEF Held
    <3> QED
      BY <1>2, <1>6, <1>7, <2>2, <2>4, <3>2
  <2> QED
    BY <1>1, <2>1, <2>3, <2>4
<1> HIDE DEF d, x
<1>9. \A u \in Tasks : u \in Actors \ {x}
  BY <1>2 DEF Actors
<1>10. DiskTypeOK' /\ (script \in Scripts /\ before \in Trees)'
  BY <1>1, <1>8 DEF PInv, DiskTypeOK, Jobs, Held
<1>11. AgendasOK'
  <2>1. AgendaOK(r, << >>, hold[t].dst.open)
    BY NothingIsSound, SoundIsOK
  <2>2. \A b \in Actors : AgendaOK(job'[b].request, job'[b].agenda, hold'[b].dst.open)
    BY <1>2, <1>4, <1>6, <1>7, <1>8, <2>1 DEF PInv, AgendasOK
  <2> QED
    BY <2>2 DEF AgendasOK
<1>12. \A u \in Tasks : job'[u].request = job[u].request /\ (Busy(u)' => Busy(u) /\ u # t)
  BY <1>7, <1>8, <1>9 DEF Busy, r
<1>13. TasksAreAsked'
  BY <1>1, <1>12 DEF PInv, TasksAreAsked
<1>14. StragglersAreAsked'
  <2>1. ASSUME NEW u \in Async, Busy(Straggler[u])'
        PROVE  \E i \in 1 .. at[u] :
                  script[u][i] = job'[Straggler[u]].request /\ (Busy(u)' => i < at[u])
    <3>1. u \in Tasks /\ Straggler[u] \in Actors /\ Straggler[u] # t
      BY TasksAssumption DEF Actors
    <3>2. CASE job'[Straggler[u]] = job[Straggler[u]]
      <4>1. Busy(Straggler[u])
        BY <2>1, <3>2 DEF Busy
      <4>2. PICK i \in 1 .. at[u] :
                script[u][i] = job[Straggler[u]].request /\ (Busy(u) => i < at[u])
        BY <4>1 DEF PInv, StragglersAreAsked
      <4> QED
        BY <1>12, <3>1, <3>2, <4>2
    <3>3. CASE job'[Straggler[u]] # job[Straggler[u]]
      <4>1. Straggler[u] = x /\ job'[x] = j
        BY <1>8, <3>1, <3>3
      <4>2. u = t
        BY <1>1, <4>1, TasksAssumption DEF x
      <4>3. at[t] > 0 /\ script[t][at[t]] = r /\ at[t] \in Nat
        BY <1>1, <3>1, <4>2 DEF PInv, TasksAreAsked, DiskTypeOK, r
      <4>4. at[t] \in 1 .. at[t]
        BY <4>3
      <4> QED
        BY <1>6, <1>12, <3>1, <4>1, <4>2, <4>3, <4>4
    <3> QED
      BY <3>2, <3>3
  <2> QED
    BY <1>1, <2>1 DEF StragglersAreAsked
<1>15. PanicsAreRaced'
  <2>1. ASSUME NEW b \in Actors, job'[b].request = job[b].request, Raced(b) PROVE Raced(b)'
    BY <1>1, <2>1 DEF Raced
  <2>2. ASSUME NEW b \in Actors
        PROVE  /\ At(b, Looks)' /\ ~Exists(disk', Os(Now(b)'.path)) => Raced(b)'
               /\ job'[b].end = "panicked" => Raced(b)'
    <3>1. CASE job'[b] = job[b]
      <4>1. /\ At(b, Looks)' => At(b, Looks)
            /\ Now(b)' = Now(b)
        BY <3>1 DEF At, Busy, Now
      <4> QED
        BY <1>1, <2>1, <3>1, <4>1 DEF PInv, PanicsAreRaced
    <3>2. CASE b = t
      BY <1>7, <1>8, <3>2 DEF At, Busy
    <3>3. CASE b = x /\ job'[b] = j
      BY <1>4, <1>6, <3>3 DEF At, Busy, Now
    <3> QED
      BY <1>8, <3>1, <3>2, <3>3
  <2> QED
    BY <2>2 DEF PanicsAreRaced
<1>16. ContentGrows'
  <2>1. \A p : OnlyAppended(p)' => OnlyAppended(p)
    BY <1>1 DEF OnlyAppended
  <2>2. \A b \in Actors : \E c \in Actors : hold'[b] = hold[c]
    BY <1>2, <1>8
  <2>3. ASSUME NEW p \in Paths, OnlyAppended(p), NEW b \in Actors
        PROVE  LET h == hold'[b].dst IN h.open /\ h.path = p /\ ~h.gone => h.appending
    <3>1. PICK c \in Actors : hold'[b] = hold[c]
      BY <2>2
    <3> QED
      BY <2>3, <3>1 DEF PInv, ContentGrows
  <2> QED
    BY <1>1, <2>1, <2>3 DEF PInv, ContentGrows
<1>17. AppendPhases'
  <2>1. \A p : OnlyAppended(p)' <=> OnlyAppended(p)
    BY <1>1 DEF OnlyAppended
  <2>2. \A u \in Tasks \ {t} : job'[u] = job[u] /\ hold'[u] = hold[u]
    BY <1>8, <1>9
  <2> QED
    BY <1>1, <1>7, <1>8, <2>1, <2>2 DEF PInv, AppendPhases
<1> QED
  BY <1>10, <1>11, <1>13, <1>14, <1>15, <1>16, <1>17 DEF PInv

LEMMA DieKeepsInv ==
    ASSUME PInv, Die
    PROVE  PInv'
<1> DEFINE dropped(a) == [job[a] EXCEPT !.agenda = << >>, !.end = "dropped"]
<1>1. /\ job' = [a \in Actors |-> IF Busy(a) THEN dropped(a) ELSE job[a]]
      /\ hold' = [a \in Actors |-> NoFiles]
      /\ UNCHANGED <<disk, script, at, before>> /\ died' \in BOOLEAN
  BY DEF Die
<1>2. \A a \in Actors :
         /\ dropped(a) \in Jobs /\ dropped(a).request = job[a].request
         /\ dropped(a).agenda = << >> /\ dropped(a).end = "dropped"
  <2>1. << >> \in Seq(Items) /\ job \in [Actors -> Jobs]
    BY EmptySeq DEF PInv, DiskTypeOK, Jobs
  <2> QED
    BY <2>1 DEF Jobs
<1> HIDE DEF dropped
<1>3. \A a \in Actors :
         /\ job'[a] \in Jobs /\ job'[a].request = job[a].request /\ job'[a].agenda = << >>
         /\ job'[a] = job[a] \/ job'[a].end = "dropped"
         /\ hold'[a] = NoFiles
  <2>1. job \in [Actors -> Jobs]
    BY DEF PInv, DiskTypeOK, Jobs
  <2> QED
    BY <1>1, <1>2, <2>1 DEF Busy
<1>4. hold' \in Held /\ job' \in [Actors -> Jobs]
  BY <1>1, <1>3, IdleTypes DEF Held
<1>5. DiskTypeOK' /\ (script \in Scripts /\ before \in Trees)'
  BY <1>1, <1>4 DEF PInv, DiskTypeOK, Jobs, Held
<1>6. AgendasOK'
  <2>1. \A r, o : AgendaOK(r, << >>, o)
    BY NothingIsSound, SoundIsOK
  <2> QED
    BY <1>3, <2>1 DEF AgendasOK
<1>7. \A a \in Actors : ~Busy(a)'
  BY <1>3 DEF Busy
<1>8. TasksAreAsked' /\ StragglersAreAsked'
  <2>1. \A t \in Tasks : t \in Actors
    BY DEF Actors
  <2>2. \A t \in Async : Straggler[t] \in Actors
    BY DEF Actors
  <2> QED
    BY <1>1, <1>3, <1>7, <2>1, <2>2 DEF PInv, TasksAreAsked, StragglersAreAsked
<1>9. PanicsAreRaced'
  <2>1. \A a \in Actors : Raced(a) => Raced(a)'
    BY <1>1, <1>3 DEF Raced
  <2> QED
    BY <1>3, <1>7, <2>1 DEF PInv, PanicsAreRaced, At
<1>10. ContentGrows'
  <2>1. \A p : OnlyAppended(p)' => OnlyAppended(p)
    BY <1>1 DEF OnlyAppended
  <2> QED
    BY <1>1, <1>3, <2>1, IdleTypes DEF PInv, ContentGrows
<1>11. AppendPhases'
  <2>1. \A p : OnlyAppended(p)' <=> OnlyAppended(p)
    BY <1>1 DEF OnlyAppended
  <2>2. \A t \in Tasks : t \in Actors
    BY DEF Actors
  <2>3. ASSUME NEW t \in Tasks, job'[t].end # "dropped"
        PROVE  job'[t] = job[t] /\ job[t].agenda = << >>
    BY <1>3, <2>2, <2>3
  <2>4. \A h : AppendFileSteps(h) # << >> /\ <<Do("write", h)>> # << >>
    BY DEF AppendFileSteps
  <2>5. ASSUME NEW t \in Tasks, at[t] > 0, job[t].request.op = "append_file",
               job'[t].end = "returned", job'[t].answer.code = "Ok",
               OnlyAppended(Os(job[t].request.path))
        PROVE  LET p == Os(job[t].request.path) IN
               Holds(disk[p].content, Len(before[p].content), job[t].request.data)
    BY <2>3, <2>4, <2>5 DEF PInv, AppendPhases
  <2>6. ASSUME NEW t \in Tasks, at'[t] > 0, job'[t].request.op = "append_file"
        PROVE  (LET p == Os(job[t].request.path) IN
                /\ job[t].agenda = << >>
                /\ OnlyAppended(p) /\ job[t].end = "returned" /\ job[t].answer.code = "Ok" =>
                     Holds(disk[p].content, Len(before[p].content), job[t].request.data))'
    <3>1. /\ job'[t].agenda = << >> /\ job'[t].request = job[t].request /\ at[t] > 0
          /\ disk' = disk /\ before' = before
      BY <1>1, <1>3, <2>2, <2>6
    <3> QED
      BY <2>1, <2>5, <2>6, <3>1
  <2> QED
    BY <2>6 DEF AppendPhases
<1> QED
  BY <1>5, <1>6, <1>8, <1>9, <1>10, <1>11 DEF PInv

LEMMA StutterKeepsInv == PInv /\ UNCHANGED vars => PInv'
<1> SUFFICES ASSUME PInv, UNCHANGED vars PROVE PInv'
  OBVIOUS
<1>1. UNCHANGED <<disk, hold, script, at, job, died, before>>
  BY DEF vars
<1>2. DiskTypeOK' /\ (script \in Scripts /\ before \in Trees)' /\ AgendasOK'
  BY <1>1 DEF PInv, DiskTypeOK, AgendasOK
<1>3. TasksAreAsked' /\ StragglersAreAsked'
  BY <1>1 DEF PInv, TasksAreAsked, StragglersAreAsked, Busy
<1>4. PanicsAreRaced'
  BY <1>1 DEF PInv, PanicsAreRaced, At, Busy, Now, Raced
<1>5. ContentGrows'
  BY <1>1 DEF PInv, ContentGrows, OnlyAppended
<1>6. AppendPhases'
  <2>1. \A p : OnlyAppended(p)' <=> OnlyAppended(p)
    BY <1>1 DEF OnlyAppended
  <2> QED
    BY <1>1, <2>1 DEF PInv, AppendPhases
<1> QED
  BY <1>2, <1>3, <1>4, <1>5, <1>6 DEF PInv

\* The invariant holds in every state of every run.
THEOREM PInvHolds == Spec => []PInv
<1>1. Init => PInv
  BY InitHasInv
<1>2. PInv /\ [Next]_vars => PInv'
  <2> SUFFICES ASSUME PInv, [Next]_vars PROVE PInv'
    OBVIOUS
  <2> QED
    BY StepKeepsInv, StartKeepsInv, CancelKeepsInv, DieKeepsInv, StutterKeepsInv DEF Next
<1> QED
  BY <1>1, <1>2, PTL DEF Spec

-----------------------------------------------------------------------------
(* Moves: where a call that moves files stands.  b is the disk at the start,  *)
(* f the disk as it is.                                                       *)

\* The files r moves, and where each entry goes.
Moved(r, b) == {z \in Paths : Below(z, Os(r.path)) /\ IsFile(b, z)}

Target(r, x) == Rebase(x, Os(r.path), Os(r.dest))

Around(r) == {x \in Paths : Below(x, Os(r.path)) \/ Below(x, Os(r.dest))}

Apart(r) == ~Below(Os(r.path), Os(r.dest)) /\ ~Below(Os(r.dest), Os(r.path))

Unmoved(r, b, f) == \A x \in Paths : Below(x, Os(r.path)) => f[x] = b[x]

Arrived(r, b, f, z) == f[Target(r, z)] = b[z]

\* g is where r's move puts h.
OfTheMove(r, h, g) ==
    h.fs = r.path.fs /\ Below(h.path, r.path.path) /\ Os(g) = Target(r, Os(h))

\* h has x open to read, at n.
Reads(b, h, x, n) ==
    h.open /\ ~h.gone /\ h.path = x /\ h.pos = n /\ h.directory = IsDirectory(b, x)

\* h has y open to write to, where the first n bytes of x are.
Writes(b, f, h, x, y, n) ==
    /\ h.open /\ ~h.gone /\ ~h.appending /\ h.path = y /\ h.pos = n
    /\ f[y] = FileEntry(SubSeq(b[x].content, 1, n))

Half(b, x) == Len(b[x].content) \div 2

StepsIn(K) == {it \in Items : it.do \in K}

\* What ends a move by copying, and the walk before it.
Last(r) == Do(IF r.op = "move_file" THEN "remove_file" ELSE "remove_dir_all", r.path)

Coming(r, v) == v = <<Last(r)>> \/ \E it \in StepsIn({"walk"}) : v = <<it, Last(r)>>

\* The walk has yet to reach z; what it has left behind has arrived.
Awaits(v, z) == v[1].do = "walk" /\ \E c \in Ahead(v[1]) : Below(z, Os(c))

ArrivedBut(r, b, f, v, S) == \A z \in Moved(r, b) \ S : Arrived(r, b, f, z) \/ Awaits(v, z)

Checks == {"absent", "parent_exists", "parent_is_dir"}

\* The steps that copy the bytes of h to g, from the second half on and from the
\* first.
LastBytes(h, g, v) == {<<From(do, h, g)>> \o v : do \in {"copy_rest", "os_rest"}}

FirstBytes(h, g, v) ==
    UNION {{<<From(do, h, g)>> \o y : y \in LastBytes(h, g, v)} : do \in {"copy_some", "os_some"}}

\* g is created; a stream has h open by then.
Creates(b, files, it, h, g) ==
    it = From("os_copy", h, g) \/ (it = Do("create_file", g) /\ Reads(b, files.src, Os(h), 0))

AtCreation(b, files, s, v, h, g) ==
    \E w \in Seq(StepsIn(Checks)), it \in Items, y \in FirstBytes(h, g, v) :
        s = w \o (<<it>> \o y) /\ Creates(b, files, it, h, g)

AtOpening(s, v, h, g) ==
    \E w \in Seq(StepsIn(Checks)), w2 \in Seq(StepsIn(Checks)), y \in FirstBytes(h, g, v) :
        s = w \o (<<Do("open", h)>> \o (w2 \o (<<Do("create_file", g)>> \o y)))

AtFirstBytes(b, f, files, s, v, h, g) ==
    /\ s \in FirstBytes(h, g, v)
    /\ Reads(b, files.src, Os(h), 0) /\ Writes(b, f, files.dst, Os(h), Os(g), 0)

AtLastBytes(b, f, files, s, v, h, g) ==
    LET n == Half(b, Os(h)) IN
    /\ s \in LastBytes(h, g, v)
    /\ Reads(b, files.src, Os(h), n) /\ Writes(b, f, files.dst, Os(h), Os(g), n)

\* Where a copy stands: at a directory, at an entry the walk has yielded, in a
\* file; v is what comes after that.
DirSteps == Checks \cup {"create_dir", "kind_there"}

InDir(r, b, f, s, v) ==
    (\E w \in Seq(StepsIn(DirSteps)) : s = w \o v) /\ ArrivedBut(r, b, f, v, {})

AtEntry(r, b, f, s, v) ==
    \E it \in StepsIn({"copy_entry"}) :
        /\ s = <<it>> \o v
        /\ OfTheMove(r, it.path, it.dest)
        /\ ArrivedBut(r, b, f, v, {Os(it.path)})

Within(h) == {z \in Paths : Below(z, Os(h))}

InFile(r, b, f, files, s, v) ==
    \E h \in Places, g \in Places :
        /\ OfTheMove(r, h, g)
        /\ ArrivedBut(r, b, f, v, Within(h))
        /\ \/ AtOpening(s, v, h, g)
           \/ AtCreation(b, files, s, v, h, g)
           \/ AtFirstBytes(b, f, files, s, v, h, g)
           \/ AtLastBytes(b, f, files, s, v, h, g)

\* Where a move that nobody disturbs stands; s is what is left of it.
NotBegun(r, b, f, s) == s = StepsOf(r) /\ Unmoved(r, b, f) /\ f[Os(r.dest)] = b[Os(r.dest)]

Copying(r, b, f, files, s) ==
    /\ Apart(r) /\ Unmoved(r, b, f)
    /\ \E v \in Seq(Items) :
          /\ Coming(r, v)
          /\ InDir(r, b, f, s, v) \/ AtEntry(r, b, f, s, v) \/ InFile(r, b, f, files, s, v)

Renaming(r, b, f, s) ==
    /\ Apart(r) /\ Unmoved(r, b, f)
    /\ \E it \in StepsIn(Renames) : s = <<it>> /\ (it.do = "rename_dir" => r.op = "move_dir")

Leftovers == {"create_dir", "create_file", "os_copy", "os_some", "os_rest"}

\* Nothing is removed any more, and all is still where it was; only the pool may
\* have something left to do.
GivenUp(r, b, f, s, mine) ==
    /\ Unmoved(r, b, f)
    /\ s # << >> => Apart(r) /\ ~mine /\ s \in Seq(StepsIn(Leftovers))

\* Everything is where it was to go.
Leaving(r, b, f, s) ==
    Apart(r) /\ (\A z \in Moved(r, b) : Arrived(r, b, f, z)) /\ s \in Seq(StepsIn(Removals))

Stands(r, b, f, files, s, mine) ==
    \/ mine /\ (NotBegun(r, b, f, s) \/ Copying(r, b, f, files, s))
    \/ Renaming(r, b, f, s)
    \/ GivenUp(r, b, f, s, mine)
    \/ Leaving(r, b, f, s)

\* The last request t has begun moves something, and nobody disturbs it.
Moving(t) == at[t] > 0 /\ job[t].request.op \in MovingOps /\ Alone(t)

\* Who is at t's request: t, or the pool.
Runner(t) ==
    IF t \in Async /\ Busy(Straggler[t]) /\ job[Straggler[t]].request = job[t].request
    THEN Straggler[t] ELSE t

MoveOK(t) ==
    LET a == Runner(t)
        r == job[t].request IN
    Moved(r, before) # {} => Stands(r, before, disk, hold[a], job[a].agenda, a \in Tasks)

\* Of what an undisturbed move may change only its own destination is open to
\* write to, and only by itself.
HandlesApart(t) ==
    LET r == job[t].request IN
    \A a \in Actors : hold[a].dst.open /\ hold[a].dst.path \in Around(r) =>
        job[a].request = r /\ Below(hold[a].dst.path, Os(r.dest))

\* What no request begun so far may change is as it was at the start, and
\* whatever is open to write to is where one of them may write.
Untouched ==
    \A x \in Paths : disk[x] # before[x] =>
        \E u \in Tasks : \E i \in 1 .. at[u] : x \in Reach(script[u][i])

Owned ==
    \A a \in Actors : hold[a].dst.open =>
        \E u \in Tasks : \E i \in 1 .. at[u] : hold[a].dst.path \in Reach(script[u][i])

MInv ==
    /\ PInv
    /\ Untouched /\ Owned
    /\ \A t \in Tasks : Moving(t) => HandlesApart(t) /\ MoveOK(t)

-----------------------------------------------------------------------------
(* Agendas in two parts.                                                    *)

LEMMA ItemsIn == \A K : \A s \in Seq(StepsIn(K)) : s \in Seq(Items)
BY SeqMonotonic DEF StepsIn

\* One step and the rest.
LEMMA StepAndRest ==
    ASSUME NEW S, NEW x \in S, NEW y \in Seq(S)
    PROVE  LET s == <<x>> \o y IN
           s \in Seq(S) /\ s # << >> /\ Head(s) = x /\ Tail(s) = y
<1> DEFINE s == <<x>> \o y
           m == Len(y)
<1>1. <<x>> \in Seq(S) /\ Len(<<x>>) = 1 /\ <<x>>[1] = x /\ m \in Nat
  BY LenProperties
<1>2. /\ s \in Seq(S) /\ Len(s) = 1 + m
      /\ \A i \in 1 .. 1 + m : s[i] = IF i <= 1 THEN <<x>>[i] ELSE y[i - 1]
  BY <1>1, ConcatProperties
<1> HIDE DEF s
<1>3. s # << >> /\ Head(s) = x
  <2>1. Len(s) > 0 /\ 1 \in 1 .. 1 + m
    BY <1>1, <1>2
  <2>2. s # << >>
    BY <2>1
  <2> QED
    BY <1>1, <1>2, <2>1, <2>2, HeadTailProperties
<1>4. Tail(s) = y
  <2> DEFINE z == Tail(s)
  <2>1. z \in Seq(S) /\ Len(z) = Len(s) - 1 /\ \A i \in 1 .. Len(s) - 1 : z[i] = s[i + 1]
    BY <1>2, <1>3, HeadTailProperties
  <2> HIDE DEF z
  <2>2. Len(z) = m
    BY <1>1, <1>2, <2>1
  <2>3. ASSUME NEW i \in 1 .. m PROVE z[i] = y[i]
    <3>1. i \in 1 .. Len(s) - 1 /\ i + 1 \in 1 .. 1 + m /\ ~(i + 1 <= 1) /\ i + 1 - 1 = i
      BY <1>1, <1>2
    <3> QED
      BY <1>2, <2>1, <3>1
  <2>4. z = y
    BY <2>1, <2>2, <2>3, SeqEqual
  <2> QED
    BY <2>4 DEF z
<1> QED
  BY <1>2, <1>3, <1>4 DEF s

\* Several steps and the rest.
LEMMA StepsAndRest ==
    ASSUME NEW S, NEW T, T \subseteq S, NEW w \in Seq(T), NEW y \in Seq(S)
    PROVE  LET s == w \o y IN
           /\ s \in Seq(S)
           /\ w = << >> => s = y
           /\ w # << >> => /\ s # << >> /\ Head(s) = Head(w) /\ Tail(s) = Tail(w) \o y
                           /\ Head(w) \in T /\ Tail(w) \in Seq(T)
<1>1. w \in Seq(S)
  BY SeqMonotonic
<1>2. w \o y \in Seq(S)
  BY <1>1, ConcatProperties
<1>3. w = << >> => w \o y = y
  BY ConcatEmptySeq
<1>4. ASSUME w # << >>
      PROVE  LET s == w \o y IN
             /\ s # << >> /\ Head(s) = Head(w) /\ Tail(s) = Tail(w) \o y
             /\ Head(w) \in T /\ Tail(w) \in Seq(T)
  <2>1. Head(w) \in T /\ Tail(w) \in Seq(T) /\ w = <<Head(w)>> \o Tail(w)
    <3> DEFINE h == Head(w)
               u == Tail(w)
               x == <<h>> \o u
    <3>1. h \in T /\ u \in Seq(T) /\ Len(u) = Len(w) - 1 /\ h = w[1]
          /\ Len(w) \in Nat \ {0} /\ \A i \in 1 .. Len(w) - 1 : u[i] = w[i + 1]
      BY <1>4, HeadTailProperties, LenProperties, EmptySeq
    <3> HIDE DEF h, u
    <3>2. <<h>> \in Seq(T) /\ Len(<<h>>) = 1 /\ <<h>>[1] = h
      BY <3>1
    <3>3. /\ x \in Seq(T) /\ Len(x) = 1 + Len(u)
          /\ \A i \in 1 .. 1 + Len(u) : x[i] = IF i <= 1 THEN <<h>>[i] ELSE u[i - 1]
      BY <3>1, <3>2, ConcatProperties
    <3> HIDE DEF x
    <3>4. Len(x) = Len(w)
      BY <3>1, <3>3
    <3>5. ASSUME NEW i \in 1 .. Len(w) PROVE x[i] = w[i]
      <4>1. CASE i = 1
        BY <3>1, <3>2, <3>3, <4>1
      <4>2. CASE i # 1
        <5>1. i \in 1 .. 1 + Len(u) /\ ~(i <= 1) /\ i - 1 \in 1 .. Len(w) - 1 /\ i - 1 + 1 = i
          BY <3>1, <4>2
        <5> QED
          BY <3>1, <3>3, <5>1
      <4> QED
        BY <4>1, <4>2
    <3>6. x = w
      BY <3>3, <3>4, <3>5, SeqEqual
    <3> QED
      BY <3>1, <3>6 DEF h, u, x
  <2>2. Head(w) \in S /\ Tail(w) \in Seq(S) /\ <<Head(w)>> \in Seq(S)
    BY <2>1, SeqMonotonic
  <2>3. w \o y = <<Head(w)>> \o (Tail(w) \o y)
    BY <2>1, <2>2, ConcatAssociative
  <2>4. Tail(w) \o y \in Seq(S)
    BY <2>2, ConcatProperties
  <2> DEFINE h == Head(w)
             u == Tail(w) \o y
  <2>5. h \in S /\ u \in Seq(S) /\ w \o y = <<h>> \o u
    BY <2>2, <2>3, <2>4
  <2> HIDE DEF h, u
  <2>6. w \o y # << >> /\ Head(w \o y) = h /\ Tail(w \o y) = u
    BY <2>5, StepAndRest
  <2> QED
    BY <2>1, <2>6 DEF h, u
<1> QED
  BY <1>2, <1>3, <1>4

-----------------------------------------------------------------------------
(* The steps a copy is made of.                                             *)

\* Sequences put together.
LEMMA PairOf ==
    ASSUME NEW S, NEW x \in S, NEW y \in S
    PROVE  /\ <<x>> \in Seq(S) /\ <<y>> \in Seq(S) /\ <<x, y>> \in Seq(S)
           /\ <<x, y>> = <<x>> \o <<y>>
<1> DEFINE a == <<x>>
           b == <<y>>
           c == <<x, y>>
           d == a \o b
<1>1. /\ a \in Seq(S) /\ Len(a) = 1 /\ a[1] = x
      /\ b \in Seq(S) /\ Len(b) = 1 /\ b[1] = y
      /\ c \in Seq(S) /\ Len(c) = 2 /\ c[1] = x /\ c[2] = y
  OBVIOUS
<1> HIDE DEF a, b, c
<1>2. d \in Seq(S) /\ Len(d) = 1 + 1 /\ \A i \in 1 .. 1 + 1 : d[i] = IF i <= 1 THEN a[i] ELSE b[i - 1]
  BY <1>1, ConcatProperties
<1> HIDE DEF d
<1>3. \A i \in 1 .. 2 : i = 1 \/ i = 2
  OBVIOUS
<1>4. d[1] = x /\ d[2] = y
  BY <1>1, <1>2
<1>5. \A i \in 1 .. 2 : c[i] = d[i]
  BY <1>1, <1>3, <1>4
<1>6. c = d
  BY <1>1, <1>2, <1>5, SeqEqual
<1> QED
  BY <1>1, <1>6 DEF a, b, c, d

LEMMA TripleOf ==
    ASSUME NEW S, NEW x \in S, NEW y \in S, NEW z \in S
    PROVE  /\ <<x, y, z>> \in Seq(S)
           /\ <<x, y, z>> = <<x>> \o (<<y>> \o <<z>>)
<1> DEFINE a == <<x>>
           b == <<y, z>>
           c == <<x, y, z>>
           d == a \o b
<1>1. /\ a \in Seq(S) /\ Len(a) = 1 /\ a[1] = x
      /\ b \in Seq(S) /\ Len(b) = 2 /\ b[1] = y /\ b[2] = z
      /\ c \in Seq(S) /\ Len(c) = 3 /\ c[1] = x /\ c[2] = y /\ c[3] = z
  OBVIOUS
<1>2. b = <<y>> \o <<z>>
  BY PairOf
<1> HIDE DEF a, b, c
<1>3. /\ d \in Seq(S) /\ Len(d) = Len(a) + Len(b)
      /\ \A i \in 1 .. Len(a) + Len(b) : d[i] = IF i <= Len(a) THEN a[i] ELSE b[i - Len(a)]
  BY <1>1, ConcatProperties
<1> HIDE DEF d
<1>4. \A i \in 1 .. 3 : i = 1 \/ i = 2 \/ i = 3
  OBVIOUS
<1>5. d[1] = x /\ d[2] = y /\ d[3] = z
  BY <1>1, <1>3
<1>6. \A i \in 1 .. 3 : c[i] = d[i]
  BY <1>1, <1>4, <1>5
<1>7. c = d
  BY <1>1, <1>3, <1>6, SeqEqual
<1> QED
  BY <1>1, <1>2, <1>7 DEF a, c, d

LEMMA ChecksAreItems ==
    ASSUME NEW do \in Checks, NEW h \in Places
    PROVE  Do(do, h) \in StepsIn(Checks) /\ <<Do(do, h)>> \in Seq(StepsIn(Checks))
<1> DEFINE it == Do(do, h)
<1>1. it \in StepsIn(Checks)
  BY DoItem DEF Checks, StepsIn, Steps
<1> HIDE DEF it
<1> QED
  BY <1>1 DEF it

LEMMA InDirectoryChecks ==
    ASSUME NEW h \in Places
    PROVE  InDirectory(h) \in Seq(StepsIn(Checks))
<1> DEFINE x == Do("parent_exists", Up(h))
           y == Do("parent_is_dir", Up(h))
<1>1. x \in StepsIn(Checks) /\ y \in StepsIn(Checks)
  BY PlacesAreClosed, ChecksAreItems DEF Checks
<1> HIDE DEF x, y
<1>2. <<x, y>> \in Seq(StepsIn(Checks))
  BY <1>1
<1> QED
  BY <1>2 DEF InDirectory, x, y

\* Whatever is created, checks come first.
LEMMA ShapeOfForwarded ==
    ASSUME NEW h \in Places, NEW do \in {"create_dir", "create_file"}
    PROVE  \E w \in Seq(StepsIn(Checks)) :
               InDirectory(h) \o Forwarded(do, h) = w \o <<Do(do, h)>>
<1> DEFINE S == Items
           a == InDirectory(h)
           b == InDirectory(OnDisk(Real(h)))
           c == <<Do(do, h)>>
<1>1. a \in Seq(StepsIn(Checks)) /\ b \in Seq(StepsIn(Checks)) /\ a \in Seq(S) /\ b \in Seq(S)
  BY InDirectoryChecks, PlacesAreClosed, ItemsIn
<1>2. Do(do, h) \in S /\ c \in Seq(S)
  BY DoItem DEF Steps
<1>3. CASE h.fs = "altroot"
  <2>1. Forwarded(do, h) = b \o c
    BY <1>1, <1>2, <1>3, AppendIsConcat DEF Forwarded
  <2> HIDE DEF S, a, b, c
  <2>2. a \o (b \o c) = (a \o b) \o c
    BY <1>1, <1>2, ConcatAssociative
  <2>3. a \o b \in Seq(StepsIn(Checks))
    BY <1>1, ConcatProperties
  <2> QED
    BY <2>1, <2>2, <2>3 DEF a, c
<1>4. CASE h.fs # "altroot"
  BY <1>1, <1>4 DEF Forwarded
<1> QED
  BY <1>3, <1>4

LEMMA ShapeOfCreateDir ==
    ASSUME NEW h \in Places
    PROVE  CreateDirSteps(h) \in Seq(StepsIn(DirSteps))
<1> DEFINE K == DirSteps
<1>1. PICK w \in Seq(StepsIn(Checks)) : CreateDirSteps(h) = w \o <<Do("create_dir", h)>>
  BY ShapeOfForwarded DEF CreateDirSteps
<1>2. StepsIn(Checks) \subseteq StepsIn(K) /\ Do("create_dir", h) \in StepsIn(K)
  BY DoItem DEF StepsIn, Steps, DirSteps
<1> HIDE DEF K
<1>3. w \in Seq(StepsIn(K)) /\ <<Do("create_dir", h)>> \in Seq(StepsIn(K))
  BY <1>2, SeqMonotonic
<1>4. w \o <<Do("create_dir", h)>> \in Seq(StepsIn(K))
  BY <1>3, ConcatProperties
<1> QED
  BY <1>1, <1>4 DEF K

\* The steps that copy the bytes are steps.
LEMMA BytesItems ==
    ASSUME NEW h \in Places, NEW g \in Places, NEW v \in Seq(Items)
    PROVE  /\ \A y \in LastBytes(h, g, v) :
                 /\ y \in Seq(Items) /\ y # << >> /\ Tail(y) = v
                 /\ Head(y) \in Items /\ Head(y).do \in {"copy_rest", "os_rest"}
                 /\ Head(y).path = h /\ Head(y).dest = g
           /\ \A y \in FirstBytes(h, g, v) :
                 /\ y \in Seq(Items) /\ y # << >> /\ Tail(y) \in LastBytes(h, g, v)
                 /\ Head(y) \in Items /\ Head(y).do \in {"copy_some", "os_some"}
                 /\ Head(y).path = h /\ Head(y).dest = g
<1>1. ASSUME NEW do \in {"copy_rest", "os_rest", "copy_some", "os_some"}, NEW x \in Seq(Items)
      PROVE  LET y == <<From(do, h, g)>> \o x IN
             /\ y \in Seq(Items) /\ y # << >> /\ Tail(y) = x
             /\ Head(y) \in Items /\ Head(y).do = do /\ Head(y).path = h /\ Head(y).dest = g
  <2> DEFINE it == From(do, h, g)
  <2>1. it \in Items /\ it.do = do /\ it.path = h /\ it.dest = g
    BY DoItem DEF Steps
  <2> HIDE DEF it
  <2>2. LET y == <<it>> \o x IN y \in Seq(Items) /\ y # << >> /\ Tail(y) = x /\ Head(y) = it
    BY <2>1, StepAndRest
  <2> QED
    BY <2>1, <2>2 DEF it
<1>2. ASSUME NEW y \in LastBytes(h, g, v)
      PROVE  /\ y \in Seq(Items) /\ y # << >> /\ Tail(y) = v
             /\ Head(y) \in Items /\ Head(y).do \in {"copy_rest", "os_rest"}
             /\ Head(y).path = h /\ Head(y).dest = g
  <2>1. PICK do \in {"copy_rest", "os_rest"} : y = <<From(do, h, g)>> \o v
    BY DEF LastBytes
  <2> QED
    BY <1>1, <2>1
<1>3. ASSUME NEW y \in FirstBytes(h, g, v)
      PROVE  /\ y \in Seq(Items) /\ y # << >> /\ Tail(y) \in LastBytes(h, g, v)
             /\ Head(y) \in Items /\ Head(y).do \in {"copy_some", "os_some"}
             /\ Head(y).path = h /\ Head(y).dest = g
  <2>1. PICK do \in {"copy_some", "os_some"}, x \in LastBytes(h, g, v) : y = <<From(do, h, g)>> \o x
    BY DEF FirstBytes
  <2>2. x \in Seq(Items) /\ do \in {"copy_rest", "os_rest", "copy_some", "os_some"}
    BY <1>2
  <2>3. LET z == <<From(do, h, g)>> \o x IN
        /\ z \in Seq(Items) /\ z # << >> /\ Tail(z) = x
        /\ Head(z) \in Items /\ Head(z).do = do /\ Head(z).path = h /\ Head(z).dest = g
    BY <1>1, <2>2
  <2> QED
    BY <2>1, <2>3
<1> QED
  BY <1>2, <1>3

\* A stream opens the source before it creates the destination.
LEMMA ShapeOfStream ==
    ASSUME NEW h \in Places, NEW g \in Places, NEW v \in Seq(Items), NEW w \in Seq(StepsIn(Checks))
    PROVE  AtOpening(w \o (StreamSteps(h, g) \o v), v, h, g)
<1> DEFINE S == Items
           o == <<Do("open", h)>>
           c == <<Do("create_file", g)>>
           x == From("copy_some", h, g)
           y == From("copy_rest", h, g)
           l == <<y>> \o v
           f == <<x>> \o l
<1>1. PICK w2 \in Seq(StepsIn(Checks)) : CreateFileSteps(g) = w2 \o c
  BY ShapeOfForwarded DEF CreateFileSteps
<1>2. /\ Do("open", h) \in S /\ Do("create_file", g) \in S /\ x \in S /\ y \in S
      /\ w2 \in Seq(S)
  BY DoItem, ItemsIn DEF Steps
<1>3. l \in LastBytes(h, g, v) /\ f \in FirstBytes(h, g, v)
  BY DEF LastBytes, FirstBytes
<1>4. StreamSteps(h, g) = (o \o (w2 \o c)) \o <<x, y>>
  BY <1>1 DEF StreamSteps
<1> HIDE DEF x, y
<1>5. o \in Seq(S) /\ c \in Seq(S) /\ <<x>> \in Seq(S) /\ <<y>> \in Seq(S)
      /\ <<x, y>> \in Seq(S) /\ <<x, y>> = <<x>> \o <<y>>
  <2>1. o \in Seq(S) /\ c \in Seq(S)
    BY <1>2
  <2> HIDE DEF o, c
  <2> QED
    BY <1>2, <2>1, PairOf
<1> HIDE DEF S, o, c
<1> DEFINE xy == <<x, y>>
<1>6. xy \o v = f
  BY <1>5, ConcatAssociative DEF S
<1>7. o \in Seq(S) /\ w2 \in Seq(S) /\ c \in Seq(S) /\ v \in Seq(S) /\ xy \in Seq(S)
  BY <1>2, <1>5 DEF S
<1> HIDE DEF xy, f
<1> DEFINE wc == w2 \o c
           cx == c \o xy
           u == wc \o xy
<1>8. wc \in Seq(S) /\ cx \in Seq(S)
  BY <1>7, ConcatProperties
<1>9. wc \o xy = w2 \o cx
  BY <1>7, ConcatAssociative
<1>10. cx \o v = c \o (xy \o v)
  BY <1>7, ConcatAssociative
<1> HIDE DEF wc, cx
<1>11. (o \o wc) \o xy = o \o u
  <2>1. o \in Seq(S) /\ wc \in Seq(S) /\ xy \in Seq(S)
    BY <1>7, <1>8
  <2> QED
    BY <2>1, ConcatAssociative
<1>12. u \in Seq(S)
  BY <1>7, <1>8, ConcatProperties
<1> HIDE DEF u
<1>13. (o \o u) \o v = o \o (u \o v)
  <2>1. o \in Seq(S) /\ u \in Seq(S) /\ v \in Seq(S)
    BY <1>7, <1>12
  <2> QED
    BY <2>1, ConcatAssociative
<1>14. (w2 \o cx) \o v = w2 \o (cx \o v)
  <2>1. w2 \in Seq(S) /\ cx \in Seq(S) /\ v \in Seq(S)
    BY <1>7, <1>8
  <2> QED
    BY <2>1, ConcatAssociative
<1>15. StreamSteps(h, g) \o v = o \o (w2 \o (c \o f))
  BY <1>4, <1>6, <1>9, <1>10, <1>11, <1>13, <1>14 DEF xy, wc, u
<1> QED
  BY <1>3, <1>15 DEF AtOpening, o, c

\* However a file is copied, nothing is created before its source is open, unless
\* std::fs::copy does both.
LEMMA ShapeOfCopyFile ==
    ASSUME NEW h \in Places, NEW g \in Places, NEW v \in Seq(Items), NEW b, NEW files
    PROVE  LET s == CopyFileSteps(h, g) \o v IN
           AtOpening(s, v, h, g) \/ AtCreation(b, files, s, v, h, g)
<1> DEFINE S == Items
           a == <<Do("absent", g)>>
           a2 == <<Do("absent", OnDisk(Real(g)))>>
           it == From("os_copy", h, g)
           x == From("os_some", h, g)
           y == From("os_rest", h, g)
           o == <<it, x, y>>
           st == StreamSteps(h, g)
           ab == a \o a2
           l == <<y>> \o v
           f == <<x>> \o l
<1>1. /\ a \in Seq(StepsIn(Checks)) /\ a2 \in Seq(StepsIn(Checks))
      /\ it \in S /\ x \in S /\ y \in S
  BY ChecksAreItems, PlacesAreClosed, DoItem DEF Checks, Steps
<1>2. l \in LastBytes(h, g, v) /\ f \in FirstBytes(h, g, v)
  BY DEF LastBytes, FirstBytes
<1>3. f \in Seq(S)
  <2> HIDE DEF f, l
  <2> QED
    BY <1>2, BytesItems
<1>4. st \in Seq(S)
  <2>1. PICK w \in Seq(StepsIn(Checks)) : CreateFileSteps(g) = w \o <<Do("create_file", g)>>
    BY ShapeOfForwarded DEF CreateFileSteps
  <2>2. /\ <<Do("open", h)>> \in Seq(S) /\ <<Do("create_file", g)>> \in Seq(S)
        /\ <<From("copy_some", h, g), From("copy_rest", h, g)>> \in Seq(S) /\ w \in Seq(S)
    BY DoItem, ItemsIn DEF Steps
  <2> HIDE DEF S
  <2>3. w \o <<Do("create_file", g)>> \in Seq(S)
    BY <2>2, ConcatProperties
  <2>4. <<Do("open", h)>> \o (w \o <<Do("create_file", g)>>) \in Seq(S)
    BY <2>2, <2>3, ConcatProperties
  <2> QED
    BY <2>1, <2>2, <2>4, ConcatProperties DEF StreamSteps
<1>5. /\ CopyFileSteps(h, g) = a \o Transfer(h, g)
      /\ Transfer(h, g) = st \/ Transfer(h, g) = a2 \o o \/ Transfer(h, g) = o
  BY DEF CopyFileSteps, Transfer, AltrootCopySteps, OsCopySteps
<1> HIDE DEF it, x, y, a, a2, st
<1>6. /\ <<it>> \in Seq(S) /\ <<x>> \in Seq(S) /\ <<y>> \in Seq(S) /\ o \in Seq(S)
      /\ o = <<it>> \o (<<x>> \o <<y>>)
  BY <1>1, PairOf, TripleOf
<1>7. a \in Seq(S) /\ a2 \in Seq(S) /\ v \in Seq(S)
  BY <1>1, ItemsIn
<1> HIDE DEF S
<1>8. ab \in Seq(StepsIn(Checks)) /\ ab \in Seq(S)
  BY <1>1, <1>7, ConcatProperties
<1> HIDE DEF o
<1>9. o \o v = <<it>> \o f
  <2>1. <<x>> \o <<y>> \in Seq(S)
    BY <1>6, ConcatProperties
  <2>2. (<<it>> \o (<<x>> \o <<y>>)) \o v = <<it>> \o ((<<x>> \o <<y>>) \o v)
    BY <1>6, <1>7, <2>1, ConcatAssociative
  <2>3. (<<x>> \o <<y>>) \o v = <<x>> \o (<<y>> \o v)
    BY <1>6, <1>7, ConcatAssociative
  <2> QED
    BY <1>6, <2>2, <2>3
<1> HIDE DEF f, ab, l
<1>10. CASE Transfer(h, g) = st
  <2>1. CopyFileSteps(h, g) \o v = a \o (st \o v)
    BY <1>4, <1>5, <1>7, <1>10, ConcatAssociative
  <2> QED
    BY <1>1, <2>1, ShapeOfStream DEF st
<1>11. ASSUME NEW w \in Seq(StepsIn(Checks)), CopyFileSteps(h, g) \o v = w \o (o \o v)
       PROVE  AtCreation(b, files, CopyFileSteps(h, g) \o v, v, h, g)
  BY <1>1, <1>2, <1>9, <1>11 DEF AtCreation, Creates, it, S
<1>12. CASE Transfer(h, g) = o
  <2>1. (a \o o) \o v = a \o (o \o v)
    BY <1>6, <1>7, ConcatAssociative
  <2> QED
    BY <1>1, <1>5, <1>11, <1>12, <2>1
<1>13. CASE Transfer(h, g) = a2 \o o
  <2>1. a2 \o o \in Seq(S)
    BY <1>6, <1>7, ConcatProperties
  <2>2. (a \o (a2 \o o)) \o v = a \o ((a2 \o o) \o v)
    <3> DEFINE z == a2 \o o
    <3>1. a \in Seq(S) /\ z \in Seq(S) /\ v \in Seq(S)
      BY <1>7, <2>1
    <3> HIDE DEF z
    <3>2. (a \o z) \o v = a \o (z \o v)
      BY <3>1, ConcatAssociative
    <3> QED
      BY <3>2 DEF z
  <2>3. (a2 \o o) \o v = a2 \o (o \o v)
    BY <1>6, <1>7, ConcatAssociative
  <2>4. o \o v \in Seq(S)
    BY <1>6, <1>7, ConcatProperties
  <2> DEFINE ov == o \o v
  <2>6. ov \in Seq(S)
    BY <2>4
  <2> HIDE DEF ov
  <2>5. (a \o a2) \o ov = a \o (a2 \o ov)
    BY <1>7, <2>6, ConcatAssociative
  <2> QED
    BY <1>5, <1>8, <1>11, <1>13, <2>2, <2>3, <2>5 DEF ov, ab
<1> QED
  BY <1>5, <1>10, <1>12, <1>13

\* What a move does once it knows that the destination is free.
LEMMA ShapeOfMove ==
    ASSUME NEW r \in Requests, r.op \in MovingOps
    PROVE  LET s == StepsOf(r)
               h == r.path
               g == r.dest
               last == <<Last(r)>>
           IN  /\ s \in Seq(Items) /\ s # << >> /\ Head(s) = Do("absent", g)
               /\ \/ \E it \in StepsIn(Renames) :
                        Tail(s) = <<it>> /\ (it.do = "rename_dir" => r.op = "move_dir")
                  \/ r.op = "move_file" /\ Tail(s) = StreamSteps(h, g) \o last
                  \/ r.op = "move_dir" /\ Tail(s) = MoveTreeSteps(h, g)
<1> DEFINE h == r.path
           g == r.dest
           a == Do("absent", g)
           l == Last(r)
<1>1. h \in Places /\ g \in Places
  BY DEF Requests
<1>2. a \in Items /\ l \in Items
  BY <1>1, DoItem DEF Last, Steps
<1>3. /\ From("rename", h, g) \in StepsIn(Renames) /\ From("rename_dir", h, g) \in StepsIn(Renames)
      /\ From("rename", h, g) \in Items /\ From("rename_dir", h, g) \in Items
      /\ From("rename", h, g).do = "rename" /\ From("rename_dir", h, g).do = "rename_dir"
  BY <1>1, DoItem DEF StepsIn, Renames, Steps
<1>4. StreamSteps(h, g) \in Seq(Items) /\ CreateDirSteps(g) \in Seq(Items)
  <2>1. \A q, p : q.op # "append_file" /\ Os(g) \in Makes(q) => Sound(q, StreamSteps(h, g), FALSE)
    BY <1>1, StreamSound
  <2>2. Os(g) \in Makes(r) /\ r.op # "append_file"
    BY <1>1, Reached, PlaceIsBelowItself DEF MovingOps, CopyingOps
  <2>3. StreamSteps(h, g) \in Seq(FittingItems(r))
    BY <2>1, <2>2 DEF Sound
  <2> QED
    BY <1>1, <2>3, FittingAreItems, ShapeOfCreateDir, ItemsIn
<1>5. MoveTreeSteps(h, g) \in Seq(Items)
  BY MoveDirSound, FittingAreItems DEF Sound
<1>6. ASSUME NEW x \in Seq(Items), StepsOf(r) = <<a>> \o x
      PROVE  LET s == StepsOf(r) IN
             s \in Seq(Items) /\ s # << >> /\ Head(s) = a /\ Tail(s) = x
  BY <1>2, <1>6, StepAndRest
<1>7. CASE r.op = "move_file"
  <2>1. StepsOf(r) = MoveFileSteps(h, g) /\ l = Do("remove_file", h)
    BY <1>7 DEF StepsOf, Last
  <2>2. Append(StreamSteps(h, g), l) = StreamSteps(h, g) \o <<l>>
        /\ StreamSteps(h, g) \o <<l>> \in Seq(Items)
    BY <1>2, <1>4, AppendIsConcat, AppendProperties
  <2>3. \/ StepsOf(r) = <<a>> \o <<From("rename", h, g)>>
        \/ StepsOf(r) = <<a>> \o (StreamSteps(h, g) \o <<l>>)
    BY <2>1, <2>2 DEF MoveFileSteps
  <2>4. <<From("rename", h, g)>> \in Seq(Items)
    BY <1>3
  <2> QED
    BY <1>3, <1>6, <1>7, <2>2, <2>3, <2>4
<1>8. CASE r.op = "move_dir"
  <2>1. StepsOf(r) = MoveDirSteps(h, g)
    BY <1>8 DEF StepsOf
  <2>2. \/ StepsOf(r) = <<a>> \o <<From("rename_dir", h, g)>>
        \/ StepsOf(r) = <<a>> \o MoveTreeSteps(h, g)
    BY <2>1 DEF MoveDirSteps
  <2>3. <<From("rename_dir", h, g)>> \in Seq(Items)
    BY <1>3
  <2> QED
    BY <1>3, <1>5, <1>6, <1>8, <2>2, <2>3
<1> QED
  BY <1>7, <1>8 DEF MovingOps

\* A tree is moved by making the directory, the walk and the removal.
LEMMA ShapeOfMoveTree ==
    ASSUME NEW r \in Requests, r.op = "move_dir"
    PROVE  \E it \in StepsIn({"walk"}) :
               /\ r.path \in Ahead(it)
               /\ MoveTreeSteps(r.path, r.dest) = CreateDirSteps(r.dest) \o <<it, Last(r)>>
<1> DEFINE h == r.path
           c == CreateDirSteps(r.dest)
           it == [From("walk", h, r.dest) EXCEPT !.todo = <<h>>]
           l == Do("remove_dir_all", h)
<1>1. h \in Places /\ r.dest \in Places
  BY DEF Requests
<1>2. it \in StepsIn({"walk"}) /\ it.todo = <<h>> /\ it \in Items /\ l \in Items /\ Last(r) = l
  <2> DEFINE x == From("walk", h, r.dest)
  <2>1. x \in Items /\ x.do = "walk" /\ l \in Items /\ Last(r) = l
    BY <1>1, DoItem DEF Steps, Last
  <2>2. <<h>> \in Seq(Places)
    BY <1>1
  <2> HIDE DEF x
  <2>3. [x EXCEPT !.todo = <<h>>] \in Items /\ [x EXCEPT !.todo = <<h>>].do = "walk"
        /\ [x EXCEPT !.todo = <<h>>].todo = <<h>>
    BY <2>1, <2>2 DEF Items
  <2> QED
    BY <2>1, <2>3 DEF x, StepsIn
<1>3. h \in Ahead(it)
  BY <1>2 DEF Ahead
<1>4. c \in Seq(Items)
  BY <1>1, ShapeOfCreateDir, ItemsIn
<1>5. MoveTreeSteps(h, r.dest) = Append(Append(c, it), l)
  BY DEF MoveTreeSteps, CopyTreeSteps
<1> HIDE DEF it, l, c
<1>6. <<it>> \in Seq(Items) /\ <<l>> \in Seq(Items) /\ <<it, l>> = <<it>> \o <<l>>
  BY <1>2, PairOf
<1>7. Append(Append(c, it), l) = (c \o <<it>>) \o <<l>>
  <2>1. Append(c, it) = c \o <<it>> /\ Append(c, it) \in Seq(Items)
    BY <1>2, <1>4, AppendIsConcat, AppendProperties
  <2> QED
    BY <1>2, <2>1, AppendIsConcat
<1>8. (c \o <<it>>) \o <<l>> = c \o (<<it>> \o <<l>>)
  BY <1>4, <1>6, ConcatAssociative
<1> QED
  BY <1>2, <1>3, <1>5, <1>6, <1>7, <1>8 DEF c

-----------------------------------------------------------------------------
(* The paths of a move.                                                     *)

\* A request to move something, and the disk it finds at the start.
MoveOf(r, b) ==
    /\ r \in Requests /\ r.op \in MovingOps
    /\ b \in Maps /\ IsTree(b)
    /\ \A x \in Paths : Below(x, Os(r.path)) => Target(r, x) \in Paths
    /\ Below(Os(r.dest), Os(r.path)) => Os(r.dest) = Os(r.path)

LEMMA MovePaths ==
    ASSUME NEW r \in Requests, r.op \in MovingOps
    PROVE  /\ r.op \in CopyingOps /\ r.op \in RemovingOps /\ r.op # "append_file"
           /\ r.path \in Places /\ r.dest \in Places
           /\ Os(r.path) \in Paths /\ Os(r.dest) \in Paths
           /\ Os(r.path) \in AnyPath /\ Os(r.dest) \in AnyPath
           /\ Named(r.path) = Os(r.path) /\ Named(r.dest) = Os(r.dest)
           /\ Makes(r) = {x \in Paths : Below(x, Os(r.dest))}
           /\ Reach(r) = Around(r)
<1>1. r.path \in Places /\ r.dest \in Places
  BY DEF Requests
<1>2. /\ Os(r.path) \in Paths /\ Os(r.dest) \in Paths
      /\ Named(r.path) = Os(r.path) /\ Named(r.dest) = Os(r.dest)
  BY <1>1, PlaceFields, OsPaths
<1>3. /\ r.op \in CopyingOps /\ r.op \in RemovingOps
      /\ r.op \notin {"create_dir", "create_dir_all", "write_file", "append_file"}
  BY DEF MovingOps, CopyingOps, RemovingOps
<1>4. Reach(r) = Around(r)
  BY <1>2, <1>3 DEF Reach, Around
<1>5. Makes(r) = {x \in Paths : Below(x, Os(r.dest))}
  BY <1>2, <1>3, <1>4 DEF Makes, Around
<1> QED
  BY <1>1, <1>2, <1>3, <1>4, <1>5, PathsAreSequences

\* Where the entries of the source go.
LEMMA Targets ==
    ASSUME NEW r, NEW b, MoveOf(r, b), NEW x \in Paths, Below(x, Os(r.path))
    PROVE  /\ x \in AnyPath /\ Target(r, x) \in Paths /\ Below(Target(r, x), Os(r.dest))
           /\ \A z \in Paths : Below(z, Os(r.path)) /\ Target(r, z) = Target(r, x) => z = x
<1>1. /\ Os(r.path) \in AnyPath /\ Os(r.dest) \in AnyPath /\ x \in AnyPath
      /\ Paths \subseteq AnyPath
  BY MovePaths, PathsAreSequences DEF MoveOf
<1>2. Target(r, x) \in Paths /\ Below(Target(r, x), Os(r.dest))
  BY <1>1, RebasedIsBelow DEF MoveOf, Target
<1>3. ASSUME NEW z \in Paths, Below(z, Os(r.path)), Target(r, z) = Target(r, x)
      PROVE  z = x
  <2>1. \A y \in Paths : Below(y, Os(r.path)) => Rebase(Target(r, y), Os(r.dest), Os(r.path)) = y
    BY <1>1, RebaseBack DEF Target
  <2> QED
    BY <1>3, <2>1
<1> QED
  BY <1>1, <1>2, <1>3

\* Source and destination have nothing in common.
LEMMA ApartPaths ==
    ASSUME NEW r, NEW b, MoveOf(r, b), Apart(r), NEW x \in Paths
    PROVE  ~(Below(x, Os(r.path)) /\ Below(x, Os(r.dest)))
<1>1. Os(r.path) \in AnyPath /\ Os(r.dest) \in AnyPath /\ x \in AnyPath
  BY MovePaths, PathsAreSequences DEF MoveOf
<1> QED
  BY <1>1, BelowBoth DEF Apart

\* What is above a file that is moved is a directory, and on the way to the file
\* there is an entry in it.
LEMMA AboveMoved ==
    ASSUME NEW r, NEW b, MoveOf(r, b), NEW z \in Moved(r, b), NEW x \in Paths,
           Below(z, x), z # x
    PROVE  IsDirectory(b, x) /\ \E c \in Children(b, x) : Below(z, c)
<1>1. b \in Maps /\ IsTree(b) /\ z \in Paths /\ Exists(b, z)
  BY DEF MoveOf, Moved, IsFile, Exists
<1> QED
  BY <1>1, ChildTowards

\* A move whose destination is free, and that finds a file to move, goes
\* somewhere else.
LEMMA ApartWhenFree ==
    ASSUME NEW r, NEW b, MoveOf(r, b), Moved(r, b) # {}, ~Exists(b, Os(r.dest))
    PROVE  Apart(r)
<1> DEFINE p == Os(r.path)
           q == Os(r.dest)
<1>1. PICK z \in Moved(r, b) : TRUE
  OBVIOUS
<1>2. /\ p \in Paths /\ q \in Paths /\ b \in Maps /\ IsTree(b)
      /\ z \in Paths /\ Below(z, p) /\ Exists(b, z)
  BY MovePaths DEF MoveOf, Moved, IsFile, Exists
<1>3. \A x \in Paths : IsDirectory(b, x) => Exists(b, x)
  BY DEF IsDirectory, Exists
<1>4. Exists(b, p)
  BY <1>2, <1>3, ChildTowards
<1>5. ~Below(p, q)
  BY <1>2, <1>3, <1>4, ChildTowards
<1>6. ~Below(q, p)
  BY <1>4 DEF MoveOf
<1> QED
  BY <1>5, <1>6 DEF Apart

\* The entries of a directory of the source are those it had at the start.
LEMMA ChildrenStay ==
    ASSUME NEW r, NEW b, MoveOf(r, b), NEW f \in Maps, Unmoved(r, b, f),
           NEW x \in Paths, Below(x, Os(r.path))
    PROVE  Children(b, x) = Children(f, x)
<1>1. Os(r.path) \in AnyPath /\ x \in AnyPath
  BY MovePaths, PathsAreSequences DEF MoveOf
<1>2. ASSUME NEW c \in Paths, c # Root, Parent(c) = x
      PROVE  f[c] = b[c]
  <2>1. c \in AnyPath /\ Below(c, x)
    BY <1>2, PathsAreSequences, BelowParent
  <2>2. Below(c, Os(r.path))
    BY <1>1, <2>1, BelowTransitive
  <2> QED
    BY <2>2 DEF Unmoved
<1> QED
  BY <1>2 DEF Children, Exists

\* A place below the source is one that the move puts somewhere.
LEMMA PlaceOfTheMove ==
    ASSUME NEW r, NEW b, MoveOf(r, b), NEW h \in Places, NEW g \in Places, OfTheMove(r, h, g)
    PROVE  /\ Os(h) \in Paths /\ Below(Os(h), Os(r.path))
           /\ Os(g) \in Paths /\ Os(g) = Target(r, Os(h))
<1>1. r.path \in Places /\ r.dest \in Places
  BY MovePaths DEF MoveOf
<1>2. r.path \in AnyPlaces /\ r.dest \in AnyPlaces /\ h \in AnyPlaces /\ Os(h) \in Paths
      /\ Os(g) \in Paths
  BY <1>1, PlaceFields
<1>3. Below(Os(h), Os(r.path))
  BY <1>2, RebasedPlaces DEF OfTheMove
<1> QED
  BY <1>2, <1>3 DEF OfTheMove

-----------------------------------------------------------------------------
(* The steps of an undisturbed move.                                        *)

\* a, which is at the move r, takes a step.
OwnStep(a, r, b) ==
    /\ Acting(a) /\ Step(a) /\ WorldStep(a)
    /\ job[a].request = r /\ MoveOf(r, b)
    /\ hold[a].dst.open /\ hold[a].dst.path \in Around(r) => Below(hold[a].dst.path, Os(r.dest))

\* The agenda's first step is the action taken.
LEMMA TheAction ==
    ASSUME NEW a, Step(a)
    PROVE  /\ Now(a).do = "absent" => Absent(a)
           /\ Now(a).do = "parent_exists" => ParentExists(a)
           /\ Now(a).do = "parent_is_dir" => ParentIsDir(a)
           /\ Now(a).do \in {"create_dir", "ensure_dir"} => CreateDirStep(a)
           /\ Now(a).do \in {"kind_there", "kind_ensured"} => KindStep(a)
           /\ Now(a).do = "create_file" => CreateFileStep(a)
           /\ Now(a).do = "open" => OpenStep(a)
           /\ Now(a).do \in {"copy_some", "copy_rest", "os_some", "os_rest"} => CopyBytes(a)
           /\ Now(a).do = "os_copy" => OsCopy(a)
BY DEF Step, At, Look, Reply, Change, ParentExists, ParentIsDir, CreateDirStep, KindStep,
       CreateFileStep, AppendFileStep, OpenStep, Write, CopyBytes, OsCopy, Absent, RenameFile,
       RenameDir, RemoveFileStep, RemoveDirStep, OpenFileStep, MetadataStep, ExistsStep,
       ReadDirStep, SetTimeStep, SetTimeElsewhere, RemoveDirAll, List, WalkList, CopyEntry

LEMMA TheActionInATree ==
    ASSUME NEW a, Step(a)
    PROVE  /\ Now(a).do = "rename" => RenameFile(a)
           /\ Now(a).do = "rename_dir" => RenameDir(a)
           /\ Now(a).do = "remove_file" => RemoveFileStep(a)
           /\ Now(a).do = "remove_dir" => RemoveDirStep(a)
           /\ Now(a).do = "remove_dir_all" => RemoveDirAll(a)
           /\ Now(a).do = "list" => List(a)
           /\ Now(a).do = "children" => \E child \in Now(a).left : NextChild(a, child)
           /\ Now(a).do = "copy_entry" => CopyEntry(a)
           /\ Now(a).do = "walk" => WalkList(a) \/ \E child \in Now(a).left : WalkYield(a, child)
BY DEF Step, At, Look, Reply, Change, ParentExists, ParentIsDir, CreateDirStep, KindStep,
       CreateFileStep, AppendFileStep, OpenStep, Write, CopyBytes, OsCopy, Absent, RenameFile,
       RenameDir, RemoveFileStep, RemoveDirStep, OpenFileStep, MetadataStep, ExistsStep,
       ReadDirStep, SetTimeStep, SetTimeElsewhere, RemoveDirAll, List, WalkList, CopyEntry,
       NextChild, WalkYield

\* What is left to do.
LEMMA AfterEnd ==
    ASSUME NEW a, Acting(a), NEW answer, NEW how, End(a, answer, how)
    PROVE  job'[a].agenda = << >>
<1>1. a \in Actors /\ job \in [Actors -> Jobs]
  BY DEF Acting, DiskTypeOK, Jobs
<1> QED
  BY <1>1 DEF End, Jobs

LEMMA AfterResume ==
    ASSUME NEW a, Acting(a), NEW steps, Resume(a, steps)
    PROVE  /\ job'[a].agenda = (IF a \in Tasks THEN steps ELSE << >>) \o Tail(job[a].agenda)
           /\ steps = << >> => job'[a].agenda = Tail(job[a].agenda)
           /\ Tail(job[a].agenda) \in Seq(Items)
<1>1. a \in Actors /\ job \in [Actors -> Jobs]
  BY DEF Acting, DiskTypeOK, Jobs
<1>2. Tail(job[a].agenda) \in Seq(Items)
  BY ActingFacts, FittingAreItems DEF Sound
<1> DEFINE mine == IF a \in Tasks THEN steps ELSE << >>
           agenda == mine \o Tail(job[a].agenda)
<1>3. job' = [job EXCEPT ![a].agenda = agenda,
                         ![a].end = IF agenda = << >> THEN "returned" ELSE @]
  BY DEF Resume
<1>4. steps = << >> => agenda = Tail(job[a].agenda)
  BY <1>2, ConcatEmptySeq
<1> HIDE DEF agenda
<1>5. job'[a].agenda = agenda
  BY <1>1, <1>3 DEF Jobs
<1> HIDE DEF mine
<1>6. job'[a].agenda = mine \o Tail(job[a].agenda)
  BY <1>5 DEF agenda
<1> QED
  BY <1>2, <1>4, <1>5, <1>6 DEF mine

LEMMA AfterSettle ==
    ASSUME NEW a, Acting(a), NEW code, NEW codes, NEW steps, Settle(a, code, codes, steps)
    PROVE  /\ code \notin codes => job'[a].agenda = << >>
           /\ code \in codes =>
                 job'[a].agenda = (IF a \in Tasks THEN steps ELSE << >>) \o Tail(job[a].agenda)
           /\ code \in codes /\ steps = << >> => job'[a].agenda = Tail(job[a].agenda)
BY AfterEnd, AfterResume DEF Settle, Abort

LEMMA AfterCall ==
    ASSUME NEW a, Acting(a), NEW code, Settle(a, code, {"Ok"}, << >>)
    PROVE  /\ code # "Ok" => job'[a].agenda = << >>
           /\ code = "Ok" => job'[a].agenda = Tail(job[a].agenda)
<1> DEFINE codes == {"Ok"}
           steps == << >>
<1>1. Settle(a, code, codes, steps) /\ (code \in codes <=> code = "Ok") /\ steps = << >>
  OBVIOUS
<1> HIDE DEF codes, steps
<1>2. /\ code \notin codes => job'[a].agenda = << >>
      /\ code \in codes /\ steps = << >> => job'[a].agenda = Tail(job[a].agenda)
  BY <1>1, AfterSettle
<1> QED
  BY <1>1, <1>2

\* A check passes or ends the call.
LEMMA AfterCheck ==
    ASSUME NEW a, Acting(a), Step(a), Now(a).do \in Checks \cup {"kind_there"}
    PROVE  /\ UNCHANGED <<disk, hold>>
           /\ job'[a].agenda = << >> \/ job'[a].agenda = Tail(job[a].agenda)
           /\ Now(a).do = "absent" /\ job'[a].agenda # << >> => ~Exists(disk, Os(Now(a).path))
<1>1. \A h : ThereIs(disk, Real(h)) <=> Exists(disk, Os(h))
  BY DEF ThereIs, Os
<1>2. CASE Now(a).do = "absent"
  <2>1. Absent(a)
    BY <1>2, TheAction
  <2> QED
    BY <1>1, <2>1, AfterEnd, AfterResume DEF Absent, Abort, Here
<1>3. CASE Now(a).do = "parent_exists"
  <2>1. ParentExists(a)
    BY <1>3, TheAction
  <2> QED
    BY <1>3, <2>1, AfterEnd, AfterResume DEF ParentExists, Abort
<1>4. CASE Now(a).do = "parent_is_dir"
  <2>1. ParentIsDir(a)
    BY <1>4, TheAction
  <2> QED
    BY <1>4, <2>1, AfterEnd, AfterSettle DEF ParentIsDir, Abort
<1>5. CASE Now(a).do = "kind_there"
  <2>1. KindStep(a)
    BY <1>5, TheAction
  <2> QED
    BY <1>5, <2>1, AfterEnd, AfterSettle DEF KindStep
<1> QED
  BY <1>2, <1>3, <1>4, <1>5 DEF Checks

\* Until something is removed or renamed the source stays what it is.
LEMMA KeepsSource ==
    ASSUME NEW a, NEW r, NEW b, OwnStep(a, r, b), Apart(r), Unmoved(r, b, disk),
           Now(a).do \notin Removals \cup Renames
    PROVE  Unmoved(r, b, disk')
<1> SUFFICES ASSUME NEW x \in Paths, Below(x, Os(r.path)) PROVE disk'[x] = b[x]
  BY DEF Unmoved
<1>1. MoveOf(r, b) /\ WorldStep(a) /\ job[a].request = r
  BY DEF OwnStep
<1>2. ~Below(x, Os(r.dest)) /\ x \in Around(r)
  BY <1>1, ApartPaths DEF Around
<1>3. Changed(a) = Makes(r)
  BY <1>1 DEF Changed, At
<1>4. x \notin Changed(a)
  BY <1>1, <1>2, <1>3, MovePaths DEF MoveOf
<1>5. ~(hold[a].dst.open /\ hold[a].dst.path = x)
  BY <1>2 DEF OwnStep
<1>6. disk'[x] = disk[x]
  BY <1>1, <1>4, <1>5 DEF WorldStep
<1> QED
  BY <1>6 DEF Unmoved

\* What has arrived stays when only what was not there is made.
LEMMA KeepsArrived ==
    ASSUME NEW r, NEW b, MoveOf(r, b), NEW f \in Maps, NEW g,
           \A x \in Paths : Exists(f, x) => g[x] = f[x],
           NEW v, NEW S, ArrivedBut(r, b, f, v, S)
    PROVE  ArrivedBut(r, b, g, v, S)
<1> SUFFICES ASSUME NEW z \in Moved(r, b) \ S, Arrived(r, b, f, z) PROVE Arrived(r, b, g, z)
  BY DEF ArrivedBut
<1>1. Target(r, z) \in Paths /\ f[Target(r, z)] = b[z] /\ b[z].kind = "File"
  BY Targets DEF Moved, Arrived, IsFile
<1>2. Exists(f, Target(r, z))
  BY <1>1 DEF Exists
<1> QED
  BY <1>1, <1>2 DEF Arrived

\* And when only the copy of h changes.
LEMMA KeepsOthers ==
    ASSUME NEW r, NEW b, MoveOf(r, b), NEW f, NEW g, NEW h \in Places, NEW k \in Places,
           OfTheMove(r, h, k), \A x \in Paths \ {Os(k)} : g[x] = f[x],
           NEW v, ArrivedBut(r, b, f, v, Within(h))
    PROVE  ArrivedBut(r, b, g, v, Within(h))
<1> SUFFICES ASSUME NEW z \in Moved(r, b) \ Within(h), Arrived(r, b, f, z)
             PROVE  Arrived(r, b, g, z)
  BY DEF ArrivedBut
<1>1. z \in Paths /\ Below(z, Os(r.path)) /\ ~Below(z, Os(h))
  BY DEF Moved, Within
<1>2. Os(h) \in Paths /\ Below(Os(h), Os(r.path)) /\ Os(k) = Target(r, Os(h))
  BY PlaceOfTheMove
<1>3. z # Os(h)
  BY <1>1, PlaceIsBelowItself
<1>4. Target(r, z) \in Paths /\ Target(r, z) # Os(k)
  BY <1>1, <1>2, <1>3, Targets
<1> QED
  BY <1>4 DEF Arrived

\* Where a copy goes on, or is given up.
LEMMA GoesOn ==
    ASSUME NEW r, NEW b, NEW f, NEW files, NEW s, Apart(r), Unmoved(r, b, f),
           \/ s = << >>
           \/ \E v \in Seq(Items) :
                 /\ Coming(r, v)
                 /\ InDir(r, b, f, s, v) \/ AtEntry(r, b, f, s, v) \/ InFile(r, b, f, files, s, v)
    PROVE  Stands(r, b, f, files, s, TRUE)
BY DEF Stands, Copying, GivenUp

\* Making a directory.
LEMMA InDirStep ==
    ASSUME NEW a \in Tasks, NEW r, NEW b, OwnStep(a, r, b), Apart(r), Unmoved(r, b, disk),
           NEW v \in Seq(Items), Coming(r, v), ArrivedBut(r, b, disk, v, {}),
           NEW w \in Seq(StepsIn(DirSteps)), w # << >>, job[a].agenda = w \o v
    PROVE  Stands(r, b, disk', hold'[a], job'[a].agenda, TRUE)
<1> DEFINE D == StepsIn(DirSteps)
           it == Head(w)
           u == Tail(w)
           s == job'[a].agenda
<1>1. /\ Now(a) = it /\ it \in D /\ u \in Seq(D)
      /\ Tail(job[a].agenda) = u \o v
  <2>1. D \subseteq Items
    BY DEF StepsIn
  <2> QED
    BY <2>1, StepsAndRest DEF Now
<1>2. /\ Acting(a) /\ Step(a) /\ WorldStep(a) /\ MoveOf(r, b) /\ disk' \in Maps /\ disk \in Maps
  BY WorldTypes DEF OwnStep, WorldStep
<1>3. it \in Items /\ it.do \in DirSteps
  BY <1>1 DEF StepsIn
<1>4. Unmoved(r, b, disk')
  <2>1. it.do \notin Removals \cup Renames
    BY <1>3 DEF DirSteps, Checks, Removals, Renames
  <2> QED
    BY <1>1, <2>1, KeepsSource
<1> HIDE DEF it, u
<1>5. /\ \A x \in Paths : Exists(disk, x) => disk'[x] = disk[x]
      /\ s = << >> \/ \E w2 \in Seq(D) : s = w2 \o v
  <2>1. CASE it.do \in Checks \cup {"kind_there"}
    BY <1>1, <1>2, <2>1, AfterCheck
  <2>2. CASE it.do = "create_dir"
    <3> DEFINE h == it.path
               q == Os(h)
               o == Mkdir(disk, q)
               look == Do("kind_there", h)
    <3>1. CreateDirStep(a)
      BY <1>1, <1>2, <2>2, TheAction
    <3>2. o = CreateDir(disk, Here(a)) /\ h \in Places /\ q \in Paths
      BY <1>1, <1>2, <1>3, ActingFacts DEF CreateDir, Os, Here
    <3>3. disk' = o.map
      BY <3>1, <3>2 DEF CreateDirStep, Apply
    <3>4. \A x \in Paths : Exists(disk, x) => o.map[x] = disk[x]
      BY <1>2, <3>2 DEF Mkdir, Outcome, Insert, Exists, Maps
    <3>5. CASE o.error # "AlreadyExists"
      <4>1. Settle(a, VfsCode(o.error), {"Ok"}, << >>)
        BY <3>1, <3>2, <3>5 DEF CreateDirStep
      <4> HIDE DEF o
      <4>2. s = << >> \/ s = Tail(job[a].agenda)
        BY <1>2, <4>1, AfterSettle
      <4> QED
        BY <1>1, <3>3, <3>4, <4>2
    <3>6. CASE o.error = "AlreadyExists"
      <4>1. Resume(a, <<look>>)
        BY <1>1, <2>2, <3>1, <3>2, <3>6 DEF CreateDirStep
      <4>2. look \in D
        BY <3>2, DoItem DEF StepsIn, DirSteps, Steps
      <4> HIDE DEF look
      <4>3. <<look>> \in Seq(D) /\ <<look>> \in Seq(Items) /\ u \in Seq(Items)
        BY <1>1, <4>2, ItemsIn DEF StepsIn
      <4>4. s = <<look>> \o (u \o v)
        BY <1>1, <1>2, <4>1, AfterResume
      <4>5. <<look>> \o (u \o v) = (<<look>> \o u) \o v
        BY <4>3, ConcatAssociative
      <4>6. <<look>> \o u \in Seq(D)
        BY <1>1, <4>3, ConcatProperties
      <4> QED
        BY <3>3, <3>4, <4>4, <4>5, <4>6
    <3> QED
      BY <3>5, <3>6
  <2> QED
    BY <1>3, <2>1, <2>2 DEF DirSteps
<1>6. ArrivedBut(r, b, disk', v, {})
  BY <1>2, <1>5, KeepsArrived
<1> HIDE DEF s, D
<1>7. s = << >> \/ InDir(r, b, disk', s, v)
  BY <1>5, <1>6 DEF InDir, D
<1> QED
  BY <1>4, <1>7, GoesOn DEF s

\* A file is opened: the next to be created is its copy.
LEMMA AtOpeningStep ==
    ASSUME NEW a \in Tasks, NEW r, NEW b, OwnStep(a, r, b), Apart(r), Unmoved(r, b, disk),
           NEW v \in Seq(Items), Coming(r, v), NEW h \in Places, NEW g \in Places,
           OfTheMove(r, h, g), ArrivedBut(r, b, disk, v, Within(h)),
           AtOpening(job[a].agenda, v, h, g)
    PROVE  Stands(r, b, disk', hold'[a], job'[a].agenda, TRUE)
<1> DEFINE K == StepsIn(Checks)
           s == job'[a].agenda
           o == Do("open", h)
<1>1. PICK w \in Seq(K), w2 \in Seq(K), y \in FirstBytes(h, g, v) :
          job[a].agenda = w \o (<<o>> \o (w2 \o (<<Do("create_file", g)>> \o y)))
  BY DEF AtOpening
<1> DEFINE c == Do("create_file", g)
           z == w2 \o (<<c>> \o y)
           x == <<o>> \o z
<1>2. /\ Acting(a) /\ Step(a) /\ WorldStep(a) /\ MoveOf(r, b)
  BY DEF OwnStep
<1>3. /\ K \subseteq Items /\ o \in Items /\ o.do = "open" /\ o.path = h /\ c \in Items
      /\ y \in Seq(Items)
  BY DoItem, BytesItems DEF StepsIn, Steps
<1> HIDE DEF o, c, K
<1>4. z \in Seq(Items)
  <2>1. <<c>> \o y \in Seq(Items)
    BY <1>3, StepAndRest
  <2> QED
    BY <1>3, <2>1, StepsAndRest
<1> HIDE DEF z
<1>5. x \in Seq(Items) /\ x # << >> /\ Head(x) = o /\ Tail(x) = z
  BY <1>3, <1>4, StepAndRest
<1> HIDE DEF x
<1>6. job[a].agenda = w \o x
  BY <1>1 DEF o, c, x, z
<1>7. CASE w # << >>
  <2>1. /\ Head(w \o x) = Head(w) /\ Tail(w \o x) = Tail(w) \o x
        /\ Head(w) \in K /\ Tail(w) \in Seq(K)
    BY <1>3, <1>5, <1>7, StepsAndRest
  <2>9. Now(a) = Head(w) /\ Tail(job[a].agenda) = Tail(w) \o x
    BY <1>6, <2>1 DEF Now
  <2>2. Now(a).do \in Checks
    BY <2>1, <2>9 DEF K, StepsIn
  <2>3. disk' = disk /\ (s = << >> \/ s = Tail(w) \o x)
    BY <1>2, <2>9, <2>2, AfterCheck
  <2>4. s # << >> => AtOpening(s, v, h, g)
    BY <2>1, <2>3 DEF AtOpening, x, z, o, c, K
  <2> HIDE DEF s
  <2>5. s # << >> => InFile(r, b, disk', hold'[a], s, v)
    BY <2>3, <2>4 DEF InFile
  <2> QED
    BY <2>3, <2>5, GoesOn DEF s
<1>8. CASE w = << >>
  <2> DEFINE code == OpenAnswer(disk, Here(a))
             file == OpenFile(disk, Here(a))
  <2>9. w \o x = x
    BY <1>3, <1>5, <1>8, StepsAndRest
  <2>1. job[a].agenda = x /\ Now(a) = o
    BY <1>5, <1>6, <2>9 DEF Now
  <2>2. OpenStep(a) /\ Os(h) \in Paths /\ Below(Os(h), Os(r.path))
    BY <1>2, <1>3, <2>1, TheAction, PlaceOfTheMove
  <2>3. disk' = disk /\ (s = << >> \/ (code = "Ok" /\ s = z))
    <3>1. disk' = disk /\ Settle(a, code, {"Ok"}, << >>)
      BY <2>2 DEF OpenStep
    <3>2. Tail(job[a].agenda) = z
      BY <1>5, <2>1
    <3> HIDE DEF code
    <3>3. (code # "Ok" => s = << >>) /\ (code = "Ok" => s = Tail(job[a].agenda))
      BY <1>2, <3>1, AfterCall
    <3> HIDE DEF s
    <3> QED
      BY <3>1, <3>2, <3>3
  <2>4. code = "Ok" => hold'[a].src = file
    <3>1. a \in Actors /\ hold \in Held
      BY <1>2, WorldTypes DEF Acting
    <3> HIDE DEF file
    <3>2. code = "Ok" => hold' = [hold EXCEPT ![a].src = file]
      BY <2>2 DEF OpenStep, file
    <3> QED
      BY <3>1, <3>2 DEF Held
  <2>5. Reads(b, file, Os(h), 0)
    <3>1. file = [Opened(Os(h)) EXCEPT !.directory = IsDirectory(disk, Os(h))]
      BY <1>3, <2>1 DEF OpenFile, Here, Os
    <3>2. disk[Os(h)] = b[Os(h)]
      BY <2>2 DEF Unmoved
    <3> QED
      BY <3>1, <3>2 DEF Reads, Opened, Closed, IsDirectory
  <2>6. s = z => code # "Ok" \/ AtCreation(b, hold'[a], s, v, h, g)
    BY <1>1, <1>3, <2>4, <2>5 DEF AtCreation, Creates, z, c, K
  <2> HIDE DEF s, code
  <2>7. s # << >> => InFile(r, b, disk', hold'[a], s, v)
    BY <2>3, <2>6 DEF InFile
  <2> QED
    BY <2>3, <2>7, GoesOn DEF s
<1> QED
  BY <1>7, <1>8

\* What is created is empty.
LEMMA Created ==
    ASSUME NEW f \in Maps, NEW q \in Paths
    PROVE  LET o == Creat(f, q) IN
           /\ o.error # "None" => o.map = f
           /\ o.error = "None" => o.map = [f EXCEPT ![q] = FileEntry(<< >>)]
BY DEF Creat, Outcome, Insert

LEMMA AtCreationStep ==
    ASSUME NEW a \in Tasks, NEW r, NEW b, OwnStep(a, r, b), Apart(r), Unmoved(r, b, disk),
           NEW v \in Seq(Items), Coming(r, v), NEW h \in Places, NEW g \in Places,
           OfTheMove(r, h, g), ArrivedBut(r, b, disk, v, Within(h)),
           AtCreation(b, hold[a], job[a].agenda, v, h, g)
    PROVE  Stands(r, b, disk', hold'[a], job'[a].agenda, TRUE)
<1> DEFINE K == StepsIn(Checks)
           s == job'[a].agenda
           p == Os(h)
           q == Os(g)
           files == hold'[a]
<1>1. PICK w \in Seq(K), it \in Items, y \in FirstBytes(h, g, v) :
          job[a].agenda = w \o (<<it>> \o y) /\ Creates(b, hold[a], it, h, g)
  BY DEF AtCreation
<1> DEFINE x == <<it>> \o y
<1>2. /\ Acting(a) /\ Step(a) /\ WorldStep(a) /\ MoveOf(r, b) /\ disk \in Maps
      /\ hold \in Held /\ a \in Actors
  BY WorldTypes, ActingFacts DEF OwnStep
<1>3. K \subseteq Items /\ y \in Seq(Items)
  BY BytesItems DEF StepsIn
<1>4. x \in Seq(Items) /\ x # << >> /\ Head(x) = it /\ Tail(x) = y
  BY <1>3, StepAndRest
<1>5. p \in Paths /\ Below(p, Os(r.path)) /\ q \in Paths /\ q = Target(r, p) /\ disk[p] = b[p]
  BY <1>2, PlaceOfTheMove DEF Unmoved
<1> HIDE DEF x, K
<1>6. CASE w # << >>
  <2>1. Now(a) = Head(w) /\ Head(w) \in K /\ Tail(w) \in Seq(K) /\ Tail(job[a].agenda) = Tail(w) \o x
    BY <1>1, <1>3, <1>4, <1>6, StepsAndRest DEF Now, x
  <2>2. Now(a).do \in Checks
    BY <2>1 DEF K, StepsIn
  <2>3. disk' = disk /\ hold' = hold /\ (s = << >> \/ s = Tail(w) \o x)
    BY <1>2, <2>1, <2>2, AfterCheck
  <2>4. s # << >> => AtCreation(b, files, s, v, h, g)
    BY <1>1, <2>1, <2>3 DEF AtCreation, x, K
  <2> HIDE DEF s
  <2>5. s # << >> => InFile(r, b, disk', files, s, v)
    BY <2>3, <2>4 DEF InFile
  <2> QED
    BY <2>3, <2>5, GoesOn DEF s
<1>7. CASE w = << >>
  <2>1. job[a].agenda = x /\ Now(a) = it
    BY <1>1, <1>3, <1>4, <1>7, StepsAndRest DEF Now, x
  <2> DEFINE o == Creat(disk, q)
             done == /\ disk' = [disk EXCEPT ![q] = FileEntry(<< >>)]
                     /\ files.dst = Opened(q) /\ Reads(b, files.src, p, 0)
  <2>2. /\ it.do \notin Removals \cup Renames
        /\ \/ disk' = disk /\ s = << >>
           \/ done /\ s = y
    <3>1. CASE it = From("os_copy", h, g)
      <4>1. it.do = "os_copy" /\ it.path = h /\ it.dest = g
        BY <3>1, DoItem DEF Steps
      <4> DEFINE e == CopyFile(disk, Here(a), Real(Now(a).dest))
      <4>2. OsCopy(a)
        BY <1>2, <2>1, <4>1, TheAction
      <4>3. /\ e.error # "None" => e.map = disk
            /\ e.error = "None" => IsFile(disk, p) /\ e = o
        <5>1. e = IF ~IsFile(disk, p)
                  THEN Outcome(disk, IF Exists(disk, p) THEN "InvalidInput" ELSE Find(disk, p))
                  ELSE o
          BY <2>1, <4>1 DEF CopyFile, Here, Os
        <5>2. ~Exists(disk, p) => Find(disk, p) # "None"
          BY DEF Find
        <5>3. \A error : Outcome(disk, error).map = disk /\ Outcome(disk, error).error = error
          BY DEF Outcome
        <5>4. o.error # "None" => o.map = disk
          BY <1>2, <1>5, Created
        <5> HIDE DEF e, o
        <5> QED
          BY <5>1, <5>2, <5>3, <5>4
      <4>4. /\ disk' = e.map
            /\ e.error = "None" => hold' = [hold EXCEPT ![a].src = Opened(p), ![a].dst = Opened(q)]
            /\ Settle(a, VfsCode(e.error), {"Ok"}, << >>)
        BY <2>1, <4>1, <4>2 DEF OsCopy, Os
      <4> HIDE DEF e, o
      <4>5. (e.error = "None") <=> (VfsCode(e.error) = "Ok")
        BY DEF VfsCode
      <4> DEFINE code == VfsCode(e.error)
      <4>6. (code # "Ok" => s = << >>) /\ (code = "Ok" => s = Tail(job[a].agenda))
        BY <1>2, <4>4, AfterCall
      <4> HIDE DEF code
      <4>8. (e.error # "None" => s = << >>) /\ (e.error = "None" => s = y)
        BY <1>4, <2>1, <4>5, <4>6 DEF code
      <4>7. e.error = "None" => done
        <5> SUFFICES ASSUME e.error = "None" PROVE done
          OBVIOUS
        <5>1. disk' = [disk EXCEPT ![q] = FileEntry(<< >>)]
          BY <1>2, <1>5, <4>3, <4>4, Created DEF o
        <5>2. files.src = Opened(p) /\ files.dst = Opened(q)
          BY <1>2, <4>4 DEF Held
        <5>3. IsDirectory(b, p) = FALSE
          BY <1>5, <4>3 DEF IsFile, IsDirectory
        <5>4. Reads(b, Opened(p), p, 0)
          BY <5>3 DEF Reads, Opened, Closed
        <5> QED
          BY <5>1, <5>2, <5>4
      <4> HIDE DEF done
      <4> QED
        BY <4>1, <4>3, <4>4, <4>7, <4>8 DEF Removals, Renames
    <3>2. CASE it = Do("create_file", g) /\ Reads(b, hold[a].src, p, 0)
      <4>1. it.do = "create_file" /\ it.path = g
        BY <3>2, DoItem DEF Steps
      <4>2. CreateFileStep(a)
        BY <1>2, <2>1, <4>1, TheAction
      <4>3. o = CreateFile(disk, Here(a))
        BY <2>1, <4>1 DEF CreateFile, Here, Os
      <4>4. /\ disk' = o.map
            /\ o.error = "None" => hold' = [hold EXCEPT ![a].dst = Opened(q)]
            /\ Settle(a, VfsCode(o.error), {"Ok"}, << >>)
        BY <2>1, <4>1, <4>2, <4>3 DEF CreateFileStep
      <4>5. /\ o.error # "None" => o.map = disk
            /\ o.error = "None" => o.map = [disk EXCEPT ![q] = FileEntry(<< >>)]
        BY <1>2, <1>5, Created
      <4> HIDE DEF o
      <4>6. (o.error = "None") <=> (VfsCode(o.error) = "Ok")
        BY DEF VfsCode
      <4> DEFINE code == VfsCode(o.error)
      <4>7. (code # "Ok" => s = << >>) /\ (code = "Ok" => s = Tail(job[a].agenda))
        BY <1>2, <4>4, AfterCall
      <4> HIDE DEF code
      <4>10. (o.error # "None" => s = << >>) /\ (o.error = "None" => s = y)
        BY <1>4, <2>1, <4>6, <4>7 DEF code
      <4>8. o.error = "None" => files.src = hold[a].src /\ files.dst = Opened(q)
        BY <1>2, <4>4 DEF Held
      <4>9. o.error = "None" => done
        BY <3>2, <4>4, <4>5, <4>8
      <4> HIDE DEF done
      <4> QED
        BY <4>1, <4>4, <4>5, <4>10, <4>9 DEF Removals, Renames
    <3> QED
      BY <1>1, <3>1, <3>2 DEF Creates
  <2>3. Unmoved(r, b, disk')
    BY <2>1, <2>2, KeepsSource
  <2>4. ASSUME done, s = y
        PROVE  InFile(r, b, disk', files, s, v)
    <3>1. \A z \in Paths \ {q} : disk'[z] = disk[z]
      BY <1>2, <1>5, <2>4 DEF Maps
    <3>2. ArrivedBut(r, b, disk', v, Within(h))
      BY <1>2, <3>1, KeepsOthers
    <3>3. disk'[q] = FileEntry(SubSeq(b[p].content, 1, 0))
      <4>1. disk'[q] = FileEntry(<< >>)
        BY <1>2, <1>5, <2>4 DEF Maps
      <4>2. SubSeq(b[p].content, 1, 0) = << >>
        BY SubSeqEmpty
      <4> QED
        BY <4>1, <4>2
    <3>4. Writes(b, disk', files.dst, p, q, 0)
      BY <2>4, <3>3 DEF Writes, Opened, Closed
    <3>5. AtFirstBytes(b, disk', files, s, v, h, g)
      BY <1>1, <2>4, <3>4 DEF AtFirstBytes
    <3> QED
      BY <3>2, <3>5 DEF InFile
  <2> HIDE DEF s, done
  <2> QED
    BY <2>2, <2>3, <2>4, GoesOn DEF s
<1> QED
  BY <1>6, <1>7

\* What comes behind the first m bytes.
LEMMA WrittenNext ==
    ASSUME NEW c \in Contents, NEW m \in Nat, NEW n \in Nat, m <= n, n <= Len(c),
           NEW h, ~h.appending, h.pos = m
    PROVE  LET data == SubSeq(c, m + 1, n) IN
           /\ data \in Contents /\ Len(data) = n - m
           /\ Written(SubSeq(c, 1, m), h, data) = SubSeq(c, 1, n)
<1> DEFINE S == Bytes \cup {0}
           old == SubSeq(c, 1, m)
           data == SubSeq(c, m + 1, n)
           all == SubSeq(c, 1, n)
           w == [i \in 1 .. n |-> IF i > m /\ i <= n THEN data[i - m]
                                  ELSE IF i <= m THEN old[i] ELSE 0]
<1>1. /\ c \in Seq(S) /\ Len(c) \in Nat
      /\ m \in Int /\ n \in Int /\ m + 1 \in Int /\ 1 \in Int
      /\ \A i \in 1 .. Len(c) : c[i] \in S
  BY ElementOfSeq DEF Contents
<1>2. /\ \A i \in 1 .. m : c[i] \in S
      /\ \A i \in m + 1 .. n : c[i] \in S
      /\ \A i \in 1 .. n : c[i] \in S
  BY <1>1
<1> HIDE DEF S
<1>3. old \in Seq(S) /\ Len(old) = m /\ \A i \in 1 .. m : old[i] = c[i]
  <2>1. /\ old \in Seq(S) /\ Len(old) = IF 1 <= m THEN m - 1 + 1 ELSE 0
        /\ \A i \in 1 .. m - 1 + 1 : old[i] = c[1 + i - 1]
    BY <1>1, <1>2, SubSeqProperties
  <2> HIDE DEF old
  <2> QED
    BY <1>1, <2>1
<1>4. data \in Seq(S) /\ Len(data) = n - m /\ \A i \in 1 .. n - m : data[i] = c[m + i]
  <2>1. /\ data \in Seq(S) /\ Len(data) = IF m + 1 <= n THEN n - (m + 1) + 1 ELSE 0
        /\ \A i \in 1 .. n - (m + 1) + 1 : data[i] = c[m + 1 + i - 1]
    BY <1>1, <1>2, SubSeqProperties
  <2> HIDE DEF data
  <2> QED
    BY <1>1, <2>1
<1>5. all \in Seq(S) /\ Len(all) = n /\ \A i \in 1 .. n : all[i] = c[i]
  <2>1. /\ all \in Seq(S) /\ Len(all) = IF 1 <= n THEN n - 1 + 1 ELSE 0
        /\ \A i \in 1 .. n - 1 + 1 : all[i] = c[1 + i - 1]
    BY <1>1, <1>2, SubSeqProperties
  <2> HIDE DEF all
  <2> QED
    BY <1>1, <2>1
<1> HIDE DEF old, data, all
<1>6. ASSUME NEW i \in 1 .. n PROVE w[i] = all[i]
  <2>1. CASE i > m
    <3>1. i - m \in 1 .. n - m /\ m + (i - m) = i
      BY <1>1, <2>1
    <3> QED
      BY <1>1, <1>4, <1>5, <2>1, <3>1
  <2>2. CASE ~(i > m)
    BY <1>1, <1>3, <1>5, <2>2
  <2> QED
    BY <2>1, <2>2
<1>7. w = all
  <2>1. \A i \in 1 .. n : all[i] \in S
    BY <1>5, ElementOfSeq
  <2>2. w \in [1 .. n -> S]
    BY <1>6, <2>1
  <2> HIDE DEF w
  <2>3. w \in Seq(S) /\ Len(w) = n
    BY <1>1, <2>2
  <2> QED
    BY <1>5, <1>6, <2>3, SeqEqual
<1>8. Written(old, h, data) = w
  <2>1. m + (n - m) = n /\ (IF n > m THEN n ELSE m) = n
    BY <1>1
  <2> QED
    BY <1>3, <1>4, <2>1 DEF Written
<1> QED
  BY <1>4, <1>7, <1>8 DEF old, data, all, S, Contents

\* What is written goes to the file that is open, and moves its position.
LEMMA PutOpen ==
    ASSUME NEW a, Acting(a), NEW data \in Contents, NEW src \in OpenFiles, Put(a, data, src),
           ~hold[a].dst.gone
    PROVE  LET h == hold[a].dst
               g == hold'[a].dst
           IN  /\ hold'[a].src = src
               /\ g.open = h.open /\ g.path = h.path /\ g.gone = h.gone
               /\ g.appending = h.appending /\ g.pos = h.pos + Len(data)
               /\ disk' = [disk EXCEPT ![h.path] =
                                           FileEntry(Written(disk[h.path].content, h, data))]
<1> DEFINE h == hold[a].dst
           pos == h.pos + Len(data)
           kept == h.content
           g == [[h EXCEPT !.pos = pos] EXCEPT !.content = kept]
<1>1. /\ a \in Actors /\ hold \in Held
      /\ h \in OpenFiles /\ h.pos \in Nat /\ h.content \in Contents
  BY WorldTypes DEF Acting, OpenFiles
<1>2. /\ disk' = Insert(disk, h.path, FileEntry(Written(disk[h.path].content, h, data)))
      /\ hold' = [hold EXCEPT ![a].dst.pos = pos, ![a].dst.content = kept, ![a].src = src]
  BY DEF Put, ContentOf
<1>3. pos \in Nat /\ kept \in Contents
  BY <1>1 DEF Contents
<1> HIDE DEF pos, kept
<1>4. /\ g \in OpenFiles /\ g.open = h.open /\ g.path = h.path /\ g.gone = h.gone
      /\ g.appending = h.appending /\ g.pos = pos
  BY <1>1, <1>3 DEF OpenFiles
<1> DEFINE x == hold[a]
           y == [x EXCEPT !.dst = [@ EXCEPT !.pos = pos]]
           z == [y EXCEPT !.dst = [@ EXCEPT !.content = kept]]
           w == [z EXCEPT !.src = src]
<1>5. x \in [src : OpenFiles, dst : OpenFiles] /\ x.dst = h
  BY <1>1 DEF Held
<1> HIDE DEF x
<1>6. y \in [src : OpenFiles, dst : OpenFiles] /\ y.dst = [h EXCEPT !.pos = pos]
  BY <1>3, <1>5 DEF OpenFiles
<1> HIDE DEF y
<1>7. z.dst = g
  BY <1>6
<1>8. z \in [src : OpenFiles, dst : OpenFiles]
  BY <1>4, <1>6, <1>7
<1> HIDE DEF z
<1>9. w.dst = g /\ w.src = src
  BY <1>7, <1>8
<1> HIDE DEF w
<1>10. hold' = [hold EXCEPT ![a] = w]
  BY <1>2 DEF w, x, y, z
<1> HIDE DEF g
<1>11. hold'[a].dst = g /\ hold'[a].src = src
  BY <1>1, <1>9, <1>10 DEF Held
<1> QED
  BY <1>2, <1>4, <1>11 DEF Insert, pos

\* Some of the bytes of a file are copied, or none when it is a directory.
LEMMA BytesStep ==
    ASSUME NEW a, NEW r, NEW b, OwnStep(a, r, b), Apart(r), Unmoved(r, b, disk),
           NEW h \in Places, NEW g \in Places, OfTheMove(r, h, g), NEW n,
           Reads(b, hold[a].src, Os(h), n), Writes(b, disk, hold[a].dst, Os(h), Os(g), n),
           \/ Now(a).do \in {"copy_some", "os_some"} /\ n = 0
           \/ Now(a).do \in {"copy_rest", "os_rest"} /\ n = Half(b, Os(h))
    PROVE  LET p == Os(h)
               q == Os(g)
               m == IF Now(a).do \in {"copy_some", "os_some"} THEN Half(b, p)
                                                              ELSE Len(b[p].content)
           IN  /\ Unmoved(r, b, disk')
               /\ \A z \in Paths \ {q} : disk'[z] = disk[z]
               /\ \/ job'[a].agenda = << >>
                  \/ /\ job'[a].agenda = Tail(job[a].agenda)
                     /\ ~IsDirectory(b, p)
                     /\ Reads(b, hold'[a].src, p, m) /\ Writes(b, disk', hold'[a].dst, p, q, m)
<1> DEFINE p == Os(h)
           q == Os(g)
           c == b[p].content
           m == IF Now(a).do \in {"copy_some", "os_some"} THEN Half(b, p) ELSE Len(c)
           src == hold[a].src
           dst == hold[a].dst
           data == SubSeq(c, n + 1, m)
           then == [src EXCEPT !.pos = m]
<1>1. /\ Acting(a) /\ Step(a) /\ MoveOf(r, b) /\ a \in Actors
      /\ disk \in Maps /\ b \in Maps /\ src \in OpenFiles /\ dst \in OpenFiles
  BY WorldTypes, ActingFacts DEF OwnStep, MoveOf
<1>2. p \in Paths /\ q \in Paths /\ disk[p] = b[p] /\ c \in Contents /\ Len(c) \in Nat
  <2>1. p \in Paths /\ q \in Paths /\ Below(p, Os(r.path))
    BY <1>1, PlaceOfTheMove
  <2>2. c \in Contents
    BY <1>1, <2>1, WorldTypes DEF Unmoved
  <2> QED
    BY <2>1, <2>2 DEF Unmoved, Contents
<1>3. Half(b, p) \in Nat /\ Half(b, p) <= Len(c)
  <2> DEFINE k == Len(c)
  <2>1. k \in Nat /\ Half(b, p) = k \div 2
    BY <1>2 DEF Half
  <2> HIDE DEF k
  <2>2. Half(b, p) \in Nat /\ Half(b, p) <= k
    BY <2>1
  <2> QED
    BY <2>2 DEF k
<1>4. n \in Nat /\ m \in Nat /\ n <= m /\ m <= Len(c)
  BY <1>2, <1>3
<1>5. src.path = p /\ src.pos = n /\ ~src.gone /\ src.directory = IsDirectory(b, p)
  BY DEF Reads
<1>6. dst.open /\ ~dst.gone /\ ~dst.appending /\ dst.path = q /\ dst.pos = n
      /\ disk[q] = FileEntry(SubSeq(c, 1, n))
  BY DEF Writes
<1>7. Unmoved(r, b, disk')
  <2>1. Now(a).do \notin Removals \cup Renames
    BY DEF Removals, Renames
  <2> QED
    BY <2>1, KeepsSource
<1>8. /\ CopyBytes(a) /\ ContentOf(disk, src) = c
  BY <1>1, <1>2, <1>5, TheAction DEF ContentOf
<1>9. CASE src.directory
  <2>1. disk' = disk /\ Abort(a, "IoError")
    BY <1>8, <1>9 DEF CopyBytes
  <2>2. job'[a].agenda = << >>
    BY <1>1, <2>1, AfterEnd DEF Abort
  <2> QED
    BY <1>7, <2>1, <2>2
<1>10. CASE ~src.directory
  <2>1. Put(a, data, then) /\ Resume(a, << >>)
    BY <1>5, <1>8, <1>10 DEF CopyBytes, Half
  <2> HIDE DEF m
  <2>2. /\ data \in Contents /\ Len(data) = m - n
        /\ Written(SubSeq(c, 1, n), dst, data) = SubSeq(c, 1, m)
    <3> HIDE DEF c, dst
    <3> QED
      BY <1>2, <1>4, <1>6, WrittenNext
  <2>3. then \in OpenFiles /\ then.open = src.open /\ then.gone = src.gone /\ then.path = src.path
        /\ then.pos = m /\ then.directory = src.directory
    BY <1>1, <1>4 DEF OpenFiles
  <2> HIDE DEF data, then
  <2> DEFINE new == hold'[a].dst
  <2>4. /\ hold'[a].src = then
        /\ new.open = dst.open /\ new.path = dst.path /\ new.gone = dst.gone
        /\ new.appending = dst.appending /\ new.pos = dst.pos + Len(data)
        /\ disk' = [disk EXCEPT ![dst.path] =
                                    FileEntry(Written(disk[dst.path].content, dst, data))]
    BY <1>1, <1>6, <2>1, <2>2, <2>3, PutOpen
  <2>5. disk[dst.path].content = SubSeq(c, 1, n)
    <3> DEFINE old == SubSeq(c, 1, n)
    <3>1. disk[dst.path] = FileEntry(old)
      BY <1>6
    <3> HIDE DEF old
    <3>2. disk[dst.path].content = old
      BY <3>1 DEF FileEntry
    <3> QED
      BY <3>2 DEF old
  <2>6. disk' = [disk EXCEPT ![q] = FileEntry(SubSeq(c, 1, m))]
    BY <1>6, <2>2, <2>4, <2>5
  <2>7. (\A z \in Paths \ {q} : disk'[z] = disk[z]) /\ disk'[q] = FileEntry(SubSeq(c, 1, m))
    BY <1>1, <1>2, <2>6 DEF Maps
  <2>8. job'[a].agenda = Tail(job[a].agenda)
    BY <1>1, <2>1, AfterResume
  <2>9. new.pos = m
    BY <1>4, <1>6, <2>2, <2>4
  <2>10. Writes(b, disk', new, p, q, m)
    BY <1>6, <2>4, <2>7, <2>9 DEF Writes
  <2>11. Reads(b, hold'[a].src, p, m)
    BY <1>5, <2>3, <2>4 DEF Reads
  <2> QED
    BY <1>5, <1>7, <1>10, <2>7, <2>8, <2>10, <2>11 DEF m
<1> QED
  BY <1>9, <1>10

LEMMA AtFirstBytesStep ==
    ASSUME NEW a \in Tasks, NEW r, NEW b, OwnStep(a, r, b), Apart(r), Unmoved(r, b, disk),
           NEW v \in Seq(Items), Coming(r, v), NEW h \in Places, NEW g \in Places,
           OfTheMove(r, h, g), ArrivedBut(r, b, disk, v, Within(h)),
           AtFirstBytes(b, disk, hold[a], job[a].agenda, v, h, g)
    PROVE  Stands(r, b, disk', hold'[a], job'[a].agenda, TRUE)
<1> DEFINE s == job'[a].agenda
           y == job[a].agenda
           n == Half(b, Os(h))
<1>1. /\ y \in FirstBytes(h, g, v) /\ Reads(b, hold[a].src, Os(h), 0)
      /\ Writes(b, disk, hold[a].dst, Os(h), Os(g), 0)
  BY DEF AtFirstBytes
<1>2. Now(a).do \in {"copy_some", "os_some"} /\ Tail(y) \in LastBytes(h, g, v)
  <2>1. Now(a) = Head(y)
    BY DEF Now
  <2> HIDE DEF y
  <2>2. Head(y).do \in {"copy_some", "os_some"} /\ Tail(y) \in LastBytes(h, g, v)
    BY <1>1, BytesItems
  <2> QED
    BY <2>1, <2>2
<1>3. /\ Unmoved(r, b, disk')
      /\ \A z \in Paths \ {Os(g)} : disk'[z] = disk[z]
      /\ \/ s = << >>
         \/ /\ s = Tail(y)
            /\ Reads(b, hold'[a].src, Os(h), n) /\ Writes(b, disk', hold'[a].dst, Os(h), Os(g), n)
  BY <1>1, <1>2, BytesStep
<1>4. ArrivedBut(r, b, disk', v, Within(h))
  BY <1>3, KeepsOthers DEF OwnStep
<1> HIDE DEF s, y
<1>5. s # << >> => AtLastBytes(b, disk', hold'[a], s, v, h, g)
  BY <1>2, <1>3 DEF AtLastBytes
<1>6. s # << >> => InFile(r, b, disk', hold'[a], s, v)
  BY <1>4, <1>5 DEF InFile
<1> QED
  BY <1>3, <1>6, GoesOn DEF s

\* The last bytes: what h is has arrived.
LEMMA AtLastBytesStep ==
    ASSUME NEW a \in Tasks, NEW r, NEW b, OwnStep(a, r, b), Apart(r), Unmoved(r, b, disk),
           NEW v \in Seq(Items), Coming(r, v), NEW h \in Places, NEW g \in Places,
           OfTheMove(r, h, g), ArrivedBut(r, b, disk, v, Within(h)),
           AtLastBytes(b, disk, hold[a], job[a].agenda, v, h, g)
    PROVE  Stands(r, b, disk', hold'[a], job'[a].agenda, TRUE)
<1> DEFINE s == job'[a].agenda
           y == job[a].agenda
           p == Os(h)
           q == Os(g)
           c == b[p].content
<1>1. /\ y \in LastBytes(h, g, v) /\ Reads(b, hold[a].src, p, Half(b, p))
      /\ Writes(b, disk, hold[a].dst, p, q, Half(b, p))
  BY DEF AtLastBytes
<1>2. Now(a).do \in {"copy_rest", "os_rest"} /\ Tail(y) = v
  <2>1. Now(a) = Head(y)
    BY DEF Now
  <2> HIDE DEF y
  <2>2. Head(y).do \in {"copy_rest", "os_rest"} /\ Tail(y) = v
    BY <1>1, BytesItems
  <2> QED
    BY <2>1, <2>2
<1>3. /\ Unmoved(r, b, disk')
      /\ \A z \in Paths \ {q} : disk'[z] = disk[z]
      /\ \/ s = << >>
         \/ s = v /\ ~IsDirectory(b, p) /\ Writes(b, disk', hold'[a].dst, p, q, Len(c))
  <2> DEFINE m == IF Now(a).do \in {"copy_some", "os_some"} THEN Half(b, p) ELSE Len(c)
  <2>1. m = Len(c)
    BY <1>2
  <2>2. /\ Unmoved(r, b, disk')
        /\ \A z \in Paths \ {q} : disk'[z] = disk[z]
        /\ \/ s = << >>
           \/ s = Tail(y) /\ ~IsDirectory(b, p) /\ Writes(b, disk', hold'[a].dst, p, q, m)
    BY <1>1, <1>2, BytesStep
  <2> HIDE DEF m
  <2> QED
    BY <1>2, <2>1, <2>2
<1>4. ArrivedBut(r, b, disk', v, Within(h)) /\ MoveOf(r, b)
  BY <1>3, KeepsOthers DEF OwnStep
<1>5. p \in Paths /\ q = Target(r, p) /\ Below(p, Os(r.path))
  BY <1>4, PlaceOfTheMove
<1>6. ASSUME s # << >> PROVE ArrivedBut(r, b, disk', v, {})
  <2> SUFFICES ASSUME NEW z \in Moved(r, b), z \in Within(h) PROVE Arrived(r, b, disk', z)
    BY <1>4 DEF ArrivedBut
  <2>1. ~IsDirectory(b, p) /\ disk'[q] = FileEntry(SubSeq(c, 1, Len(c)))
    BY <1>3, <1>6 DEF Writes
  <2>2. z = p
    BY <1>4, <1>5, <2>1, AboveMoved DEF Within
  <2>3. b[p] \in Entries /\ IsFile(b, p)
    BY <1>4, <1>5, <2>2 DEF MoveOf, Maps, Moved
  <2>4. c \in Contents /\ b[p] = FileEntry(c)
    BY <2>3 DEF Entries, IsFile, VacantEntry, FileEntry
  <2> HIDE DEF c
  <2>5. SubSeq(c, 1, Len(c)) = c
    BY <2>4, SubSeqFull DEF Contents
  <2> QED
    BY <1>5, <2>1, <2>2, <2>4, <2>5 DEF Arrived
<1> HIDE DEF s
<1>7. s # << >> => InDir(r, b, disk', s, v)
  <2>1. << >> \in Seq(StepsIn(DirSteps)) /\ << >> \o v = v
    BY EmptySeq, ConcatEmptySeq
  <2> QED
    BY <1>3, <1>6, <2>1 DEF InDir
<1> QED
  BY <1>3, <1>7, GoesOn DEF s

\* An entry the walk has yielded: a file is copied, a directory made.
LEMMA AtEntryStep ==
    ASSUME NEW a \in Tasks, NEW r, NEW b, OwnStep(a, r, b), Apart(r), Unmoved(r, b, disk),
           NEW v \in Seq(Items), Coming(r, v), NEW it \in StepsIn({"copy_entry"}),
           job[a].agenda = <<it>> \o v, OfTheMove(r, it.path, it.dest),
           ArrivedBut(r, b, disk, v, {Os(it.path)})
    PROVE  Stands(r, b, disk', hold'[a], job'[a].agenda, TRUE)
<1> DEFINE s == job'[a].agenda
           h == it.path
           g == it.dest
           x == Os(h)
           metadata == Metadata(disk, Real(h))
           code == metadata.code
           steps == IF metadata.kind = "File" THEN CopyFileSteps(h, g) ELSE CreateDirSteps(g)
<1>1. /\ Acting(a) /\ Step(a) /\ MoveOf(r, b) /\ it \in Items /\ it.do = "copy_entry"
      /\ h \in Places /\ g \in Places
  BY DEF OwnStep, StepsIn, Items
<1>2. Now(a) = it /\ Tail(job[a].agenda) = v
  BY <1>1, StepAndRest DEF Now
<1>3. x \in Paths /\ disk[x] = b[x]
  BY <1>1, PlaceOfTheMove DEF Unmoved
<1>4. disk' = disk /\ Settle(a, code, {"Ok"}, steps)
  <2>1. CopyEntry(a)
    BY <1>1, <1>2, TheActionInATree
  <2> QED
    BY <1>2, <2>1 DEF CopyEntry, Look, Here
<1>5. code = "Ok" => (metadata.kind = "File" <=> IsFile(b, x))
  <2>1. disk[x].kind # "Vacant" => metadata.kind = disk[x].kind
    BY DEF Metadata, Os, Answer
  <2>2. disk[x].kind = "Vacant" => code # "Ok"
    <3> SUFFICES ASSUME disk[x].kind = "Vacant" PROVE code # "Ok"
      OBVIOUS
    <3>1. Find(disk, x) # "None"
      BY DEF Find, Exists
    <3>2. code = VfsCode(Find(disk, x))
      BY DEF Metadata, Os, Answer
    <3> QED
      BY <3>1, <3>2 DEF VfsCode
  <2> QED
    BY <1>3, <2>1, <2>2 DEF IsFile
<1> HIDE DEF metadata, h, g, steps, code
<1>6. (code # "Ok" => s = << >>) /\ (code = "Ok" => s = steps \o v)
  <2> DEFINE codes == {"Ok"}
  <2>1. Settle(a, code, codes, steps) /\ (code \in codes <=> code = "Ok")
    BY <1>4
  <2> HIDE DEF codes
  <2>2. /\ code \notin codes => s = << >>
        /\ code \in codes => s = (IF a \in Tasks THEN steps ELSE << >>) \o Tail(job[a].agenda)
    BY <1>1, <2>1, AfterSettle
  <2> QED
    BY <1>2, <2>1, <2>2
<1>7. CASE code = "Ok" /\ metadata.kind = "File"
  <2>1. s = CopyFileSteps(h, g) \o v
    BY <1>6, <1>7 DEF steps
  <2> HIDE DEF s
  <2>2. AtOpening(s, v, h, g) \/ AtCreation(b, hold'[a], s, v, h, g)
    BY <1>1, <2>1, ShapeOfCopyFile
  <2>3. ArrivedBut(r, b, disk', v, Within(h))
    <3>1. x \in Within(h)
      BY <1>1, PlaceIsBelowItself DEF Within
    <3> QED
      BY <1>4, <3>1 DEF ArrivedBut, h
  <2>4. InFile(r, b, disk', hold'[a], s, v)
    BY <1>1, <2>2, <2>3 DEF InFile, h, g
  <2> QED
    BY <1>4, <2>4, GoesOn DEF s
<1>8. CASE code = "Ok" /\ metadata.kind # "File"
  <2>1. s = CreateDirSteps(g) \o v
    BY <1>6, <1>8 DEF steps
  <2> HIDE DEF s
  <2>2. CreateDirSteps(g) \in Seq(StepsIn(DirSteps))
    BY <1>1, ShapeOfCreateDir
  <2>3. ~IsFile(b, x)
    BY <1>5, <1>8
  <2>4. ArrivedBut(r, b, disk', v, {})
    BY <1>4, <2>3 DEF ArrivedBut, Moved, h
  <2>5. InDir(r, b, disk', s, v)
    BY <2>1, <2>2, <2>4 DEF InDir
  <2> QED
    BY <1>4, <2>5, GoesOn DEF s
<1>9. CASE code # "Ok"
  BY <1>4, <1>6, <1>9, GoesOn
<1> QED
  BY <1>7, <1>8, <1>9

\* A directory that can be listed lists all of its entries.
LEMMA ListsAll ==
    ASSUME NEW h \in Places, ReadDir(disk, Real(h)).code = "Ok", disk \in Maps
    PROVE  IsDirectory(disk, Os(h)) /\ \A q \in Children(disk, Os(h)) : \E c \in Listed(h) : Os(c) = q
<1> DEFINE x == Os(h)
           name(e) == [h EXCEPT !.path = Append(@, e[Len(e)])]
           entry(q) == SubSeq(q, Len(PhysRoot) + 1, Len(q))
           entries == {entry(q) : q \in Children(disk, x)}
<1>1. x \in Paths /\ disk[x].kind \in {"Vacant", "File", "Directory"}
  BY PlaceFields DEF Maps, Entries, VacantEntry
<1>2. IsDirectory(disk, x)
  <2> SUFFICES ASSUME ~IsDirectory(disk, x) PROVE FALSE
    OBVIOUS
  <2>1. ReadDir(disk, Real(h)).code = IF IsFile(disk, x) THEN "IoError" ELSE VfsCode(Find(disk, x))
    BY DEF ReadDir, Os, Answer
  <2>2. ~IsFile(disk, x) => Find(disk, x) # "None"
    BY <1>1 DEF Find, Exists, IsFile, IsDirectory
  <2> QED
    BY <2>1, <2>2 DEF VfsCode
<1>3. ReadDir(disk, Real(h)).entries = entries
  <2> HIDE DEF entry
  <2>1. ReadDir(disk, Real(h)) = [Answer("Ok") EXCEPT !.entries = entries]
    BY <1>2 DEF ReadDir, Os, entry
  <2> HIDE DEF entries
  <2> QED
    BY <2>1 DEF Answer
<1>4. Listed(h) = {name(e) : e \in entries}
  BY <1>3 DEF Listed
<1>5. \A q \in Children(disk, x) : Os(name(entry(q))) = q
  BY ListedPlaces
<1> HIDE DEF name, entry
<1> QED
  BY <1>2, <1>4, <1>5

\* What a walk and the steps before it leave is awaited by them.
LEMMA WalkOn ==
    ASSUME NEW r \in Requests, NEW it \in StepsIn({"walk"}), NEW left \in SUBSET Places,
           NEW todo \in Seq(Places)
    PROVE  LET walk == Walk(it, left, todo)
               v == walk \o <<Last(r)>>
           IN  /\ walk \in Seq(Items) /\ <<Last(r)>> \in Seq(Items) /\ v \in Seq(Items)
               /\ Coming(r, v)
               /\ \A c \in left \cup {todo[i] : i \in DOMAIN todo} : \A z :
                     Below(z, Os(c)) => Awaits(v, z)
<1> DEFINE last == Last(r)
           walk == Walk(it, left, todo)
           v == walk \o <<last>>
           next == [it EXCEPT !.left = left, !.todo = todo]
<1>1. last \in Items
  <2>1. r.path \in Places /\ "remove_file" \in Steps /\ "remove_dir_all" \in Steps
    BY DEF Requests, Steps
  <2> QED
    BY <2>1, DoItem DEF Last
<1>2. next \in StepsIn({"walk"}) /\ next.left = left /\ next.todo = todo /\ next.do = "walk"
  BY DEF StepsIn, Items
<1> HIDE DEF next, last
<1>3. next \in Items
  BY <1>2 DEF StepsIn
<1>4. CASE left = {} /\ todo = << >>
  <2>1. walk = << >> /\ DOMAIN todo = {}
    BY <1>4 DEF Walk
  <2> HIDE DEF walk
  <2>2. v = <<last>> /\ walk \in Seq(Items) /\ <<last>> \in Seq(Items)
    BY <1>1, <2>1, ConcatEmptySeq, EmptySeq
  <2> QED
    BY <1>4, <2>1, <2>2 DEF Coming, last, walk
<1>5. CASE ~(left = {} /\ todo = << >>)
  <2>1. walk = <<next>>
    BY <1>5 DEF Walk, next
  <2> HIDE DEF walk
  <2>2. /\ <<next>> \in Seq(Items) /\ <<last>> \in Seq(Items) /\ <<next, last>> \in Seq(Items)
        /\ <<next, last>> = <<next>> \o <<last>>
    BY <1>1, <1>3, PairOf
  <2>3. v = <<next, last>>
    BY <2>1, <2>2
  <2> HIDE DEF v
  <2>4. Coming(r, v)
    BY <1>2, <2>3 DEF Coming, last
  <2>5. v[1] = next
    BY <2>3
  <2>6. \A c \in left \cup {todo[i] : i \in DOMAIN todo} : \A z : Below(z, Os(c)) => Awaits(v, z)
    BY <1>2, <2>5 DEF Awaits, Ahead
  <2> QED
    BY <2>1, <2>2, <2>3, <2>4, <2>6 DEF v, walk, last
<1> QED
  BY <1>4, <1>5

LEMMA LastIsItem ==
    ASSUME NEW r \in Requests
    PROVE  Last(r) \in Items /\ <<Last(r)>> \in Seq(Items)
<1>1. Last(r) \in Items
  <2>1. r.path \in Places /\ "remove_file" \in Steps /\ "remove_dir_all" \in Steps
    BY DEF Requests, Steps
  <2> QED
    BY <2>1, DoItem DEF Last
<1> HIDE DEF Last
<1> QED
  BY <1>1

\* The target of what the walk yields.
LEMMA YieldedTarget ==
    ASSUME NEW r, NEW b, MoveOf(r, b), NEW c \in Places, c.fs = r.path.fs, Below(c.path, r.path.path)
    PROVE  LET t == [r.dest EXCEPT !.path = Rebase(c.path, r.path.path, @)] IN
           t \in Places /\ OfTheMove(r, c, t)
<1> DEFINE k == r.path
           l == r.dest
           t == [l EXCEPT !.path = Rebase(c.path, k.path, @)]
<1>1. k \in Places /\ l \in Places
  BY DEF MoveOf, Requests
<1>2. c \in AnyPlaces /\ k \in AnyPlaces /\ l \in AnyPlaces /\ Os(c) \in Paths
  BY <1>1, PlaceFields
<1>3. t \in AnyPlaces /\ Below(Os(c), Os(k)) /\ Os(t) = Rebase(Os(c), Os(k), Os(l))
  <2> HIDE DEF k, l
  <2>1. c.fs = k.fs /\ Below(c.path, k.path)
    BY DEF k
  <2> QED
    BY <1>2, <2>1, RebasedPlaces
<1> HIDE DEF t
<1>4. Os(t) = Target(r, Os(c)) /\ Target(r, Os(c)) \in Paths
  BY <1>2, <1>3 DEF Target, MoveOf
<1>5. t \in Places
  BY <1>3, <1>4 DEF Places, AnyPlaces
<1> QED
  BY <1>4, <1>5 DEF OfTheMove, t

\* The walk lists a directory or yields an entry: nothing it was to reach is
\* passed over.
LEMMA WalkStep ==
    ASSUME NEW a \in Tasks, NEW r, NEW b, OwnStep(a, r, b), Apart(r), Unmoved(r, b, disk),
           NEW it \in StepsIn({"walk"}), job[a].agenda = <<it, Last(r)>>,
           ArrivedBut(r, b, disk, <<it, Last(r)>>, {})
    PROVE  Stands(r, b, disk', hold'[a], job'[a].agenda, TRUE)
<1> DEFINE s == job'[a].agenda
           h == r.path
           last == Last(r)
           n == Len(it.todo)
<1>1. /\ Acting(a) /\ Step(a) /\ MoveOf(r, b) /\ it \in Items /\ it.do = "walk"
      /\ it.left \in SUBSET Places /\ it.todo \in Seq(Places)
      /\ disk \in Maps /\ job[a].request = r
      /\ r \in Requests /\ h \in Places /\ r.dest \in Places
  BY WorldTypes DEF OwnStep, StepsIn, Items, MoveOf, Requests
<1>2. last \in Items /\ <<last>> \in Seq(Items)
  BY <1>1, LastIsItem
<1>3. Now(a) = it /\ Tail(job[a].agenda) = <<last>>
  <2>1. <<it, last>> = <<it>> \o <<last>>
    BY <1>1, <1>2, PairOf
  <2>2. job[a].agenda = <<it>> \o <<last>>
    BY <2>1
  <2> HIDE DEF last
  <2> QED
    BY <1>1, <1>2, <2>2, StepAndRest DEF Now
<1>4. /\ it.path = h /\ it.dest = r.dest /\ (it.left # {} \/ it.todo # << >>)
      /\ \A c \in Ahead(it) : c.fs = h.fs /\ Below(c.path, h.path)
  BY <1>1, <1>3, HeadFits DEF Fits
<1>5. ASSUME NEW z \in Moved(r, b), ~Arrived(r, b, disk, z)
      PROVE  \E c \in Ahead(it) : Below(z, Os(c))
  BY <1>5 DEF Awaits, ArrivedBut
<1>6. \A c \in Ahead(it) : c \in Places
  BY <1>1, ElementOfSeq DEF Ahead
\* Another agenda that goes on with the walk.
<1>7. ASSUME NEW left \in SUBSET Places, NEW todo \in Seq(Places), NEW S,
             \A z \in Moved(r, b) \ S : \A c \in Ahead(it) : Below(z, Os(c)) =>
                 \E e \in left \cup {todo[i] : i \in DOMAIN todo} : Below(z, Os(e))
      PROVE  LET v == Walk(it, left, todo) \o <<last>> IN
             v \in Seq(Items) /\ Coming(r, v) /\ ArrivedBut(r, b, disk, v, S)
  <2> DEFINE v == Walk(it, left, todo) \o <<last>>
  <2>1. /\ v \in Seq(Items) /\ Coming(r, v)
        /\ \A c \in left \cup {todo[i] : i \in DOMAIN todo} : \A z : Below(z, Os(c)) => Awaits(v, z)
    BY <1>1, WalkOn
  <2> HIDE DEF v
  <2>2. ArrivedBut(r, b, disk, v, S)
    BY <1>5, <1>7, <2>1 DEF ArrivedBut
  <2> QED
    BY <2>1, <2>2 DEF v
\* What is below an entry lies below one of those in it.
<1>8. ASSUME NEW z \in Moved(r, b), NEW c \in Ahead(it), Below(z, Os(c)), z # Os(c)
      PROVE  /\ IsDirectory(disk, Os(c))
             /\ \E q \in Children(disk, Os(c)) : Below(z, q)
  <2>1. Os(c) \in Paths /\ Below(Os(c), Os(h))
    <3>1. c \in AnyPlaces /\ h \in AnyPlaces /\ Os(c) \in Paths
      BY <1>1, <1>6, PlaceFields
    <3>2. c.fs = h.fs /\ Below(c.path, h.path)
      BY <1>4
    <3> HIDE DEF h
    <3> QED
      BY <3>1, <3>2, RebasedPlaces
  <2>2. IsDirectory(b, Os(c)) /\ \E q \in Children(b, Os(c)) : Below(z, q)
    BY <1>1, <1>8, <2>1, AboveMoved
  <2>3. Children(b, Os(c)) = Children(disk, Os(c))
    BY <1>1, <2>1, ChildrenStay
  <2>4. disk[Os(c)] = b[Os(c)]
    BY <2>1 DEF Unmoved
  <2> QED
    BY <2>2, <2>3, <2>4 DEF IsDirectory
<1>9. CASE WalkList(a)
  <2> DEFINE top == it.todo[n]
             rest == SubSeq(it.todo, 1, n - 1)
             listed == Listed(top)
             code == ReadDir(disk, Real(top)).code
             walk == Walk(it, listed, rest)
  <2>1. n \in Nat \ {0} /\ n \in DOMAIN it.todo /\ DOMAIN it.todo = 1 .. n /\ it.left = {}
    <3>1. it.left = {}
      BY <1>3, <1>9 DEF WalkList
    <3>2. it.todo # << >>
      BY <1>4, <3>1
    <3> QED
      BY <1>1, <3>1, <3>2, EmptySeq, LenProperties
  <2>2. top \in Places /\ top \in Ahead(it)
    BY <1>6, <2>1 DEF Ahead
  <2>3. rest \in Seq(Places) /\ DOMAIN rest = 1 .. n - 1 /\ \A i \in 1 .. n - 1 : rest[i] = it.todo[i]
    BY <1>1, <2>1
  <2>4. disk' = disk /\ Settle(a, code, {"Ok"}, walk)
    BY <1>3, <1>9 DEF WalkList, Look
  <2>5. listed \in SUBSET Places
    BY <2>2, ListedOK
  <2>6. (code # "Ok" => s = << >>) /\ (code = "Ok" => s = walk \o <<last>>)
    <3> DEFINE codes == {"Ok"}
    <3> HIDE DEF code, walk
    <3>1. Settle(a, code, codes, walk) /\ (code \in codes <=> code = "Ok")
      BY <2>4
    <3> HIDE DEF codes
    <3>2. /\ code \notin codes => s = << >>
          /\ code \in codes => s = (IF a \in Tasks THEN walk ELSE << >>) \o Tail(job[a].agenda)
      BY <1>1, <3>1, AfterSettle
    <3> HIDE DEF last
    <3> QED
      BY <1>3, <3>1, <3>2
  <2>7. ASSUME code = "Ok", NEW z \in Moved(r, b), NEW c \in Ahead(it), Below(z, Os(c))
        PROVE  \E e \in listed \cup {rest[i] : i \in DOMAIN rest} : Below(z, Os(e))
    <3>1. PICK i \in DOMAIN it.todo : c = it.todo[i]
      BY <2>1 DEF Ahead
    <3>2. CASE i # n
      <4>1. i \in DOMAIN rest /\ rest[i] = c
        BY <2>1, <2>3, <3>1, <3>2
      <4> HIDE DEF rest
      <4> QED
        BY <2>7, <4>1
    <3>3. CASE i = n
      <4>1. c = top
        BY <3>1, <3>3
      <4> HIDE DEF top
      <4>2. /\ IsDirectory(disk, Os(top))
            /\ \A q \in Children(disk, Os(top)) : \E e \in listed : Os(e) = q
        BY <1>1, <2>2, <2>7, ListsAll
      <4>3. z # Os(top)
        <5>1. z \in Paths /\ IsFile(b, z) /\ disk[z] = b[z]
          BY DEF Moved, Unmoved
        <5> QED
          BY <4>2, <5>1 DEF IsFile, IsDirectory
      <4>4. \E q \in Children(disk, Os(top)) : Below(z, q)
        BY <1>8, <2>2, <2>7, <4>1, <4>3
      <4> HIDE DEF listed
      <4> QED
        BY <4>2, <4>4
    <3> QED
      BY <3>2, <3>3
  <2> HIDE DEF code, walk, listed, rest, top, s, last
  <2>8. code = "Ok" =>
            s \in Seq(Items) /\ Coming(r, s) /\ ArrivedBut(r, b, disk, s, {})
    BY <1>7, <2>3, <2>5, <2>6, <2>7 DEF walk
  <2>9. code = "Ok" => InDir(r, b, disk', s, s)
    <3>1. << >> \in Seq(StepsIn(DirSteps)) /\ (code = "Ok" => << >> \o s = s)
      BY <2>8, EmptySeq, ConcatEmptySeq
    <3> QED
      BY <2>4, <2>8, <3>1 DEF InDir
  <2> QED
    BY <2>4, <2>6, <2>8, <2>9, GoesOn DEF s
<1>10. ASSUME NEW child \in it.left, WalkYield(a, child)
       PROVE  Stands(r, b, disk', hold'[a], job'[a].agenda, TRUE)
  <2> DEFINE metadata == Metadata(disk, Real(child))
             code == metadata.code
             todo == IF metadata.kind = "Directory" THEN Append(it.todo, child) ELSE it.todo
             left == it.left \ {child}
             target == [r.dest EXCEPT !.path = Rebase(child.path, h.path, @)]
             x == From("copy_entry", child, target)
             walk == Walk(it, left, todo)
             v == walk \o <<last>>
  <2>1. child \in Places /\ child \in Ahead(it) /\ child.fs = h.fs /\ Below(child.path, h.path)
    BY <1>1, <1>4 DEF Ahead
  <2>2. target \in Places /\ OfTheMove(r, child, target)
    BY <1>1, <2>1, YieldedTarget
  <2>3. disk' = disk /\ Settle(a, code, {"Ok"}, <<x>> \o walk)
    BY <1>3, <1>4, <1>10 DEF WalkYield, Look
  <2> HIDE DEF target
  <2>4. x \in StepsIn({"copy_entry"}) /\ x \in Items /\ x.path = child /\ x.dest = target
    BY <2>1, <2>2, DoItem DEF StepsIn, Steps
  <2> HIDE DEF x
  <2>5. /\ todo \in Seq(Places) /\ left \in SUBSET Places
        /\ \A i \in DOMAIN it.todo : \E j \in DOMAIN todo : todo[j] = it.todo[i]
        /\ metadata.kind = "Directory" => \E j \in DOMAIN todo : todo[j] = child
    <3> DEFINE longer == Append(it.todo, child)
    <3>1. n \in Nat /\ DOMAIN it.todo = 1 .. n
      BY <1>1, LenProperties
    <3>2. /\ longer \in Seq(Places) /\ DOMAIN longer = 1 .. n + 1 /\ longer[n + 1] = child
          /\ \A i \in 1 .. n : longer[i] = it.todo[i]
      BY <1>1, <2>1, <3>1, AppendProperties
    <3> HIDE DEF longer
    <3>3. /\ n + 1 \in DOMAIN longer /\ \A i \in 1 .. n : i \in DOMAIN longer
      BY <3>1, <3>2
    <3>4. todo = longer \/ (todo = it.todo /\ metadata.kind # "Directory")
      BY DEF longer
    <3>5. metadata.kind = "Directory" => todo = longer
      BY DEF longer
    <3> HIDE DEF todo, metadata
    <3> QED
      BY <1>1, <3>1, <3>2, <3>3, <3>4, <3>5
  <2>6. code = "Ok" /\ IsDirectory(disk, Os(child)) => metadata.kind = "Directory"
    BY DEF Metadata, Os, IsDirectory, Answer
  <2> HIDE DEF metadata, code, todo
  <2>7. (code # "Ok" => s = << >>) /\ (code = "Ok" => s = <<x>> \o v)
    <3> DEFINE codes == {"Ok"}
               steps == <<x>> \o walk
    <3>1. Settle(a, code, codes, steps) /\ (code \in codes <=> code = "Ok")
      BY <2>3
    <3> HIDE DEF codes, steps
    <3>2. /\ code \notin codes => s = << >>
          /\ code \in codes => s = (IF a \in Tasks THEN steps ELSE << >>) \o Tail(job[a].agenda)
      BY <1>1, <3>1, AfterSettle
    <3>3. walk \in Seq(Items)
      BY <1>1, <2>5, WalkOn
    <3> HIDE DEF last, walk
    <3>4. <<x>> \in Seq(Items)
      BY <2>4
    <3>5. (<<x>> \o walk) \o <<last>> = <<x>> \o (walk \o <<last>>)
      BY <1>2, <3>3, <3>4, ConcatAssociative
    <3> HIDE DEF s
    <3>6. code = "Ok" => s = steps \o <<last>>
      BY <1>3, <3>1, <3>2
    <3> QED
      BY <3>1, <3>2, <3>5, <3>6 DEF steps
  <2>8. ASSUME code = "Ok", NEW z \in Moved(r, b) \ {Os(child)}, NEW c \in Ahead(it), Below(z, Os(c))
        PROVE  \E e \in left \cup {todo[i] : i \in DOMAIN todo} : Below(z, Os(e))
    <3>1. CASE \E i \in DOMAIN it.todo : c = it.todo[i]
      BY <2>5, <2>8, <3>1
    <3>2. CASE c \in left
      BY <2>8, <3>2
    <3>3. CASE c = child
      <4>1. IsDirectory(disk, Os(child))
        BY <1>8, <2>1, <2>8, <3>3
      <4> QED
        BY <2>5, <2>6, <2>8, <3>3, <4>1
    <3> QED
      BY <3>1, <3>2, <3>3 DEF Ahead
  <2> HIDE DEF left
  <2>9. code = "Ok" => v \in Seq(Items) /\ Coming(r, v) /\ ArrivedBut(r, b, disk, v, {Os(child)})
    BY <1>7, <2>5, <2>8
  <2> HIDE DEF v, s
  <2>10. code = "Ok" => AtEntry(r, b, disk', s, v)
    BY <2>2, <2>3, <2>4, <2>7, <2>9 DEF AtEntry
  <2> QED
    BY <2>3, <2>7, <2>9, <2>10, GoesOn DEF s
<1> QED
  BY <1>1, <1>3, <1>9, <1>10, TheActionInATree

\* A tree that is not renamed is copied: all of it is ahead.
LEMMA TreeBegins ==
    ASSUME NEW r, NEW b, MoveOf(r, b), r.op = "move_dir", NEW f
    PROVE  \E v \in Seq(Items) : Coming(r, v) /\ InDir(r, b, f, MoveTreeSteps(r.path, r.dest), v)
<1>1. r \in Requests /\ r.path \in Places /\ r.dest \in Places
  BY DEF MoveOf, Requests
<1>2. PICK it \in StepsIn({"walk"}) :
          /\ r.path \in Ahead(it)
          /\ MoveTreeSteps(r.path, r.dest) = CreateDirSteps(r.dest) \o <<it, Last(r)>>
  BY <1>1, ShapeOfMoveTree
<1> DEFINE last == Last(r)
           v == <<it, last>>
<1>3. v \in Seq(Items) /\ v[1] = it /\ it.do = "walk"
  <2>1. it \in Items /\ last \in Items /\ it.do = "walk"
    BY <1>1, LastIsItem DEF StepsIn
  <2> HIDE DEF last
  <2> QED
    BY <2>1, PairOf
<1> HIDE DEF v, last
<1>4. ArrivedBut(r, b, f, v, {})
  BY <1>2, <1>3 DEF ArrivedBut, Awaits, Moved
<1>5. CreateDirSteps(r.dest) \in Seq(StepsIn(DirSteps))
  BY <1>1, ShapeOfCreateDir
<1>6. Coming(r, v)
  BY DEF Coming, v, last
<1> QED
  BY <1>2, <1>3, <1>4, <1>5, <1>6 DEF InDir, v, last

\* A file that is not renamed is streamed.
LEMMA StreamBegins ==
    ASSUME NEW r, NEW b, MoveOf(r, b), NEW f, NEW files
    PROVE  \E v \in Seq(Items) :
               Coming(r, v) /\ InFile(r, b, f, files, StreamSteps(r.path, r.dest) \o <<Last(r)>>, v)
<1> DEFINE h == r.path
           g == r.dest
           v == <<Last(r)>>
           s == StreamSteps(h, g) \o v
<1>1. r \in Requests /\ h \in Places /\ g \in Places
  BY DEF MoveOf, Requests
<1>2. v \in Seq(Items) /\ Coming(r, v)
  BY <1>1, LastIsItem DEF Coming
<1>3. OfTheMove(r, h, g)
  <2> DEFINE p == Os(h)
             q == Os(g)
  <2>1. p \in AnyPath /\ q \in AnyPath /\ h.path \in AnyPath
    BY <1>1, PlaceFields, OsPaths
  <2>2. Below(h.path, h.path)
    BY <2>1, BelowItself
  <2> HIDE DEF p, q
  <2>3. Rebase(p, p, q) = q
    <3>1. Len(p) \in Nat
      BY <2>1 DEF AnyPath
    <3>2. SubSeq(p, Len(p) + 1, Len(p)) = << >>
      BY <3>1, SubSeqEmpty
    <3>3. q \o << >> = q
      BY <2>1, ConcatEmptySeq DEF AnyPath
    <3> QED
      BY <3>2, <3>3 DEF Rebase
  <2> QED
    BY <2>2, <2>3 DEF OfTheMove, Target, p, q
<1>4. ArrivedBut(r, b, f, v, Within(h))
  BY DEF ArrivedBut, Moved, Within
<1> HIDE DEF v
<1>5. AtOpening(s, v, h, g)
  <2>1. << >> \in Seq(StepsIn(Checks))
    BY EmptySeq
  <2>2. AtOpening(<< >> \o s, v, h, g)
    BY <1>1, <1>2, <2>1, ShapeOfStream
  <2>3. << >> \o s = s
    <3>1. StreamSteps(h, g) \in Seq(Items)
      <4>1. r.op # "append_file" /\ Os(g) \in Makes(r)
        BY <1>1, Reached, PlaceIsBelowItself DEF MoveOf, MovingOps, CopyingOps
      <4>2. StreamSteps(h, g) \in Seq(FittingItems(r))
        BY <1>1, <4>1, StreamSound DEF Sound
      <4> QED
        BY <4>2, FittingAreItems
    <3>2. s \in Seq(Items)
      BY <1>2, <3>1, ConcatProperties
    <3> HIDE DEF s
    <3> QED
      BY <3>2, ConcatEmptySeq
  <2> QED
    BY <2>2, <2>3
<1>6. InFile(r, b, f, files, s, v)
  BY <1>1, <1>3, <1>4, <1>5 DEF InFile
<1> QED
  BY <1>2, <1>6 DEF v

\* The destination is looked at first: what is there stays, and the move ends.
LEMMA NotBegunStep ==
    ASSUME NEW a \in Tasks, NEW r, NEW b, OwnStep(a, r, b), Moved(r, b) # {},
           NotBegun(r, b, disk, job[a].agenda)
    PROVE  Stands(r, b, disk', hold'[a], job'[a].agenda, TRUE)
<1> DEFINE s == job'[a].agenda
           q == Os(r.dest)
           rest == Tail(StepsOf(r))
<1>1. /\ Acting(a) /\ Step(a) /\ MoveOf(r, b) /\ r \in Requests /\ r.op \in MovingOps
      /\ job[a].agenda = StepsOf(r) /\ Unmoved(r, b, disk) /\ disk[q] = b[q]
      /\ r.dest \in Places
  BY DEF OwnStep, MoveOf, NotBegun, Requests
<1>2. Now(a) = Do("absent", r.dest)
  BY <1>1, ShapeOfMove DEF Now
<1>3. Now(a).do = "absent" /\ Now(a).path = r.dest
  BY <1>1, <1>2, DoItem DEF Steps
<1>4. /\ disk' = disk
      /\ s = << >> \/ (s = rest /\ ~Exists(disk, q))
  BY <1>1, <1>3, AfterCheck DEF Checks
<1> HIDE DEF s, rest
<1>5. CASE s = << >>
  BY <1>1, <1>4, <1>5 DEF Stands, GivenUp, s
<1>6. CASE s = rest /\ ~Exists(disk, q)
  <2>1. Apart(r)
    BY <1>1, <1>6, ApartWhenFree DEF Exists
  <2>2. CASE \E it \in StepsIn(Renames) : rest = <<it>> /\ (it.do = "rename_dir" => r.op = "move_dir")
    BY <1>1, <1>4, <1>6, <2>1, <2>2 DEF Stands, Renaming, s
  <2>3. CASE rest = StreamSteps(r.path, r.dest) \o <<Last(r)>>
    BY <1>1, <1>4, <1>6, <2>1, <2>3, StreamBegins, GoesOn DEF s
  <2>4. CASE r.op = "move_dir" /\ rest = MoveTreeSteps(r.path, r.dest)
    BY <1>1, <1>4, <1>6, <2>1, <2>4, TreeBegins, GoesOn DEF s
  <2> QED
    BY <1>1, <2>2, <2>3, <2>4, ShapeOfMove DEF rest
<1> QED
  BY <1>4, <1>5, <1>6

\* What has been renamed has arrived.
LEMMA RenamedArrives ==
    ASSUME NEW r, NEW b, MoveOf(r, b), Apart(r), NEW f \in Maps, Unmoved(r, b, f)
    PROVE  LET x == Rename(f, Os(r.path), Os(r.dest)) IN
           /\ x.error # "None" => x.map = f
           /\ x.error = "None" => \A z \in Moved(r, b) : Arrived(r, b, x.map, z)
<1> DEFINE p == Os(r.path)
           q == Os(r.dest)
           x == Rename(f, p, q)
<1>1. /\ r \in Requests /\ p \in Paths /\ q \in Paths /\ p \in AnyPath /\ q \in AnyPath
  BY MovePaths DEF MoveOf
<1>2. p # q
  BY <1>1, BelowItself DEF Apart
<1>3. x.error # "None" => x.map = f
  BY DEF Rename, Outcome
<1>4. x.error = "None" => x.map = MoveTree(f, p, q)
  BY <1>2 DEF Rename, Outcome
<1>5. ASSUME NEW z \in Moved(r, b) PROVE MoveTree(f, p, q)[Target(r, z)] = b[z]
  <2> DEFINE t == Target(r, z)
  <2>1. z \in Paths /\ Below(z, p) /\ z \in AnyPath /\ t \in Paths /\ Below(t, q)
    BY Targets DEF Moved
  <2>2. Rebase(t, q, p) = z
    BY <1>1, <2>1, RebaseBack DEF Target
  <2> HIDE DEF t, p, q
  <2>3. MoveTree(f, p, q)[t] = f[z]
    BY <2>1, <2>2 DEF MoveTree
  <2> QED
    BY <2>1, <2>3 DEF Unmoved, p, t
<1> QED
  BY <1>3, <1>4, <1>5 DEF Arrived

LEMMA RenamingStep ==
    ASSUME NEW a, NEW r, NEW b, OwnStep(a, r, b), Renaming(r, b, disk, job[a].agenda)
    PROVE  Stands(r, b, disk', hold'[a], job'[a].agenda, a \in Tasks)
<1> DEFINE s == job'[a].agenda
           p == Os(r.path)
           q == Os(r.dest)
           x == Rename(disk, p, q)
<1>1. /\ Acting(a) /\ Step(a) /\ MoveOf(r, b) /\ disk \in Maps /\ job[a].request = r
      /\ Apart(r) /\ Unmoved(r, b, disk)
  BY WorldTypes DEF OwnStep, Renaming
<1>2. PICK it \in StepsIn(Renames) :
          job[a].agenda = <<it>> /\ (it.do = "rename_dir" => r.op = "move_dir")
  BY DEF Renaming
<1>3. it.do \in Renames /\ Now(a) = it /\ Tail(job[a].agenda) = << >>
  BY <1>2 DEF StepsIn, Now
<1>4. it.path = r.path /\ it.dest = r.dest
  BY <1>1, <1>3, HeadFits DEF Fits
<1>5. /\ x.error # "None" => x.map = disk
      /\ x.error = "None" => \A z \in Moved(r, b) : Arrived(r, b, x.map, z)
  BY <1>1, RenamedArrives
<1>6. /\ MoveFile(disk, Here(a), Real(Now(a).dest)) = x
      /\ MoveDir(disk, Here(a), Real(Now(a).dest)) =
             IF x.error = "None" THEN x ELSE [x EXCEPT !.error = "NotSupported"]
  BY <1>3, <1>4 DEF MoveFile, MoveDir, Here, Os
<1> HIDE DEF x
<1>7. ASSUME x.error = "None", disk' = x.map, s = << >>
      PROVE  Stands(r, b, disk', hold'[a], s, a \in Tasks)
  <2>1. s \in Seq(StepsIn(Removals))
    BY <1>7, EmptySeq
  <2> QED
    BY <1>1, <1>5, <1>7, <2>1 DEF Stands, Leaving
<1>8. ASSUME disk' = disk, s = << >>
      PROVE  Stands(r, b, disk', hold'[a], s, a \in Tasks)
  BY <1>1, <1>8 DEF Stands, GivenUp
<1>9. CASE it.do = "rename"
  <2>1. RenameFile(a)
    BY <1>1, <1>3, <1>9, TheActionInATree
  <2>2. disk' = x.map /\ Settle(a, VfsCode(x.error), {"Ok"}, << >>)
    BY <1>6, <2>1 DEF RenameFile, Change, Apply
  <2>3. s = << >>
    BY <1>1, <1>3, <2>2, AfterCall
  <2> QED
    BY <1>5, <1>7, <1>8, <2>2, <2>3
<1>10. CASE it.do = "rename_dir"
  <2> DEFINE y == MoveDir(disk, Here(a), Real(Now(a).dest))
             tree == MoveTreeSteps(r.path, r.dest)
             steps == IF y.error = "None" THEN << >> ELSE tree
  <2>1. RenameDir(a)
    BY <1>1, <1>3, <1>10, TheActionInATree
  <2>2. disk' = y.map /\ Resume(a, steps)
    BY <1>3, <1>4, <2>1 DEF RenameDir, Apply
  <2>3. /\ x.error = "None" => y = x
        /\ x.error # "None" => y.map = disk /\ y.error # "None"
    <3>1. x.error # "None" => y = Outcome(disk, "NotSupported")
      BY <1>6, FailedRename DEF x
    <3> QED
      BY <1>6, <3>1 DEF Outcome
  <2> HIDE DEF y
  <2>4. CASE x.error = "None"
    <3>1. steps = << >>
      BY <2>3, <2>4
    <3>2. s = << >>
      BY <1>1, <1>3, <2>2, <3>1, AfterResume
    <3> QED
      BY <1>7, <2>2, <2>3, <2>4, <3>2
  <2>5. CASE x.error # "None"
    <3>1. steps = tree /\ disk' = disk
      BY <2>2, <2>3, <2>5
    <3>2. tree \in Seq(Items)
      BY <1>1, MoveDirSound, FittingAreItems DEF Sound, MoveOf
    <3> HIDE DEF tree, steps
    <3>3. s = (IF a \in Tasks THEN tree ELSE << >>) \o << >>
      BY <1>1, <1>3, <2>2, <3>1, AfterResume
    <3>4. CASE a \in Tasks
      <4>1. s = tree
        BY <3>2, <3>3, <3>4, ConcatEmptySeq
      <4>2. \E v \in Seq(Items) : Coming(r, v) /\ InDir(r, b, disk', tree, v)
        BY <1>1, <1>2, <1>10, TreeBegins DEF tree
      <4> HIDE DEF s
      <4> QED
        BY <1>1, <3>1, <3>4, <4>1, <4>2, GoesOn DEF s
    <3>5. CASE a \notin Tasks
      <4>1. s = << >>
        BY <3>3, <3>5, ConcatEmptySeq, EmptySeq
      <4> QED
        BY <1>8, <3>1, <4>1
    <3> QED
      BY <3>4, <3>5
  <2> QED
    BY <2>4, <2>5
<1> QED
  BY <1>3, <1>9, <1>10 DEF Renames

\* The pool does what it has been handed, and no more.
LEMMA HandedSteps ==
    ASSUME NEW a, Acting(a), a \notin Tasks, Step(a), Now(a).do \in Leftovers
    PROVE  job'[a].agenda = << >> \/ job'[a].agenda = Tail(job[a].agenda)
<1> DEFINE s == job'[a].agenda
<1>1. Tail(job[a].agenda) \in Seq(Items)
  BY ActingFacts, FittingAreItems DEF Sound
<1>2. \A steps : Resume(a, steps) => s = Tail(job[a].agenda)
  <2> SUFFICES ASSUME NEW steps, Resume(a, steps) PROVE s = Tail(job[a].agenda)
    OBVIOUS
  <2>1. s = (IF a \in Tasks THEN steps ELSE << >>) \o Tail(job[a].agenda)
    BY AfterResume
  <2>2. s = << >> \o Tail(job[a].agenda)
    BY <2>1
  <2> HIDE DEF s
  <2> QED
    BY <1>1, <2>2, ConcatEmptySeq
<1>3. \A answer, how : End(a, answer, how) => s = << >>
  BY AfterEnd
<1>4. \/ CreateDirStep(a) \/ CreateFileStep(a) \/ OsCopy(a) \/ CopyBytes(a)
  BY TheAction DEF Leftovers
<1> HIDE DEF s
<1>5. (\E steps : Resume(a, steps)) \/ (\E answer, how : End(a, answer, how))
  BY <1>4 DEF CreateDirStep, CreateFileStep, OsCopy, CopyBytes, Settle, Abort
<1> QED
  BY <1>2, <1>3, <1>5 DEF s

LEMMA GivenUpStep ==
    ASSUME NEW a, NEW r, NEW b, OwnStep(a, r, b),
           GivenUp(r, b, disk, job[a].agenda, a \in Tasks)
    PROVE  Stands(r, b, disk', hold'[a], job'[a].agenda, a \in Tasks)
<1> DEFINE L == StepsIn(Leftovers)
           old == job[a].agenda
           s == job'[a].agenda
<1>1. Acting(a) /\ Step(a) /\ old # << >>
  BY ActingFacts DEF OwnStep
<1>2. Unmoved(r, b, disk) /\ Apart(r) /\ a \notin Tasks /\ old \in Seq(L)
  BY <1>1 DEF GivenUp
<1>3. Head(old) \in L /\ Tail(old) \in Seq(L)
  BY <1>1, <1>2, HeadTailProperties
<1>4. Now(a).do \in Leftovers
  BY <1>3 DEF Now, StepsIn
<1>5. Unmoved(r, b, disk')
  BY <1>2, <1>4, KeepsSource DEF Leftovers, Removals, Renames
<1>6. s = << >> \/ s = Tail(old)
  BY <1>1, <1>2, <1>4, HandedSteps
<1> HIDE DEF s, old, L
<1>7. s \in Seq(L)
  BY <1>3, <1>6, EmptySeq
<1> QED
  BY <1>2, <1>5, <1>7 DEF Stands, GivenUp, L, s

\* Removing a tree is removing its entries, one by one.
LEMMA RemovalSteps ==
    ASSUME NEW a, Acting(a), Step(a), Now(a).do \in Removals,
           job[a].agenda \in Seq(StepsIn(Removals))
    PROVE  /\ job'[a].agenda \in Seq(StepsIn(Removals))
           /\ \A z \in Paths : z # Os(Now(a).path) => disk'[z] = disk[z]
<1> DEFINE R == StepsIn(Removals)
           s == job'[a].agenda
           rest == Tail(job[a].agenda)
           h == Now(a).path
           q == Os(h)
<1>1. /\ rest \in Seq(R) /\ << >> \in Seq(R) /\ h \in Places /\ disk \in Maps /\ q \in Paths
      /\ Now(a) \in Items
  BY ActingFacts, WorldTypes, HeadTailProperties, EmptySeq
<1>2. \A steps \in Seq(R) : Resume(a, steps) => s \in Seq(R)
  <2> SUFFICES ASSUME NEW steps \in Seq(R), Resume(a, steps) PROVE s \in Seq(R)
    OBVIOUS
  <2>1. s = (IF a \in Tasks THEN steps ELSE << >>) \o rest
    BY AfterResume
  <2> DEFINE mine == IF a \in Tasks THEN steps ELSE << >>
  <2>2. mine \in Seq(R) /\ s = mine \o rest
    BY <1>1, <2>1
  <2> HIDE DEF mine, s, R, rest
  <2> QED
    BY <1>1, <2>2, ConcatProperties
<1>3. \A answer, how : End(a, answer, how) => s \in Seq(R)
  BY <1>1, AfterEnd
<1> HIDE DEF s
<1>4. \A code : \A steps \in Seq(R) : Settle(a, code, {"Ok"}, steps) => s \in Seq(R)
  BY <1>2, <1>3 DEF Settle, Abort
<1>5. \A do \in Removals : \A k \in Places : Do(do, k) \in R
  BY DoItem DEF StepsIn, Removals, Steps
<1>6. \A k \in Places : \A left \in SUBSET Places : Rest(k, left) \in Seq(R)
  <2> SUFFICES ASSUME NEW k \in Places, NEW left \in SUBSET Places PROVE Rest(k, left) \in Seq(R)
    OBVIOUS
  <2> DEFINE x == Do("children", k)
  <2>1. x \in Items /\ x.do = "children"
    BY DoItem DEF Steps
  <2> HIDE DEF x
  <2>2. [x EXCEPT !.left = left] \in R
    BY <2>1 DEF StepsIn, Items, Removals
  <2> QED
    BY <1>1, <2>2 DEF Rest, x
<1> HIDE DEF R
<1>7. CASE Now(a).do \in {"remove_file", "remove_dir"}
  <2> DEFINE x == IF Now(a).do = "remove_file" THEN Unlink(disk, q) ELSE Rmdir(disk, q)
  <2>1. RemoveFile(disk, Here(a)) = Unlink(disk, q) /\ RemoveDir(disk, Here(a)) = Rmdir(disk, q)
    BY DEF RemoveFile, RemoveDir, Os, Here
  <2>2. disk' = x.map /\ Settle(a, VfsCode(x.error), {"Ok"}, << >>)
    BY <1>7, <2>1, TheActionInATree DEF RemoveFileStep, RemoveDirStep, Change, Apply
  <2>3. x.map = disk \/ x.map = Remove(disk, q)
    BY DEF Unlink, Rmdir, Outcome
  <2>4. \A z \in Paths : z # q => Remove(disk, q)[z] = disk[z]
    BY <1>1 DEF Remove, Maps
  <2> HIDE DEF x
  <2> QED
    BY <1>1, <1>4, <2>2, <2>3, <2>4 DEF s, R
<1>8. CASE Now(a).do = "remove_dir_all"
  <2> DEFINE two == <<Do("list", h), Do("remove_dir", h)>>
             steps == IF ThereIs(disk, Real(h)) THEN two ELSE << >>
  <2>1. disk' = disk /\ Resume(a, steps)
    BY <1>8, TheActionInATree DEF RemoveDirAll
  <2>2. two \in Seq(R)
    BY <1>1, <1>5, PairOf DEF Removals
  <2> HIDE DEF two
  <2> QED
    BY <1>1, <1>2, <2>1, <2>2 DEF s, R
<1>9. CASE Now(a).do = "list"
  <2>1. disk' = disk /\ Settle(a, ReadDir(disk, Here(a)).code, {"Ok"}, Rest(h, Listed(h)))
    BY <1>9, TheActionInATree DEF List, Look
  <2>2. Listed(h) \in SUBSET Places
    BY <1>1, ListedOK
  <2> QED
    BY <1>1, <1>4, <1>6, <2>1, <2>2 DEF s, R
<1>10. CASE Now(a).do = "children"
  <2>1. PICK child \in Now(a).left : NextChild(a, child)
    BY <1>10, TheActionInATree
  <2>2. child \in Places /\ Now(a).left \ {child} \in SUBSET Places
    BY <1>1 DEF Items
  <2> DEFINE metadata == Metadata(disk, Real(child))
             removal == IF metadata.kind = "File" THEN "remove_file" ELSE "remove_dir_all"
             x == Do(removal, child)
             more == Rest(h, Now(a).left \ {child})
  <2>3. disk' = disk /\ Settle(a, metadata.code, {"Ok"}, <<x>> \o more)
    BY <2>1 DEF NextChild, Look
  <2>4. x \in R /\ more \in Seq(R)
    BY <1>1, <1>5, <1>6, <2>2 DEF Removals
  <2> HIDE DEF x, more, metadata
  <2>5. <<x>> \o more \in Seq(R)
    BY <2>4, StepAndRest
  <2> QED
    BY <1>4, <2>3, <2>5 DEF s, R
<1> QED
  BY <1>7, <1>8, <1>9, <1>10 DEF Removals

LEMMA LeavingStep ==
    ASSUME NEW a, NEW r, NEW b, OwnStep(a, r, b), Leaving(r, b, disk, job[a].agenda)
    PROVE  Stands(r, b, disk', hold'[a], job'[a].agenda, a \in Tasks)
<1> DEFINE R == StepsIn(Removals)
           q == Os(Now(a).path)
<1>1. /\ Acting(a) /\ Step(a) /\ MoveOf(r, b) /\ job[a].request = r /\ job[a].agenda # << >>
      /\ Apart(r) /\ job[a].agenda \in Seq(R) /\ q \in Paths
  BY ActingFacts DEF OwnStep, Leaving
<1>2. Now(a).do \in Removals
  <2>1. Head(job[a].agenda) \in R
    BY <1>1, HeadTailProperties
  <2> QED
    BY <2>1 DEF Now, StepsIn
<1>3. Below(q, Os(r.path))
  BY <1>1, <1>2, HeadFits DEF Fits
<1>4. /\ job'[a].agenda \in Seq(R)
      /\ \A z \in Paths : z # q => disk'[z] = disk[z]
  BY <1>1, <1>2, RemovalSteps
<1>5. ASSUME NEW z \in Moved(r, b) PROVE Arrived(r, b, disk', z)
  <2>1. Target(r, z) \in Paths /\ Below(Target(r, z), Os(r.dest))
    BY <1>1, Targets DEF Moved
  <2>2. Target(r, z) # q
    BY <1>1, <1>3, <2>1, ApartPaths
  <2>3. disk[Target(r, z)] = b[z]
    BY DEF Leaving, Arrived
  <2> QED
    BY <1>4, <2>1, <2>2, <2>3 DEF Arrived
<1> QED
  BY <1>1, <1>4, <1>5 DEF Stands, Leaving

\* Whatever step an undisturbed move takes.
LEMMA OwnStepOK ==
    ASSUME NEW a, NEW r, NEW b, OwnStep(a, r, b), Moved(r, b) # {},
           Stands(r, b, disk, hold[a], job[a].agenda, a \in Tasks)
    PROVE  Stands(r, b, disk', hold'[a], job'[a].agenda, a \in Tasks)
<1> DEFINE s == job[a].agenda
<1>1. CASE a \in Tasks /\ NotBegun(r, b, disk, s)
  BY <1>1, NotBegunStep
<1>2. CASE a \in Tasks /\ Copying(r, b, disk, hold[a], s)
  <2>1. PICK v \in Seq(Items) :
            /\ Coming(r, v)
            /\ InDir(r, b, disk, s, v) \/ AtEntry(r, b, disk, s, v)
                                       \/ InFile(r, b, disk, hold[a], s, v)
    BY <1>2 DEF Copying
  <2>2. Apart(r) /\ Unmoved(r, b, disk) /\ a \in Tasks /\ MoveOf(r, b)
    BY <1>2 DEF Copying, OwnStep
  <2>3. CASE InDir(r, b, disk, s, v)
    <3>1. PICK w \in Seq(StepsIn(DirSteps)) : s = w \o v
      BY <2>3 DEF InDir
    <3>2. ArrivedBut(r, b, disk, v, {})
      BY <2>3 DEF InDir
    <3>3. CASE w # << >>
      BY <2>1, <2>2, <3>1, <3>2, <3>3, InDirStep
    <3>4. CASE w = << >>
      <4>1. s = v
        BY <3>1, <3>4, ConcatEmptySeq
      <4>2. CASE v = <<Last(r)>>
        <5>1. Last(r).do \in Removals /\ Last(r) \in Items /\ Last(r).do # "walk"
          BY <2>2, LastIsItem, DoItem DEF MoveOf, Requests, Last, Removals, Steps
        <5>2. \A z \in Moved(r, b) : Arrived(r, b, disk, z)
          BY <3>2, <4>2, <5>1 DEF ArrivedBut, Awaits
        <5>3. s \in Seq(StepsIn(Removals))
          BY <4>1, <4>2, <5>1 DEF StepsIn
        <5>4. Leaving(r, b, disk, s)
          BY <2>2, <5>2, <5>3 DEF Leaving
        <5> QED
          BY <5>4, LeavingStep
      <4>3. CASE \E it \in StepsIn({"walk"}) : v = <<it, Last(r)>>
        BY <2>2, <3>2, <4>1, <4>3, WalkStep
      <4> QED
        BY <2>1, <4>2, <4>3 DEF Coming
    <3> QED
      BY <3>3, <3>4
  <2>4. CASE AtEntry(r, b, disk, s, v)
    BY <2>1, <2>2, <2>4, AtEntryStep DEF AtEntry
  <2>5. CASE InFile(r, b, disk, hold[a], s, v)
    <3>1. PICK h \in Places, g \in Places :
              /\ OfTheMove(r, h, g)
              /\ ArrivedBut(r, b, disk, v, Within(h))
              /\ \/ AtOpening(s, v, h, g)
                 \/ AtCreation(b, hold[a], s, v, h, g)
                 \/ AtFirstBytes(b, disk, hold[a], s, v, h, g)
                 \/ AtLastBytes(b, disk, hold[a], s, v, h, g)
      BY <2>5 DEF InFile
    <3> QED
      BY <2>1, <2>2, <3>1, AtOpeningStep, AtCreationStep, AtFirstBytesStep, AtLastBytesStep
  <2> QED
    BY <2>1, <2>3, <2>4, <2>5
<1>3. CASE Renaming(r, b, disk, s)
  BY <1>3, RenamingStep
<1>4. CASE GivenUp(r, b, disk, s, a \in Tasks)
  BY <1>4, GivenUpStep
<1>5. CASE Leaving(r, b, disk, s)
  BY <1>5, LeavingStep
<1> QED
  BY <1>1, <1>2, <1>3, <1>4, <1>5 DEF Stands

-----------------------------------------------------------------------------
(* Moves that stop, go on in the pool, or that others do not reach.         *)

\* A move may stop anywhere.
LEMMA StopsAnywhere ==
    ASSUME NEW r, NEW b, NEW f, NEW files, NEW s, NEW mine, Stands(r, b, f, files, s, mine),
           NEW others, NEW mine2
    PROVE  Stands(r, b, f, others, << >>, mine2)
<1>1. CASE Unmoved(r, b, f)
  BY <1>1 DEF Stands, GivenUp
<1>2. CASE Leaving(r, b, f, s)
  <2>1. << >> \in Seq(StepsIn(Removals))
    BY EmptySeq
  <2> QED
    BY <1>2, <2>1 DEF Stands, Leaving
<1> QED
  BY <1>1, <1>2 DEF Stands, NotBegun, Copying, Renaming, GivenUp

\* What is around a move, and what it has open there, is as it was.
LEMMA StaysWhereItIs ==
    ASSUME NEW r, NEW b, MoveOf(r, b), NEW f, NEW g, \A x \in Around(r) : g[x] = f[x],
           NEW files, NEW others,
           files.src.path \in Around(r) => others.src = files.src,
           files.dst.path \in Around(r) => others.dst = files.dst,
           NEW s, NEW mine, Stands(r, b, f, files, s, mine)
    PROVE  Stands(r, b, g, others, s, mine)
<1>1. Unmoved(r, b, f) => Unmoved(r, b, g)
  BY DEF Unmoved, Around
<1>2. \A z \in Moved(r, b) : Arrived(r, b, f, z) => Arrived(r, b, g, z)
  <2>1. \A z \in Moved(r, b) : Target(r, z) \in Around(r)
    BY Targets DEF Moved, Around
  <2> QED
    BY <2>1 DEF Arrived
<1>3. NotBegun(r, b, f, s) => NotBegun(r, b, g, s)
  <2>1. Os(r.dest) \in Around(r)
    BY MovePaths, BelowItself DEF MoveOf, Around
  <2> QED
    BY <1>1, <2>1 DEF NotBegun
<1>4. Renaming(r, b, f, s) => Renaming(r, b, g, s)
  BY <1>1 DEF Renaming
<1>5. GivenUp(r, b, f, s, mine) => GivenUp(r, b, g, s, mine)
  BY <1>1 DEF GivenUp
<1>6. Leaving(r, b, f, s) => Leaving(r, b, g, s)
  BY <1>2 DEF Leaving
<1>7. ASSUME Copying(r, b, f, files, s) PROVE Copying(r, b, g, others, s)
  <2>1. PICK v \in Seq(Items) :
            /\ Coming(r, v)
            /\ InDir(r, b, f, s, v) \/ AtEntry(r, b, f, s, v) \/ InFile(r, b, f, files, s, v)
    BY <1>7 DEF Copying
  <2>2. \A S : ArrivedBut(r, b, f, v, S) => ArrivedBut(r, b, g, v, S)
    BY <1>2 DEF ArrivedBut
  <2>3. InDir(r, b, f, s, v) => InDir(r, b, g, s, v)
    BY <2>2 DEF InDir
  <2>4. AtEntry(r, b, f, s, v) => AtEntry(r, b, g, s, v)
    BY <2>2 DEF AtEntry
  <2>5. ASSUME InFile(r, b, f, files, s, v) PROVE InFile(r, b, g, others, s, v)
    <3>1. PICK h \in Places, k \in Places :
              /\ OfTheMove(r, h, k)
              /\ ArrivedBut(r, b, f, v, Within(h))
              /\ \/ AtOpening(s, v, h, k)
                 \/ AtCreation(b, files, s, v, h, k)
                 \/ AtFirstBytes(b, f, files, s, v, h, k)
                 \/ AtLastBytes(b, f, files, s, v, h, k)
      BY <2>5 DEF InFile
    <3>2. Os(h) \in Around(r) /\ Os(k) \in Around(r)
      BY <3>1, PlaceOfTheMove, Targets DEF Around
    <3>3. \A n : Reads(b, files.src, Os(h), n) => Reads(b, others.src, Os(h), n)
      BY <3>2 DEF Reads
    <3>4. \A n : Writes(b, f, files.dst, Os(h), Os(k), n) => Writes(b, g, others.dst, Os(h), Os(k), n)
      BY <3>2 DEF Writes
    <3>5. AtCreation(b, files, s, v, h, k) => AtCreation(b, others, s, v, h, k)
      BY <3>3 DEF AtCreation, Creates
    <3>6. AtFirstBytes(b, f, files, s, v, h, k) => AtFirstBytes(b, g, others, s, v, h, k)
      BY <3>3, <3>4 DEF AtFirstBytes
    <3>7. AtLastBytes(b, f, files, s, v, h, k) => AtLastBytes(b, g, others, s, v, h, k)
      BY <3>3, <3>4 DEF AtLastBytes
    <3> QED
      BY <2>2, <3>1, <3>5, <3>6, <3>7 DEF InFile
  <2> QED
    BY <1>1, <1>7, <2>1, <2>3, <2>4, <2>5 DEF Copying
<1> QED
  BY <1>3, <1>4, <1>5, <1>6, <1>7 DEF Stands

\* What the pool is handed of the steps of a copy.
LEMMA HandedOver ==
    ASSUME NEW s \in Seq(Items), s # << >>, Together(s), InThePool(s) # << >>
    PROVE  /\ Head(s).do \in {"os_copy", "os_some"} \cup Pooled
           /\ Head(s).do \in Leftovers => InThePool(s) \in Seq(StepsIn(Leftovers))
           /\ Head(s).do \in Pooled => InThePool(s) = <<Head(s)>>
<1> DEFINE x == Head(s)
           n == CASE x.do = "os_copy" -> 3 [] x.do = "os_some" -> 2 [] x.do \in Pooled -> 1
                  [] OTHER -> 0
           L == StepsIn(Leftovers)
<1>1. InThePool(s) = SubSeq(s, 1, n)
  BY DEF InThePool
<1>2. /\ Len(s) \in Nat \ {0} /\ DOMAIN s = 1 .. Len(s) /\ s[1] = x /\ 1 \in DOMAIN s
      /\ \A i \in DOMAIN s : s[i] \in Items
  BY HeadTailProperties, LenProperties, EmptySeq, ElementOfSeq
<1>3. x.do \in {"os_copy", "os_some"} \cup Pooled
  <2> SUFFICES ASSUME x.do \notin {"os_copy", "os_some"} \cup Pooled PROVE FALSE
    OBVIOUS
  <2>1. n = 0
    OBVIOUS
  <2>2. SubSeq(s, 1, 0) = << >>
    BY SubSeqEmpty
  <2> QED
    BY <1>1, <2>1, <2>2
<1>4. x.do \in Leftovers => n \in 1 .. 3 /\ n \in DOMAIN s /\ \A i \in 1 .. n : s[i].do \in Leftovers
  <2> HIDE DEF x
  <2>1. CASE x.do = "os_copy"
    <3>1. n = 3
      BY <2>1 DEF Pooled
    <3> HIDE DEF n
    <3>2. 1 \in DOMAIN s /\ s[1].do = "os_copy" /\ s[1] \in Items
      BY <1>2, <2>1
    <3>3. 1 + 2 \in DOMAIN s /\ s[1 + 1].do = "os_some" /\ s[1 + 2].do = "os_rest"
      BY <3>2 DEF Together
    <3>4. 1 + 1 = 2 /\ 1 + 2 = 3
      OBVIOUS
    <3>5. 3 \in DOMAIN s /\ s[2].do = "os_some" /\ s[3].do = "os_rest"
      BY <3>3, <3>4
    <3>6. \A i \in 1 .. 3 : i = 1 \/ i = 2 \/ i = 3
      OBVIOUS
    <3>7. \A i \in 1 .. 3 : s[i].do \in Leftovers
      BY <3>2, <3>5, <3>6 DEF Leftovers
    <3> QED
      BY <3>1, <3>5, <3>7
  <2>2. CASE x.do = "os_some"
    <3>1. n = 2
      BY <2>2 DEF Pooled
    <3> HIDE DEF n
    <3>2. 1 \in DOMAIN s /\ s[1].do = "os_some" /\ s[1] \in Items
      BY <1>2, <2>2
    <3>3. 1 + 1 \in DOMAIN s /\ s[1 + 1].do = "os_rest"
      BY <3>2 DEF Together
    <3>4. 1 + 1 = 2
      OBVIOUS
    <3>5. 2 \in DOMAIN s /\ s[2].do = "os_rest"
      BY <3>3, <3>4
    <3>6. \A i \in 1 .. 2 : i = 1 \/ i = 2
      OBVIOUS
    <3>7. \A i \in 1 .. 2 : s[i].do \in Leftovers
      BY <3>2, <3>5, <3>6 DEF Leftovers
    <3> QED
      BY <3>1, <3>5, <3>7
  <2>3. CASE x.do \in Pooled /\ x.do \notin {"os_copy", "os_some"}
    BY <1>2, <2>3
  <2> QED
    BY <1>3, <2>1, <2>2, <2>3
<1>5. x.do \in Pooled => n = 1
  BY DEF Pooled
<1> HIDE DEF n
<1>6. ASSUME x.do \in Leftovers PROVE InThePool(s) \in Seq(L)
  <2>1. n \in Int /\ 1 \in Int /\ n \in 1 .. Len(s)
    BY <1>2, <1>4, <1>6
  <2>2. \A i \in 1 .. n : i \in DOMAIN s
    BY <1>2, <2>1
  <2>3. \A i \in 1 .. n : s[i] \in L
    BY <1>2, <1>4, <1>6, <2>2 DEF StepsIn
  <2> HIDE DEF L, x
  <2>4. SubSeq(s, 1, n) \in Seq(L)
    BY <2>1, <2>3, SubSeqProperties
  <2> QED
    BY <1>1, <2>4
<1>7. SubSeq(s, 1, 1) = <<x>>
  <2> DEFINE u == SubSeq(s, 1, 1)
  <2>1. \A i \in 1 .. 1 : s[i] \in Items
    BY <1>2
  <2>2. 1 \in Int /\ 1 <= 1 /\ 1 - 1 + 1 = 1 /\ 1 + 1 - 1 = 1
    OBVIOUS
  <2>3. u \in Seq(Items) /\ Len(u) = 1 /\ \A i \in 1 .. 1 : u[i] = s[1 + i - 1]
    <3>1. /\ u \in Seq(Items) /\ Len(u) = (IF 1 <= 1 THEN 1 - 1 + 1 ELSE 0)
          /\ \A i \in 1 .. 1 - 1 + 1 : u[i] = s[1 + i - 1]
      BY <2>1, <2>2, SubSeqProperties
    <3> HIDE DEF u
    <3> QED
      BY <3>1
  <2> HIDE DEF u, x
  <2>4. u[1] = x
    BY <1>2, <2>3
  <2>5. x \in Items
    BY <1>2
  <2>6. <<x>> \in Seq(Items) /\ Len(<<x>>) = 1 /\ <<x>>[1] = x
    BY <2>5
  <2> DEFINE y == <<x>>
  <2> HIDE DEF y
  <2>7. y \in Seq(Items) /\ Len(y) = 1 /\ y[1] = x
    BY <2>6 DEF y
  <2>8. \A i \in 1 .. 1 : u[i] = y[i]
    BY <2>4, <2>7
  <2>9. u = y
    BY <2>3, <2>7, <2>8, SeqEqual
  <2> QED
    BY <2>9 DEF u, y
<1> QED
  BY <1>1, <1>3, <1>5, <1>6, <1>7

\* Where a copy may be left to the pool.
LEMMA HeadOfACopy ==
    ASSUME NEW r, NEW b, MoveOf(r, b), NEW f, NEW files, NEW s, Copying(r, b, f, files, s)
    PROVE  \/ Head(s).do \notin {"os_copy", "os_some"} \cup Pooled
           \/ Head(s).do \in Leftovers
           \/ s = <<Last(r)>> /\ Leaving(r, b, f, s)
<1>1. PICK v \in Seq(Items) :
          /\ Coming(r, v)
          /\ InDir(r, b, f, s, v) \/ AtEntry(r, b, f, s, v) \/ InFile(r, b, f, files, s, v)
  BY DEF Copying
<1>2. r \in Requests /\ Apart(r)
  BY DEF MoveOf, Copying
\* Steps that are not left to the pool.
<1>3. \A x : x.do \in Checks \cup {"kind_there", "open", "copy_entry", "walk", "copy_some", "copy_rest"} =>
         x.do \notin {"os_copy", "os_some"} \cup Pooled
  BY DEF Checks, Pooled
<1>4. ASSUME NEW K, NEW w \in Seq(StepsIn(K)), NEW x \in Items, NEW y \in Seq(Items),
             s = w \o (<<x>> \o y)
      PROVE  Head(s).do \in K \/ Head(s) = x
  <2>1. StepsIn(K) \subseteq Items
    BY DEF StepsIn
  <2> DEFINE z == <<x>> \o y
  <2>2. z \in Seq(Items) /\ Head(z) = x
    BY <1>4, StepAndRest
  <2> HIDE DEF z
  <2>3. s = w \o z
    BY <1>4 DEF z
  <2>4. CASE w = << >>
    <3>1. w \o z = z
      BY <2>2, <2>4, ConcatEmptySeq
    <3> QED
      BY <2>2, <2>3, <3>1
  <2>5. CASE w # << >>
    <3>1. Head(w \o z) = Head(w) /\ Head(w) \in StepsIn(K)
      BY <2>1, <2>2, <2>5, StepsAndRest
    <3> QED
      BY <2>3, <3>1 DEF StepsIn
  <2> QED
    BY <2>4, <2>5
<1>5. CASE InDir(r, b, f, s, v)
  <2>1. PICK w \in Seq(StepsIn(DirSteps)) : s = w \o v
    BY <1>5 DEF InDir
  <2>2. CASE v = <<Last(r)>>
    <3> DEFINE last == Last(r)
    <3>1. last.do \in Removals /\ last \in Items /\ last.do # "walk"
      BY <1>2, LastIsItem, DoItem DEF Requests, Last, Removals, Steps
    <3>2. CASE w = << >>
      <4>1. s = <<last>>
        BY <1>1, <2>1, <2>2, <3>2, ConcatEmptySeq
      <4>2. \A z \in Moved(r, b) : Arrived(r, b, f, z)
        BY <1>5, <2>2, <3>1 DEF InDir, ArrivedBut, Awaits
      <4> HIDE DEF last
      <4>3. s \in Seq(StepsIn(Removals))
        BY <3>1, <4>1 DEF StepsIn
      <4> QED
        BY <1>2, <4>1, <4>2, <4>3 DEF Leaving, last
    <3>3. CASE w # << >>
      <4>1. Head(w \o v) = Head(w) /\ Head(w) \in StepsIn(DirSteps)
        <5>1. StepsIn(DirSteps) \subseteq Items
          BY DEF StepsIn
        <5> QED
          BY <1>1, <3>3, <5>1, StepsAndRest
      <4> QED
        BY <1>3, <2>1, <4>1 DEF StepsIn, DirSteps, Leftovers
    <3> QED
      BY <3>2, <3>3
  <2>3. CASE \E it \in StepsIn({"walk"}) : v = <<it, Last(r)>>
    <3>1. PICK it \in StepsIn({"walk"}) : v = <<it, Last(r)>>
      BY <2>3
    <3> DEFINE last == Last(r)
               y == <<last>>
    <3>2. it \in Items /\ it.do = "walk" /\ last \in Items /\ y \in Seq(Items)
      BY <1>2, LastIsItem DEF StepsIn
    <3>3. v = <<it>> \o y
      BY <3>1, <3>2, PairOf
    <3> HIDE DEF y
    <3>4. Head(s).do \in DirSteps \/ Head(s) = it
      BY <1>4, <2>1, <3>2, <3>3
    <3> QED
      BY <1>3, <3>2, <3>4 DEF DirSteps, Leftovers
  <2> QED
    BY <1>1, <2>2, <2>3 DEF Coming
<1>6. CASE AtEntry(r, b, f, s, v)
  <2>1. PICK it \in StepsIn({"copy_entry"}) : s = <<it>> \o v
    BY <1>6 DEF AtEntry
  <2>2. it \in Items /\ it.do = "copy_entry" /\ Head(<<it>> \o v) = it
    BY <1>1, StepAndRest DEF StepsIn
  <2> QED
    BY <1>3, <2>1, <2>2
<1>7. CASE InFile(r, b, f, files, s, v)
  <2>1. PICK h \in Places, g \in Places :
              \/ AtOpening(s, v, h, g)
              \/ AtCreation(b, files, s, v, h, g)
              \/ AtFirstBytes(b, f, files, s, v, h, g)
              \/ AtLastBytes(b, f, files, s, v, h, g)
    BY <1>7 DEF InFile
  <2>2. CASE AtOpening(s, v, h, g)
    <3>1. PICK w \in Seq(StepsIn(Checks)), w2 \in Seq(StepsIn(Checks)), y \in FirstBytes(h, g, v) :
              s = w \o (<<Do("open", h)>> \o (w2 \o (<<Do("create_file", g)>> \o y)))
      BY <2>2 DEF AtOpening
    <3> DEFINE o == Do("open", h)
               c == Do("create_file", g)
               z == w2 \o (<<c>> \o y)
    <3>2. o \in Items /\ o.do = "open" /\ c \in Items /\ y \in Seq(Items)
          /\ StepsIn(Checks) \subseteq Items
      BY <1>1, DoItem, BytesItems DEF Steps, StepsIn
    <3> HIDE DEF o, c
    <3>3. <<c>> \o y \in Seq(Items)
      BY <3>2, StepAndRest
    <3>4. z \in Seq(Items)
      BY <3>2, <3>3, StepsAndRest
    <3>5. s = w \o (<<o>> \o z)
      BY <3>1 DEF o, c
    <3> HIDE DEF z
    <3>6. Head(s).do \in Checks \/ Head(s) = o
      BY <1>4, <3>2, <3>4, <3>5
    <3> QED
      BY <1>3, <3>2, <3>6
  <2>3. CASE AtCreation(b, files, s, v, h, g)
    <3>1. PICK w \in Seq(StepsIn(Checks)), it \in Items, y \in FirstBytes(h, g, v) :
              s = w \o (<<it>> \o y) /\ Creates(b, files, it, h, g)
      BY <2>3 DEF AtCreation
    <3>2. it.do \in Leftovers /\ y \in Seq(Items)
      BY <1>1, <3>1, DoItem, BytesItems DEF Creates, Leftovers, Steps
    <3>3. Head(s).do \in Checks \/ Head(s) = it
      BY <1>4, <3>1, <3>2
    <3> QED
      BY <1>3, <3>2, <3>3
  <2>4. CASE AtFirstBytes(b, f, files, s, v, h, g)
    <3>1. Head(s).do \in {"copy_some", "os_some"}
      BY <1>1, <2>4, BytesItems DEF AtFirstBytes
    <3> QED
      BY <1>3, <3>1 DEF Leftovers
  <2>5. CASE AtLastBytes(b, f, files, s, v, h, g)
    <3>1. Head(s).do \in {"copy_rest", "os_rest"}
      BY <1>1, <2>5, BytesItems DEF AtLastBytes
    <3> QED
      BY <1>3, <3>1 DEF Leftovers
  <2> QED
    BY <2>1, <2>2, <2>3, <2>4, <2>5
<1> QED
  BY <1>1, <1>5, <1>6, <1>7

\* What a move that is dropped leaves to the pool.
LEMMA LeftToThePool ==
    ASSUME NEW r, NEW b, MoveOf(r, b), NEW f, NEW files,
           NEW s \in Seq(Items), s # << >>, Together(s), InThePool(s) # << >>,
           Stands(r, b, f, files, s, TRUE)
    PROVE  Stands(r, b, f, files, InThePool(s), FALSE)
<1> DEFINE left == InThePool(s)
           x == Head(s)
<1>1. /\ x.do \in {"os_copy", "os_some"} \cup Pooled
      /\ x.do \in Leftovers => left \in Seq(StepsIn(Leftovers))
      /\ x.do \in Pooled => left = <<x>>
  BY HandedOver
<1> HIDE DEF left
<1>2. CASE NotBegun(r, b, f, s)
  <2>1. x = Do("absent", r.dest) /\ r.dest \in Places
    BY <1>2, ShapeOfMove DEF NotBegun, MoveOf, Requests
  <2>2. x.do = "absent"
    BY <2>1, DoItem DEF Steps
  <2> QED
    BY <1>1, <2>2 DEF Pooled
<1>3. ASSUME Leaving(r, b, f, s) PROVE Leaving(r, b, f, left)
  <2>1. x \in StepsIn(Removals)
    BY <1>3, HeadTailProperties DEF Leaving
  <2>2. x.do \in Pooled
    BY <1>1, <2>1 DEF StepsIn, Removals
  <2>3. left = <<x>>
    BY <1>1, <2>2
  <2> HIDE DEF x
  <2>4. left \in Seq(StepsIn(Removals))
    BY <2>1, <2>3
  <2> QED
    BY <1>3, <2>4 DEF Leaving
<1>4. CASE Copying(r, b, f, files, s)
  <2>1. CASE x.do \in Leftovers
    BY <1>1, <1>4, <2>1 DEF Copying, Stands, GivenUp, left
  <2>2. CASE Leaving(r, b, f, s)
    BY <1>3, <2>2 DEF Stands, left
  <2> QED
    BY <1>1, <1>4, <2>1, <2>2, HeadOfACopy
<1>5. CASE Renaming(r, b, f, s)
  <2>1. PICK it \in StepsIn(Renames) : s = <<it>>
    BY <1>5 DEF Renaming
  <2>2. x = it /\ it.do \in Renames
    BY <2>1 DEF StepsIn
  <2>3. left = s
    BY <1>1, <2>1, <2>2 DEF Renames, Pooled
  <2> QED
    BY <1>5, <2>3 DEF Stands, left
<1>6. CASE GivenUp(r, b, f, s, TRUE)
  BY <1>6 DEF GivenUp
<1>7. CASE Leaving(r, b, f, s)
  BY <1>3, <1>7 DEF Stands, left
<1> QED
  BY <1>2, <1>4, <1>5, <1>6, <1>7 DEF Stands

-----------------------------------------------------------------------------
(* The invariant of moves, step by step.                                    *)

\* Of the requests in the scripts only the n-th of t may change anything around
\* what r moves.
Lone(t, n, r) ==
    \A u \in Tasks : \A i \in DOMAIN script[u] :
        (u = t /\ i = n) \/ Reach(script[u][i]) \cap Around(r) = {}

\* The moves of the scripts are moves.
LEMMA AskedMoves ==
    ASSUME script \in Scripts, before \in Trees,
           NEW t \in Tasks, NEW i \in DOMAIN script[t], script[t][i].op \in MovingOps
    PROVE  MoveOf(script[t][i], before)
<1> DEFINE r == script[t][i]
<1>1. r \in Requests
  BY ScriptsAssumption, ElementOfSeq
<1>2. r.op \in CopyingOps /\ Named(r.path) = Os(r.path) /\ Named(r.dest) = Os(r.dest)
  BY <1>1, MovePaths
<1>3. /\ \A x \in Paths : Below(x, Os(r.path)) => Target(r, x) \in Paths
      /\ Below(Os(r.dest), Os(r.path)) => Os(r.dest) = Os(r.path)
  BY <1>2, MovesAssumption DEF Target
<1>4. before \in Maps /\ IsTree(before)
  BY TreesAssumption
<1> QED
  BY <1>1, <1>3, <1>4 DEF MoveOf

\* What is around a move is what it may change.
LEMMA AroundIsReached ==
    ASSUME NEW r \in Requests, r.op \in MovingOps
    PROVE  Reach(r) = Around(r) /\ Os(r.path) \in Around(r) /\ Os(r.dest) \in Around(r)
BY MovePaths, BelowItself DEF Around

\* Who is not disturbed at a path is not where the others are.
LEMMA ApartFromOthers ==
    ASSUME NEW t, NEW n, NEW r \in Requests, r.op \in MovingOps,
           \A u \in Tasks : \A i \in DOMAIN script[u] :
               (u = t /\ i = n) \/ \A q \in Reach(script[u][i]) : ~Below(q, Named(r.path)),
           \A u \in Tasks : \A i \in DOMAIN script[u] :
               (u = t /\ i = n) \/ \A q \in Reach(script[u][i]) : ~Below(q, Named(r.dest))
    PROVE  Lone(t, n, r)
BY MovePaths DEF Lone, Around

\* The request of a task is one of its script.
LEMMA LastAsked ==
    ASSUME PInv, NEW t \in Tasks, at[t] > 0
    PROVE  /\ t \in Actors /\ at[t] \in 1 .. at[t] /\ at[t] \in DOMAIN script[t]
           /\ job[t].request = script[t][at[t]] /\ job[t].request \in Requests
           /\ \A u \in Tasks : \A i \in 1 .. at[u] : i \in DOMAIN script[u]
<1>1. \A u \in Tasks : at[u] \in 0 .. Len(script[u]) /\ script[u] \in Seq(Requests)
  BY ScriptsAssumption DEF PInv, TasksAreAsked
<1>2. \A u \in Tasks : \A i \in 1 .. at[u] : i \in DOMAIN script[u]
  BY <1>1
<1>3. at[t] \in 1 .. at[t] /\ job[t].request = script[t][at[t]]
  BY <1>1 DEF PInv, TasksAreAsked
<1>4. script[t][at[t]] \in Requests
  BY <1>1, <1>2, <1>3, ElementOfSeq
<1> QED
  BY <1>2, <1>3, <1>4 DEF Actors

\* An undisturbed move.
LEMMA MovingFacts ==
    ASSUME PInv, NEW t \in Tasks, Moving(t)
    PROVE  LET r == job[t].request IN
           /\ r \in Requests /\ r.op \in MovingOps /\ at[t] > 0
           /\ MoveOf(r, before) /\ Lone(t, at[t], r)
           /\ \A u \in Tasks : \A i \in DOMAIN script[u] :
                 script[u][i] = r => u = t /\ i = at[t]
<1> DEFINE r == job[t].request
<1>1. at[t] > 0 /\ r.op \in MovingOps /\ Alone(t)
  BY DEF Moving
<1>2. r \in Requests /\ r = script[t][at[t]] /\ at[t] \in DOMAIN script[t]
  BY <1>1, LastAsked
<1>3. MoveOf(r, before)
  BY <1>1, <1>2, AskedMoves DEF PInv
<1>4. Lone(t, at[t], r)
  BY <1>1, <1>2, ApartFromOthers DEF Alone, Undisturbed
<1>5. ASSUME NEW u \in Tasks, NEW i \in DOMAIN script[u], script[u][i] = r
      PROVE  u = t /\ i = at[t]
  BY <1>1, <1>2, <1>4, <1>5, AroundIsReached DEF Lone
<1> QED
  BY <1>1, <1>2, <1>3, <1>4, <1>5

\* Who is at it: the task, or else what it has left in the pool.
LEMMA RunnerFacts ==
    ASSUME PInv, NEW t \in Tasks, Moving(t)
    PROVE  LET c == Runner(t) IN
           /\ c \in Actors /\ job[c].request = job[t].request
           /\ c \in Tasks => c = t
           /\ c # t => c = Straggler[t] /\ t \in Async /\ Busy(c) /\ ~Busy(t)
           /\ \A a \in Actors : Busy(a) /\ job[a].request = job[t].request => a = c
<1> DEFINE r == job[t].request
<1>1. \A u \in Tasks : \A i \in DOMAIN script[u] : script[u][i] = r => u = t /\ i = at[t]
  BY MovingFacts
<1>2. \A u \in Tasks : \A i \in 1 .. at[u] : i \in DOMAIN script[u]
  BY LastAsked DEF Moving
<1>3. \A u \in Async : u \in Tasks /\ Straggler[u] \in Actors /\ Straggler[u] \notin Tasks
  BY TasksAssumption DEF Actors
<1>4. t \in Actors /\ at[t] \in Nat
  BY DEF Actors, PInv, DiskTypeOK
<1>5. ASSUME NEW u \in Async, Busy(Straggler[u]), job[Straggler[u]].request = r
      PROVE  u = t /\ ~Busy(t)
  <2>1. PICK i \in 1 .. at[u] : script[u][i] = r /\ (Busy(u) => i < at[u])
    BY <1>5 DEF PInv, StragglersAreAsked
  <2>2. u = t /\ i = at[t]
    BY <1>1, <1>2, <1>3, <2>1
  <2> QED
    BY <1>4, <2>1, <2>2
<1>6. ASSUME NEW a \in Actors, Busy(a), job[a].request = r
      PROVE  a = Runner(t)
  <2>1. CASE a \in Tasks
    <3>1. at[a] > 0
      BY <1>6, <2>1 DEF PInv, TasksAreAsked
    <3>2. a = t
      BY <1>1, <1>6, <2>1, <3>1, LastAsked
    <3> QED
      BY <1>5, <1>6, <3>2 DEF Runner
  <2>2. CASE a \notin Tasks
    <3>1. PICK u \in Async : a = Straggler[u]
      BY <2>2 DEF Actors
    <3>2. u = t
      BY <1>5, <1>6, <3>1
    <3> QED
      BY <1>6, <3>1, <3>2 DEF Runner
  <2> QED
    BY <2>1, <2>2
<1> QED
  BY <1>3, <1>4, <1>5, <1>6 DEF Runner

\* Whoever is at another request keeps away from it.
LEMMA OthersKeepAway ==
    ASSUME PInv, NEW t \in Tasks, Moving(t), NEW a \in Actors, Busy(a),
           job[a].request # job[t].request
    PROVE  Reach(job[a].request) \cap Around(job[t].request) = {}
<1>1. PICK u \in Tasks : \E i \in 1 .. at[u] : script[u][i] = job[a].request
  BY BusyIsAsked
<1>2. PICK i \in 1 .. at[u] : script[u][i] = job[a].request
  BY <1>1
<1>3. i \in DOMAIN script[u]
  BY LastAsked DEF Moving
<1>4. at[t] > 0 /\ job[t].request = script[t][at[t]]
  BY LastAsked DEF Moving
<1>5. ~(u = t /\ i = at[t])
  BY <1>2, <1>4
<1> QED
  BY <1>2, <1>3, <1>5, MovingFacts DEF Lone

\* Whatever changes is where one of the requests begun may change something.
LEMMA StepKeepsBounds ==
    ASSUME MInv, NEW a \in Actors, Step(a)
    PROVE  Untouched' /\ Owned'
<1> DEFINE r == job[a].request
<1>1. /\ Acting(a) /\ WorldStep(a) /\ FilesStay(a)
      /\ script' = script /\ at' = at /\ before' = before
  BY KnownStep DEF MInv, WorldStep
<1>2. /\ Makes(r) \subseteq Reach(r) /\ Changed(a) \subseteq Reach(r) /\ Reach(r) \subseteq Paths
  BY <1>1, WorldTypes
<1>3. PICK u \in Tasks : \E i \in 1 .. at[u] : script[u][i] = r
  BY <1>1, BusyIsAsked DEF Acting, MInv
<1>4. PICK i \in 1 .. at[u] : script[u][i] = r
  BY <1>3
<1>5. ASSUME NEW x \in Paths, disk'[x] # before[x]
      PROVE  \E v \in Tasks : \E j \in 1 .. at[v] : x \in Reach(script[v][j])
  <2>1. CASE x \in Reach(r)
    BY <1>4, <2>1
  <2>2. CASE x \notin Reach(r) /\ disk'[x] = disk[x]
    BY <1>5, <2>2 DEF MInv, Untouched
  <2>3. CASE x \notin Reach(r) /\ disk'[x] # disk[x]
    <3>1. hold[a].dst.open /\ hold[a].dst.path = x
      BY <1>1, <1>2, <2>3 DEF WorldStep
    <3> QED
      BY <3>1 DEF MInv, Owned
  <2> QED
    BY <2>1, <2>2, <2>3
<1>6. ASSUME NEW c \in Actors, hold'[c].dst.open
      PROVE  \E v \in Tasks : \E j \in 1 .. at[v] : hold'[c].dst.path \in Reach(script[v][j])
  <2>1. CASE hold[c].dst.open /\ hold'[c].dst.path = hold[c].dst.path
    BY <2>1 DEF MInv, Owned
  <2>2. CASE hold'[c].dst.path \in Makes(r)
    BY <1>2, <1>4, <2>2
  <2> QED
    BY <1>1, <1>6, <2>1, <2>2 DEF FilesStay
<1> QED
  BY <1>1, <1>5, <1>6 DEF Untouched, Owned

\* A step of a call leaves the other moves alone, and so do the files it opens.
LEMMA StepKeepsHandles ==
    ASSUME MInv, NEW a \in Actors, Step(a), NEW t \in Tasks, Moving(t)
    PROVE  HandlesApart(t)'
<1> DEFINE r == job[t].request
           q == job[a].request
<1>1. /\ Acting(a) /\ Busy(a) /\ JobStep(a) /\ FilesStay(a)
  BY KnownStep DEF MInv, WorldStep, Acting
<1>2. \A c \in Actors : job'[c].request = job[c].request
  BY <1>1 DEF JobStep
<1>3. Makes(q) \subseteq Reach(q)
  BY <1>1, WorldTypes
<1>4. r \in Requests /\ r.op \in MovingOps
  BY MovingFacts DEF MInv
<1>5. Makes(r) = {x \in Paths : Below(x, Os(r.dest))} /\ Reach(r) = Around(r)
  BY <1>4, MovePaths
<1>6. HandlesApart(t)
  BY DEF MInv
<1>7. ASSUME NEW c \in Actors, hold'[c].dst.open, hold'[c].dst.path \in Around(r)
      PROVE  job[c].request = r /\ Below(hold'[c].dst.path, Os(r.dest))
  <2>1. CASE hold[c].dst.open /\ hold'[c].dst.path = hold[c].dst.path
    BY <1>6, <1>7, <2>1 DEF HandlesApart
  <2>2. CASE /\ hold'[c].dst.path \in Makes(q)
             /\ c = a \/ (hold[c].dst.open /\ hold[c].dst.path \in Reach(q))
    <3>1. q = r
      <4> SUFFICES ASSUME q # r PROVE FALSE
        OBVIOUS
      <4>1. Reach(q) \cap Around(r) = {}
        BY <1>1, OthersKeepAway DEF MInv
      <4> QED
        BY <1>3, <1>7, <2>2, <4>1
    <3>2. Below(hold'[c].dst.path, Os(r.dest))
      BY <1>5, <2>2, <3>1
    <3>3. job[c].request = r
      BY <1>5, <1>6, <2>2, <3>1 DEF HandlesApart
    <3> QED
      BY <3>2, <3>3
  <2> QED
    BY <1>1, <1>7, <2>1, <2>2 DEF FilesStay
<1>8. t \in Actors /\ job'[t].request = r
  BY <1>2 DEF Actors
<1> QED
  BY <1>2, <1>7, <1>8 DEF HandlesApart

\* A step of the move itself.
LEMMA RunnerKeepsMove ==
    ASSUME MInv, NEW a \in Actors, Step(a), NEW t \in Tasks, Moving(t),
           job[a].request = job[t].request
    PROVE  MoveOK(t)'
<1> DEFINE r == job[t].request
           b == before
<1>1. /\ Acting(a) /\ Busy(a) /\ JobStep(a) /\ WorldStep(a) /\ before' = b
  BY KnownStep DEF MInv, Acting
<1>2. /\ \A c \in Actors : job'[c].request = job[c].request
      /\ \A c \in Actors \ {a} : job'[c] = job[c]
  BY <1>1 DEF JobStep
<1>3. /\ a = Runner(t) /\ (a \in Tasks => a = t)
      /\ a # t => a = Straggler[t] /\ t \in Async /\ ~Busy(t)
  BY <1>1, RunnerFacts DEF MInv
<1>4. MoveOf(r, b)
  BY MovingFacts DEF MInv
<1>5. HandlesApart(t) /\ MoveOK(t)
  BY DEF MInv
<1>6. OwnStep(a, r, b)
  BY <1>1, <1>4, <1>5 DEF OwnStep, HandlesApart
<1>7. t \in Actors /\ \A u \in Async : Straggler[u] \in Actors /\ Straggler[u] \notin Tasks
  BY TasksAssumption DEF Actors
<1> SUFFICES ASSUME Moved(r, b) # {}
             PROVE  LET c == Runner(t)' IN
                    Stands(r, b, disk', hold'[c], job'[c].agenda, c \in Tasks)
  BY <1>1, <1>2, <1>7 DEF MoveOK
<1>8. Stands(r, b, disk', hold'[a], job'[a].agenda, a \in Tasks)
  BY <1>3, <1>5, <1>6, OwnStepOK DEF MoveOK
<1>9. CASE a = t
  <2>1. t \in Async => job'[Straggler[t]] = job[Straggler[t]]
    BY <1>2, <1>7, <1>9
  <2>2. Runner(t)' = t
    BY <1>2, <1>3, <1>7, <1>9, <2>1 DEF Runner, Busy
  <2> QED
    BY <1>8, <1>9, <2>2
<1>10. CASE a # t /\ Busy(a)'
  <2>1. Runner(t)' = a
    BY <1>2, <1>3, <1>7, <1>10 DEF Runner
  <2> QED
    BY <1>8, <2>1
<1>11. CASE a # t /\ ~Busy(a)'
  <2>1. Runner(t)' = t
    BY <1>3, <1>11 DEF Runner
  <2>2. job'[t].agenda = << >>
    BY <1>2, <1>3, <1>7, <1>11 DEF Busy
  <2>3. Stands(r, b, disk', hold'[t], << >>, t \in Tasks)
    BY <1>8, StopsAnywhere
  <2> QED
    BY <2>1, <2>2, <2>3
<1> QED
  BY <1>9, <1>10, <1>11

\* A step of another call.
LEMMA OthersKeepMove ==
    ASSUME MInv, NEW a \in Actors, Step(a), NEW t \in Tasks, Moving(t),
           job[a].request # job[t].request
    PROVE  MoveOK(t)'
<1> DEFINE r == job[t].request
           b == before
           q == job[a].request
           c == Runner(t)
<1>1. /\ Acting(a) /\ Busy(a) /\ JobStep(a) /\ WorldStep(a) /\ FilesStay(a) /\ before' = b
  BY KnownStep DEF MInv, Acting, WorldStep
<1>2. /\ \A d \in Actors : job'[d].request = job[d].request
      /\ \A d \in Actors \ {a} : job'[d] = job[d]
  BY <1>1 DEF JobStep
<1>3. c \in Actors /\ c # a
  BY RunnerFacts DEF MInv
<1>4. MoveOf(r, b)
  BY MovingFacts DEF MInv
<1>5. HandlesApart(t) /\ MoveOK(t)
  BY DEF MInv
<1>6. Reach(q) \cap Around(r) = {}
  BY <1>1, OthersKeepAway DEF MInv
<1>7. t \in Actors /\ \A u \in Async : Straggler[u] \in Actors
  BY DEF Actors
<1>8. Changed(a) \subseteq Reach(q)
  BY <1>1, WorldTypes
<1>9. ASSUME NEW x \in Around(r) PROVE disk'[x] = disk[x]
  <2>1. x \in Paths \ Changed(a)
    BY <1>6, <1>8 DEF Around
  <2>2. ~(hold[a].dst.open /\ hold[a].dst.path = x)
    BY <1>5 DEF HandlesApart
  <2> QED
    BY <1>1, <2>1, <2>2 DEF WorldStep
<1>10. /\ hold[c].src.path \in Around(r) => hold'[c].src = hold[c].src
       /\ hold[c].dst.path \in Around(r) => hold'[c].dst = hold[c].dst
  BY <1>1, <1>3, <1>6 DEF FilesStay
<1>11. Runner(t)' = c
  <2>1. CASE t \in Async /\ Straggler[t] = a
    BY <1>2, <1>7, <2>1 DEF Runner
  <2>2. CASE t \in Async /\ Straggler[t] # a
    BY <1>2, <1>7, <2>2 DEF Runner, Busy
  <2>3. CASE t \notin Async
    BY <2>3 DEF Runner
  <2> QED
    BY <2>1, <2>2, <2>3
<1>12. job'[c].agenda = job[c].agenda
  BY <1>2, <1>3
<1>13. ASSUME Moved(r, b) # {}
       PROVE  Stands(r, b, disk', hold'[c], job'[c].agenda, c \in Tasks)
  <2>1. Stands(r, b, disk, hold[c], job[c].agenda, c \in Tasks)
    BY <1>5, <1>13 DEF MoveOK
  <2> HIDE DEF c, r
  <2>2. Stands(r, b, disk', hold'[c], job[c].agenda, c \in Tasks)
    BY <1>4, <1>9, <1>10, <2>1, StaysWhereItIs
  <2> QED
    BY <1>12, <2>2
<1> QED
  BY <1>1, <1>2, <1>7, <1>11, <1>13 DEF MoveOK

LEMMA StepKeepsMoves ==
    ASSUME MInv, NEW a \in Actors, Step(a)
    PROVE  MInv'
<1>1. JobStep(a) /\ script' = script /\ at' = at
  BY KnownStep DEF MInv
<1>2. \A t \in Tasks : job'[t].request = job[t].request
  BY <1>1 DEF JobStep, Actors
<1>3. \A t \in Tasks : Moving(t)' => Moving(t)
  BY <1>1, <1>2 DEF Moving, Alone, Undisturbed
<1>4. \A t \in Tasks : Moving(t)' => HandlesApart(t)' /\ MoveOK(t)'
  BY <1>3, StepKeepsHandles, RunnerKeepsMove, OthersKeepMove
<1> QED
  BY <1>4, StepKeepsInv, StepKeepsBounds DEF MInv

\* A move begins with everything around it as it was at the start.
LEMMA StartKeepsMoves ==
    ASSUME MInv, NEW t \in Tasks, Start(t)
    PROVE  MInv'
<1> DEFINE n == at[t] + 1
           r == script[t][n]
           j == Job(r, StepsOf(r))
<1>1. /\ ~Busy(t) /\ at[t] < Len(script[t])
      /\ at' = [at EXCEPT ![t] = n]
      /\ hold' = [hold EXCEPT ![t] = NoFiles]
      /\ job' = [job EXCEPT ![t] = j]
      /\ UNCHANGED <<disk, script, died, before>>
  BY DEF Start
<1>2. /\ t \in Actors /\ script[t] \in Seq(Requests) /\ at \in [Tasks -> Nat]
      /\ job \in [Actors -> Jobs] /\ hold \in Held /\ script \in Scripts /\ before \in Trees
  BY ScriptsAssumption DEF MInv, PInv, DiskTypeOK, Jobs, Held, Actors
<1>3. /\ n \in DOMAIN script[t] /\ n \in Nat /\ at[t] \in Nat /\ n > at[t]
      /\ \A i \in 1 .. at[t] : i # n
  BY <1>1, <1>2
<1>4. r \in Requests
  BY <1>2, <1>3, ElementOfSeq
<1>5. j.request = r /\ j.agenda = StepsOf(r)
  BY DEF Job
<1> HIDE DEF j
<1>6. /\ at'[t] = n /\ \A u \in Tasks \ {t} : at'[u] = at[u]
      /\ hold'[t] = NoFiles /\ \A c \in Actors \ {t} : hold'[c] = hold[c]
      /\ job'[t] = j /\ \A c \in Actors \ {t} : job'[c] = job[c]
  <2> HIDE DEF n
  <2>1. at'[t] = n /\ \A u \in Tasks \ {t} : at'[u] = at[u]
    BY <1>1, <1>2
  <2>2. job'[t] = j /\ \A c \in Actors \ {t} : job'[c] = job[c]
    BY <1>1, <1>2
  <2> HIDE DEF NoFiles
  <2>3. hold'[t] = NoFiles /\ \A c \in Actors \ {t} : hold'[c] = hold[c]
    BY <1>1, <1>2 DEF Held
  <2> QED
    BY <2>1, <2>2, <2>3
<1> HIDE DEF n, r
<1>7. \A u \in Tasks : \A i \in 1 .. at[u] : i \in 1 .. at'[u]
  BY <1>2, <1>3, <1>6
<1>8. Untouched'
  BY <1>1, <1>7 DEF MInv, Untouched
<1>9. ~hold'[t].dst.open
  BY <1>6, IdleTypes
<1>10. Owned'
  <2>1. ASSUME NEW c \in Actors, hold'[c].dst.open
        PROVE  \E u \in Tasks : \E i \in 1 .. at'[u] : hold'[c].dst.path \in Reach(script[u][i])
    <3>1. hold'[c] = hold[c]
      BY <1>6, <1>9, <2>1
    <3> QED
      BY <1>7, <2>1, <3>1 DEF MInv, Owned
  <2> QED
    BY <1>1, <2>1 DEF Owned
<1>11. \A u \in Async : u \in Tasks /\ Straggler[u] \in Actors /\ Straggler[u] # t
  BY TasksAssumption DEF Actors
<1>12. ASSUME NEW u \in Tasks \ {t}, Moving(u)' PROVE HandlesApart(u)' /\ MoveOK(u)'
  <2>1. u \in Actors \ {t} /\ job'[u] = job[u] /\ at'[u] = at[u]
    BY <1>6 DEF Actors
  <2>2. Moving(u)
    BY <1>1, <1>12, <2>1 DEF Moving, Alone, Undisturbed
  <2>3. HandlesApart(u) /\ MoveOK(u)
    BY <2>2 DEF MInv
  <2>4. HandlesApart(u)'
    <3>1. ASSUME NEW c \in Actors, hold'[c].dst.open
          PROVE  hold'[c] = hold[c] /\ job'[c] = job[c]
      BY <1>6, <1>9, <3>1
    <3> QED
      BY <2>1, <2>3, <3>1 DEF HandlesApart
  <2>5. Runner(u) \in Actors \ {t} /\ Runner(u)' = Runner(u)
    BY <1>6, <1>11, <2>1 DEF Runner, Busy
  <2>6. hold'[Runner(u)] = hold[Runner(u)] /\ job'[Runner(u)] = job[Runner(u)]
    BY <1>6, <2>5
  <2> QED
    BY <1>1, <2>1, <2>3, <2>4, <2>5, <2>6 DEF MoveOK
<1>13. ASSUME Moving(t)' PROVE HandlesApart(t)' /\ MoveOK(t)'
  <2>1. r.op \in MovingOps /\ job'[t].request = r
    BY <1>5, <1>6, <1>13 DEF Moving
  <2>2. MoveOf(r, before)
    BY <1>2, <1>3, <2>1, AskedMoves DEF r
  <2>3. Lone(t, n, r)
    <3>1. /\ \A u \in Tasks : \A i \in DOMAIN script[u] :
                (u = t /\ i = n) \/ \A q \in Reach(script[u][i]) : ~Below(q, Named(r.path))
          /\ \A u \in Tasks : \A i \in DOMAIN script[u] :
                (u = t /\ i = n) \/ \A q \in Reach(script[u][i]) : ~Below(q, Named(r.dest))
      BY <1>1, <1>6, <1>13, <2>1 DEF Moving, Alone, Undisturbed
    <3> QED
      BY <1>4, <2>1, <3>1, ApartFromOthers
  <2>4. \A u \in Tasks : \A i \in 1 .. at[u] :
            i \in DOMAIN script[u] /\ ~(u = t /\ i = n)
    <3>1. \A u \in Tasks : at[u] \in 0 .. Len(script[u]) /\ script[u] \in Seq(Requests)
      BY ScriptsAssumption DEF MInv, PInv, TasksAreAsked
    <3> QED
      BY <1>3, <3>1
  <2>5. \A u \in Tasks : \A i \in 1 .. at[u] : Reach(script[u][i]) \cap Around(r) = {}
    BY <2>3, <2>4 DEF Lone
  <2>6. Os(r.path) \in Around(r) /\ Os(r.dest) \in Around(r) /\ Reach(r) = Around(r)
    BY <1>4, <2>1, AroundIsReached
  <2>7. \A x \in Around(r) : disk[x] = before[x]
    BY <2>5 DEF MInv, Untouched, Around
  <2>8. HandlesApart(t)'
    <3>1. ASSUME NEW c \in Actors, hold'[c].dst.open PROVE hold'[c].dst.path \notin Around(r)
      <4>1. hold'[c] = hold[c]
        BY <1>6, <1>9, <3>1
      <4> QED
        BY <2>5, <3>1, <4>1 DEF MInv, Owned
    <3> QED
      BY <2>1, <3>1 DEF HandlesApart
  <2>9. Runner(t)' = t
    <3>1. ASSUME t \in Async, Busy(Straggler[t]), job[Straggler[t]].request = r PROVE FALSE
      BY <2>5, <2>6, <3>1 DEF MInv, PInv, StragglersAreAsked
    <3> QED
      BY <1>6, <1>11, <2>1, <3>1 DEF Runner, Busy
  <2>10. NotBegun(r, before, disk, StepsOf(r))
    BY <2>6, <2>7 DEF NotBegun, Unmoved, Around
  <2>11. Stands(r, before, disk, hold'[t], StepsOf(r), t \in Tasks)
    BY <2>10 DEF Stands
  <2> QED
    BY <1>1, <1>5, <1>6, <2>1, <2>8, <2>9, <2>11 DEF MoveOK
<1> QED
  BY <1>8, <1>10, <1>12, <1>13, StartKeepsInv DEF MInv

\* A move that is dropped stops, or goes on in the pool with the files it has
\* open.
LEMMA CancelKeepsMoves ==
    ASSUME MInv, NEW t \in Tasks, Cancel(t)
    PROVE  MInv'
<1> DEFINE x == Straggler[t]
           q == job[t].request
           left == InThePool(job[t].agenda)
           j == Job(q, left)
<1>1. /\ t \in Async /\ Busy(t) /\ UNCHANGED <<disk, script, at, died, before>>
      /\ \/ /\ job' = [job EXCEPT ![t].agenda = << >>, ![t].end = "dropped"]
            /\ UNCHANGED hold
         \/ /\ job' = [[job EXCEPT ![t].agenda = << >>, ![t].end = "dropped"] EXCEPT ![x] = j]
            /\ hold' = [hold EXCEPT ![x] = hold[t]]
            /\ ~Busy(x) /\ left # << >>
  BY DEF Cancel
<1>2. /\ t \in Actors /\ x \in Actors /\ x \notin Tasks /\ x # t
      /\ job \in [Actors -> Jobs] /\ hold \in Held
  BY <1>1, TasksAssumption DEF MInv, PInv, DiskTypeOK, Jobs, Held, Actors
<1>3. j.request = q /\ j.agenda = left
  BY DEF Job
<1> HIDE DEF q, left, j, x
<1>4. /\ job'[t].agenda = << >> /\ job'[t].request = q
      /\ \A c \in Actors \ {t, x} : job'[c] = job[c]
      /\ \A c \in Actors \ {x} : hold'[c] = hold[c]
      /\ \/ job'[x] = job[x] /\ hold'[x] = hold[x]
         \/ job'[x] = j /\ hold'[x] = hold[t] /\ ~Busy(x) /\ left # << >>
  <2>1. job[t] \in Jobs /\ job[t].request = q
    BY <1>2 DEF q
  <2> DEFINE d == [job[t] EXCEPT !.agenda = << >>, !.end = "dropped"]
  <2>2. d.agenda = << >> /\ d.request = q
    BY <2>1 DEF Jobs
  <2>3. [job EXCEPT ![t].agenda = << >>, ![t].end = "dropped"] = [job EXCEPT ![t] = d]
    BY <1>2
  <2> HIDE DEF d
  <2>4. CASE job' = [job EXCEPT ![t] = d] /\ hold' = hold
    BY <1>2, <2>2, <2>4
  <2>5. CASE job' = [[job EXCEPT ![t] = d] EXCEPT ![x] = j] /\ hold' = [hold EXCEPT ![x] = hold[t]]
             /\ ~Busy(x) /\ left # << >>
    <3>1. hold'[x] = hold[t] /\ \A c \in Actors \ {x} : hold'[c] = hold[c]
      BY <1>2, <2>5 DEF Held
    <3> QED
      BY <1>2, <2>2, <2>5, <3>1
  <2> QED
    BY <1>1, <2>3, <2>4, <2>5
<1>5. /\ \A u \in Tasks : u \in Actors \ {x} /\ job'[u].request = job[u].request
      /\ \A u \in Tasks \ {t} : u \in Actors \ {t, x}
      /\ \A u \in Async \ {t} : Straggler[u] \in Actors \ {t, x}
  <2>1. \A u \in Tasks : u \in Actors \ {x}
    BY <1>2 DEF Actors
  <2>2. \A u \in Async \ {t} : Straggler[u] \in Actors \ {t, x}
    BY <1>1, TasksAssumption DEF Actors, x
  <2> QED
    BY <1>4, <2>1, <2>2 DEF q
<1>6. Untouched'
  BY <1>1 DEF MInv, Untouched
<1>7. Owned'
  <2>1. \A c \in Actors : \E d \in Actors : hold'[c] = hold[d]
    BY <1>2, <1>4
  <2>2. ASSUME NEW c \in Actors, hold'[c].dst.open
        PROVE  \E u \in Tasks : \E i \in 1 .. at[u] : hold'[c].dst.path \in Reach(script[u][i])
    <3>1. PICK d \in Actors : hold'[c] = hold[d]
      BY <2>1
    <3> QED
      BY <2>2, <3>1 DEF MInv, Owned
  <2> QED
    BY <1>1, <2>2 DEF Owned
<1>8. ASSUME NEW u \in Tasks, Moving(u)' PROVE HandlesApart(u)' /\ MoveOK(u)'
  <2> DEFINE r == job[u].request
  <2>1. Moving(u)
    BY <1>1, <1>5, <1>8 DEF Moving, Alone, Undisturbed
  <2>2. HandlesApart(u) /\ MoveOK(u)
    BY <2>1 DEF MInv
  <2>3. HandlesApart(u)'
    <3>1. ASSUME NEW c \in Actors
          PROVE  \E d \in Actors : hold'[c] = hold[d] /\ job'[c].request = job[d].request
      <4>1. CASE c = t
        BY <1>2, <1>4, <4>1 DEF q
      <4>2. CASE c = x
        BY <1>2, <1>3, <1>4, <4>2 DEF q
      <4>3. CASE c \notin {t, x}
        BY <1>4, <4>3
      <4> QED
        BY <4>1, <4>2, <4>3
    <3>2. ASSUME NEW c \in Actors, hold'[c].dst.open, hold'[c].dst.path \in Around(r)
          PROVE  job'[c].request = r /\ Below(hold'[c].dst.path, Os(r.dest))
      <4>1. PICK d \in Actors : hold'[c] = hold[d] /\ job'[c].request = job[d].request
        BY <3>1
      <4> QED
        BY <2>2, <3>2, <4>1 DEF HandlesApart
    <3> QED
      BY <1>5, <3>2 DEF HandlesApart
  <2>4. CASE u # t
    <3>1. Runner(u) \in Actors \ {t, x} /\ Runner(u)' = Runner(u)
      BY <1>4, <1>5, <2>4 DEF Runner, Busy
    <3>2. hold'[Runner(u)] = hold[Runner(u)] /\ job'[Runner(u)] = job[Runner(u)]
      BY <1>4, <3>1
    <3> QED
      BY <1>1, <1>5, <2>2, <2>3, <3>1, <3>2 DEF MoveOK
  <2>5. CASE u = t
    <3>1. Runner(t) = t /\ ~(Busy(x) /\ job[x].request = q)
      BY <1>1, <1>2, <2>1, <2>5, RunnerFacts DEF MInv, q
    <3>2. MoveOf(q, before)
      BY <2>1, <2>5, MovingFacts DEF MInv, q
    <3>3. ASSUME Moved(q, before) # {}
          PROVE  Stands(q, before, disk, hold[t], job[t].agenda, TRUE)
      BY <2>2, <2>5, <3>1, <3>3 DEF MoveOK, q
    <3>4. CASE job'[x] = job[x] /\ hold'[x] = hold[x]
      <4>1. Runner(t)' = t
        BY <1>1, <1>4, <3>1, <3>4 DEF Runner, Busy, x
      <4>2. ASSUME Moved(q, before) # {}
            PROVE  Stands(q, before, disk, hold'[t], << >>, t \in Tasks)
        BY <3>3, <4>2, StopsAnywhere
      <4> QED
        BY <1>1, <1>4, <2>3, <2>5, <4>1, <4>2 DEF MoveOK
    <3>5. CASE job'[x] = j /\ hold'[x] = hold[t] /\ left # << >>
      <4>1. Runner(t)' = x
        BY <1>1, <1>3, <1>4, <3>5 DEF Runner, Busy, x
      <4>2. /\ job[t].agenda \in Seq(Items) /\ job[t].agenda # << >>
            /\ Together(job[t].agenda)
        BY <1>1, <1>2, FittingAreItems DEF MInv, PInv, AgendasOK, AgendaOK, Busy
      <4>3. ASSUME Moved(q, before) # {}
            PROVE  Stands(q, before, disk, hold[t], left, FALSE)
        BY <3>2, <3>3, <3>5, <4>2, <4>3, LeftToThePool DEF left
      <4>4. (x \in Tasks) = FALSE
        BY <1>2
      <4> QED
        BY <1>1, <1>3, <1>4, <2>3, <2>5, <3>5, <4>1, <4>3, <4>4 DEF MoveOK
    <3> QED
      BY <1>4, <2>5, <3>4, <3>5
  <2> QED
    BY <2>4, <2>5
<1> QED
  BY <1>6, <1>7, <1>8, CancelKeepsInv DEF MInv

LEMMA DieKeepsMoves ==
    ASSUME MInv, Die
    PROVE  MInv'
<1>1. /\ UNCHANGED <<disk, script, at, before>>
      /\ \A a \in Actors : job'[a].request = job[a].request /\ job'[a].agenda = << >>
      /\ \A a \in Actors : ~hold'[a].dst.open
  <2>1. /\ job \in [Actors -> Jobs]
        /\ hold' = [a \in Actors |-> NoFiles]
        /\ job' = [a \in Actors |->
                     IF Busy(a) THEN [job[a] EXCEPT !.agenda = << >>, !.end = "dropped"] ELSE job[a]]
    BY DEF MInv, PInv, DiskTypeOK, Jobs, Die
  <2>2. \A a \in Actors : job'[a].request = job[a].request /\ job'[a].agenda = << >>
    BY <2>1 DEF Jobs, Busy
  <2>3. \A a \in Actors : hold'[a] = NoFiles
    BY <2>1
  <2> QED
    BY <2>2, <2>3, IdleTypes DEF Die
<1>2. Untouched' /\ Owned'
  BY <1>1 DEF MInv, Untouched, Owned
<1>3. ASSUME NEW t \in Tasks, Moving(t)' PROVE HandlesApart(t)' /\ MoveOK(t)'
  <2>1. t \in Actors /\ \A u \in Async : Straggler[u] \in Actors
    BY DEF Actors
  <2>2. Moving(t)
    BY <1>1, <1>3, <2>1 DEF Moving, Alone, Undisturbed
  <2>3. Runner(t)' = t
    BY <1>1, <2>1 DEF Runner, Busy
  <2> DEFINE r == job[t].request
  <2>4. ASSUME Moved(r, before) # {}
        PROVE  Stands(r, before, disk, hold'[t], << >>, t \in Tasks)
    BY <2>2, <2>4, StopsAnywhere DEF MInv, MoveOK
  <2> QED
    BY <1>1, <2>1, <2>3, <2>4 DEF HandlesApart, MoveOK
<1> QED
  BY <1>2, <1>3, DieKeepsInv DEF MInv

LEMMA StutterKeepsMoves == MInv /\ UNCHANGED vars => MInv'
<1> SUFFICES ASSUME MInv, UNCHANGED vars PROVE MInv'
  OBVIOUS
<1>1. UNCHANGED <<disk, hold, script, at, job, died, before>>
  BY DEF vars
<1>2. Untouched' /\ Owned'
  BY <1>1 DEF MInv, Untouched, Owned
<1>3. ASSUME NEW t \in Tasks, Moving(t)' PROVE HandlesApart(t)' /\ MoveOK(t)'
  <2>1. Moving(t) /\ Runner(t)' = Runner(t)
    BY <1>1, <1>3 DEF Moving, Alone, Undisturbed, Runner, Busy
  <2> QED
    BY <1>1, <2>1 DEF MInv, HandlesApart, MoveOK
<1> QED
  BY <1>1, <1>2, <1>3, StutterKeepsInv DEF MInv

LEMMA InitHasMoves == Init => MInv
<1> SUFFICES ASSUME Init PROVE MInv
  OBVIOUS
<1>1. \A a \in Actors : ~hold[a].dst.open
  <2>1. \A a \in Actors : hold[a] = NoFiles
    BY DEF Init
  <2> QED
    BY <2>1, IdleTypes
<1>2. Untouched /\ Owned
  BY <1>1 DEF Init, Untouched, Owned
<1>3. \A t \in Tasks : ~Moving(t)
  BY DEF Init, Moving
<1> QED
  BY <1>2, <1>3, InitHasInv DEF MInv

\* The invariant of moves holds in every state of every run.
THEOREM MInvHolds == Spec => []MInv
<1>1. Init => MInv
  BY InitHasMoves
<1>2. MInv /\ [Next]_vars => MInv'
  <2> SUFFICES ASSUME MInv, [Next]_vars PROVE MInv'
    OBVIOUS
  <2> QED
    BY StepKeepsMoves, StartKeepsMoves, CancelKeepsMoves, DieKeepsMoves, StutterKeepsMoves DEF Next
<1> QED
  BY <1>1, <1>2, PTL DEF Spec

-----------------------------------------------------------------------------
(* What follows from them.                                                  *)

\* The variables are of their types.
THEOREM PhysicalTypes == Spec => []DiskTypeOK
<1>1. PInv => DiskTypeOK
  BY DEF PInv
<1> QED
  BY <1>1, PInvHolds, PTL

\* Whatever the interleaving, a call that is dropped or left in the pool
\* included, no method of a VfsPath on a PhysicalFS or on an altroot in it
\* changes a path that was not named to it: every step of StepsOf ends at a path
\* below PhysRoot \o AltRoot, and below the path the client has named.
THEOREM StaysInItsRoot == Spec => OnlyWhatIsNamed
<1> DEFINE A ==
        \A a \in Actors : job'[a] # job[a] =>
          \A s \in Paths \ Reach(job[a].request) :
              disk'[s] = disk[s] \/ (hold[a].dst.open /\ hold[a].dst.path = s)
<1>1. PInv /\ [Next]_vars => [A]_vars
  <2> SUFFICES ASSUME PInv, Next PROVE A
    OBVIOUS
  <2>1. ASSUME NEW b \in Actors, Step(b) PROVE A
    <3>1. JobStep(b) /\ WorldStep(b) /\ Changed(b) \subseteq Reach(job[b].request)
      BY <2>1, KnownStep, WorldTypes
    <3> QED
      BY <3>1 DEF JobStep, WorldStep
  <2>2. CASE UNCHANGED disk
    BY <2>2
  <2> QED
    BY <2>1, <2>2 DEF Next, Start, Cancel, Die
<1>2. PInv /\ [Next]_vars => [\A a \in Actors : job'[a] # job[a] =>
          \A s \in Paths \ Reach(job[a].request) :
              disk'[s] = disk[s] \/ (hold[a].dst.open /\ hold[a].dst.path = s)]_vars
  BY <1>1
<1> QED
  BY <1>2, PInvHolds, PTL DEF Spec, OnlyWhatIsNamed

\* The unwrap in create_dir panics only when another request, begun before, that
\* removes what this one makes has come between.
THEOREM PanicsAreFromRaces == Spec => []PanicsOnlyWhenRaced
<1>1. PInv => PanicsOnlyWhenRaced
  BY DEF PInv, PanicsAreRaced, PanicsOnlyWhenRaced, Raced
<1> QED
  BY <1>1, PInvHolds, PTL

\* Of any number of tasks and threads that append to one file none erases what
\* another has appended: O_APPEND writes behind what is there, and an open file
\* at that path can only be one that appends.
THEOREM AppendsAreKept == Spec => []AppendedStays
<1>1. PInv => AppendedStays
  <2> SUFFICES ASSUME PInv, NEW t \in Tasks, at[t] > 0, ~Busy(t),
                      job[t].request.op = "append_file",
                      job[t].end = "returned", job[t].answer.code = "Ok",
                      OnlyAppended(Named(job[t].request.path))
               PROVE  LET r == job[t].request
                          p == Named(r.path)
                          content == disk[p].content
                          old == Len(before[p].content)
                      IN /\ SubSeq(content, 1, old) = before[p].content
                         /\ \E i \in old .. Len(content) - Len(r.data) :
                               SubSeq(content, i + 1, i + Len(r.data)) = r.data
    BY DEF AppendedStays, OnlyAppended
  <2> DEFINE r == job[t].request
             p == Named(r.path)
  <2>1. r.path \in Places /\ p = Os(r.path) /\ p \in Paths
    <3>1. r.path \in Places
      BY DEF PInv, DiskTypeOK, Actors, Requests
    <3> QED
      BY <3>1, PlaceFields, OsPaths
  <2>2. IsStart(before[p].content, disk[p].content)
    BY <2>1 DEF PInv, ContentGrows
  <2>3. Holds(disk[p].content, Len(before[p].content), r.data)
    <3>1. \A h : AppendFileSteps(h) # << >> /\ <<Do("write", h)>> # << >>
      BY DEF AppendFileSteps
    <3>2. job[t].agenda = << >>
      BY DEF Busy
    <3> QED
      BY <2>1, <3>1, <3>2 DEF PInv, AppendPhases
  <2> QED
    BY <2>2, <2>3 DEF IsStart, Holds
<1> QED
  BY <1>1, PInvHolds, PTL

\* No call that moves a file or a tree loses one, whether it renames or copies
\* and removes, returns, is dropped, goes on in the pool or dies with the process:
\* as long as no other request is about what it moves or where to, each file is
\* whole at its old place or at its new one at every step.
THEOREM MovedFilesStayOnDisk == Spec => []DiskInv
<1>1. ASSUME MInv PROVE DiskInv
  <2>1. ASSUME NEW t \in Tasks, at[t] > 0, job[t].request.op \in MovingOps, Alone(t),
               NEW z \in Paths, Below(z, Named(job[t].request.path)), IsFile(before, z)
        PROVE  \/ disk[z] = before[z]
               \/ disk[Rebase(z, Named(job[t].request.path), Named(job[t].request.dest))] = before[z]
    <3> DEFINE r == job[t].request
    <3>1. Moving(t)
      BY <2>1 DEF Moving
    <3>2. r \in Requests /\ r.op \in MovingOps
      BY <1>1, <3>1, MovingFacts DEF MInv
    <3>3. Named(r.path) = Os(r.path) /\ Named(r.dest) = Os(r.dest)
      BY <3>2, MovePaths
    <3>4. z \in Moved(r, before) /\ Below(z, Os(r.path))
      BY <2>1, <3>3 DEF Moved
    <3>5. PICK c : Stands(r, before, disk, hold[c], job[c].agenda, c \in Tasks)
      BY <1>1, <3>1, <3>4 DEF MInv, MoveOK
    <3>6. CASE Unmoved(r, before, disk)
      BY <3>4, <3>6 DEF Unmoved
    <3>7. CASE Arrived(r, before, disk, z)
      BY <3>3, <3>7 DEF Arrived, Target
    <3>8. Unmoved(r, before, disk) \/ Arrived(r, before, disk, z)
      BY <3>4, <3>5 DEF Stands, NotBegun, Copying, Renaming, GivenUp, Leaving
    <3> QED
      BY <3>6, <3>7, <3>8
  <2>2. MovedIsOnDisk
    BY <2>1 DEF MovedIsOnDisk
  <2> QED
    BY <1>1, <2>2 DEF DiskInv, MInv, PInv
<1>2. MInv => DiskInv
  BY <1>1
<1> QED
  BY <1>2, MInvHolds, PTL

=============================================================================
