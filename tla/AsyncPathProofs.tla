---------------------------- MODULE AsyncPathProofs ----------------------------
(* Theorems about the methods of AsyncVfsPath on one AsyncMemoryFS, for any    *)
(* tasks, scripts and trees, wherever calls are dropped.                       *)
EXTENDS AsyncVfsPath, FsTreeProofs

-----------------------------------------------------------------------------
(* The inductive invariant.                                                 *)

Looks == {"parent_exists", "parent_is_dir", "ensure_parent", "absent", "open",
          "read_metadata", "exists", "kind", "set_time", "list_empty"}
Makings == {"create_dir", "ensure_dir", "create_file", "append_file", "fill", "drop"}
Removals == {"remove_file", "remove_dir_all", "list", "children", "list_empty"}
Emptyings == {"remove_dir_all", "list", "children"}
Expanding == Emptyings \cup {"walk_dir", "walk", "copy_entry"}

\* Where a request may make something, and where it may remove something.
Makes(r, x) ==
    \/ r.op \in {"create_dir", "write_file", "append_file"} /\ x = r.path
    \/ r.op = "create_dir_all" /\ Below(r.path, x)
    \/ r.op \in CopyingOps /\ Below(x, r.dest)
Clears(r, x) == r.op \in RemovingOps /\ Below(x, r.path)

\* What a step of a walk has yet to look at.
Ahead(it) == it.left \cup it.held \cup {it.todo[i] : i \in DOMAIN it.todo}

\* The step is one of request r's.
Inside(r, it) ==
    /\ it.do \in Makings => Makes(r, it.path)
    /\ it.do = "append_file" => r.op = "append_file"
    /\ it.do = "ensure_dir" => r.op = "create_dir_all"
    /\ it.do \in Emptyings => r.op \in {"remove_dir_all", "move_dir"}
    /\ it.do \in Removals =>
          /\ r.op \in RemovingOps
          /\ Below(it.path, r.path)
          /\ \A c \in it.left : Below(c, r.path)
    /\ it.do \in {"walk_dir", "walk"} /\ r.op # "walk_dir" =>
          /\ r.op \in {"copy_dir", "move_dir"}
          /\ it.path = r.path /\ it.dest = r.dest
          /\ \A c \in Ahead(it) : Below(c, r.path)
    /\ it.do = "walk" =>
          /\ \A c, d \in it.held : c = d
          /\ it.left \cup it.held = {} => it.todo # << >>
    /\ it.do = "copy_entry" =>
          /\ r.op \in {"copy_dir", "move_dir"}
          /\ Below(it.path, r.path) /\ it.dest = Rebase(it.path, r.path, r.dest)

Fitting(r) == {it \in Items : Inside(r, it)}

\* The steps that open, fill and drop a handle follow one another, but that
\* move_file removes its source in between.
Together(r, s) ==
    \A i \in DOMAIN s :
        /\ s[i].do \in {"create_file", "append_file"} =>
              i + 1 \in DOMAIN s /\ s[i + 1].do = "fill"
        /\ s[i].do = "fill" =>
              /\ i + 1 \in DOMAIN s
              /\ \/ s[i + 1].do = "drop"
                 \/ r.op = "move_file" /\ s[i + 1].do = "remove_file"
        /\ s[i].do = "remove_file" /\ r.op = "move_file" =>
              i + 1 \in DOMAIN s /\ s[i + 1].do = "drop"

\* What a copy below the destination is of.
Source(r, x) == Rebase(x, r.dest, r.path)

\* The steps that step it relies on, which have come before it.
Needed(r, it) ==
    {c \in {Do("parent_is_dir", it.path)} : it.do \in {"create_dir", "create_file"}}
    \cup {c \in {Do("absent", it.path), Do("open", Source(r, it.path))} :
             it.do = "create_file" /\ r.op \in CopyingOps}
    \cup {c \in {Do("list_empty", it.path)} :
             it.do = "remove_file" /\ r.op \in {"remove_dir_all", "move_dir"}}
    \cup {c \in {Do("fill", r.dest)} : it.do = "remove_file" /\ r.op = "move_file"}
    \cup {c \in {Do(IF r.op = "append_file" THEN "append_file" ELSE "create_file", it.path)} :
             it.do = "fill"}
    \cup {c \in {Do("fill", it.path)} : it.do = "drop"}

\* What may come between the two.
Passing(r, c) ==
    IF c.do \in Looks THEN Looks \ {c.do}
    ELSE IF c.do = "fill" /\ r.op = "move_file" THEN {"remove_file"} ELSE {}

\* The i-th step has c before it, with nothing between them that matters; or
\* nothing that matters is left before it.
Led(r, s, i, c) ==
    \E j \in DOMAIN s : /\ j < i /\ s[j] = c
                        /\ \A k \in DOMAIN s : j < k /\ k < i => s[k].do \in Passing(r, c)
Clear(r, s, i, c) == \A k \in DOMAIN s : k < i => s[k].do \in Passing(r, c)

\* An agenda in which every step that needs another has it before it.
Sound(r, s) ==
    /\ s \in Seq(Fitting(r)) /\ Together(r, s)
    /\ \A i \in DOMAIN s : \A c \in Needed(r, s[i]) : Led(r, s, i, c)

\* Nobody changes x but the request t is in.
Mine(t, x) ==
    \A u \in Tasks : \A i \in DOMAIN script[u] :
        (u = t /\ i = at[t]) \/ x \notin Reach(script[u][i])

\* The files t moves.
Moved(t) ==
    LET r == job[t].request IN
    {z \in Paths : /\ r.op \in MovingOps
                   /\ Below(z, r.path) /\ IsFile(before, z)
                   /\ r.op = "move_dir" => z # r.path}

RightData(t, data, z) == Alone(t) /\ z \in Moved(t) => data = before[z].content

\* The open handle is the one c has opened, for c's path.
Held(t, x) ==
    /\ writer[t].open /\ writer[t].path = x
    /\ job[t].request.op = "move_dir" /\ Mine(t, x) => IsFile(files, x)

\* What t knows once it has done c.
Known(t, c) ==
    LET r == job[t].request IN
    /\ c.do = "parent_is_dir" /\ Mine(t, Parent(c.path)) => IsDirectory(files, Parent(c.path))
    /\ c.do = "absent" /\ Mine(t, c.path) => ~Exists(files, c.path)
    /\ c.do = "list_empty" /\ Undisturbed(t, r.path) => Children(files, c.path) = {}
    /\ c.do = "open" => RightData(t, job[t].data, c.path)
    /\ c.do \in {"create_file", "append_file"} =>
          Held(t, c.path) /\ RightData(t, job[t].data, Source(r, c.path))
    /\ c.do = "create_file" => writer[t].buf = << >>
    /\ c.do = "fill" =>
          Held(t, c.path) /\ RightData(t, writer[t].buf, Source(r, c.path))

Guarded(t) ==
    LET r == job[t].request
        s == job[t].agenda
    IN /\ s \in Seq(Fitting(r)) /\ Together(r, s)
       /\ \A i \in DOMAIN s : \A c \in Needed(r, s[i]) :
             Led(r, s, i, c) \/ (Clear(r, s, i, c) /\ Known(t, c))

\* An open handle is about to be filled, or has been and is dropped next.
HandleOK(t) ==
    LET r == job[t].request IN
    writer[t].open =>
        \E x \in Paths :
            /\ x = writer[t].path /\ Makes(r, x)
            /\ \/ At(t, {"fill"})
               \/ /\ Known(t, Do("fill", x))
                  /\ At(t, {"drop"}) \/ (r.op = "move_file" /\ At(t, {"remove_file"}))

\* The request is the one the script says.
Asked(t) ==
    /\ at[t] \in 0 .. Len(script[t])
    /\ at[t] > 0 => job[t].request = script[t][at[t]]
    /\ Busy(t) => at[t] > 0

\* What no request begun so far may change is as it was at the start.
Untouched ==
    \A x \in Paths : files[x] # before[x] =>
        \E u \in Tasks : \E i \in 1 .. at[u] : x \in Reach(script[u][i])

\* While a remove_dir_all or move_dir that nobody disturbs is under way, and
\* after it, what is below its path lies in a directory.
Orphanless(t) ==
    LET r == job[t].request
        p == r.path
    IN at[t] > 0 /\ r.op \in {"remove_dir_all", "move_dir"} /\ Undisturbed(t, p) =>
         \A x \in Paths : x # p /\ Below(x, p) /\ Exists(files, x)
                            => IsDirectory(files, Parent(x))

Arrived(t, z) ==
    LET r == job[t].request IN files[Rebase(z, r.path, r.dest)] = before[z]

InHandle(t, z) ==
    LET r == job[t].request IN
    /\ At(t, {"drop"}) /\ writer[t].open
    /\ writer[t].path = Rebase(z, r.path, r.dest) /\ writer[t].buf = before[z].content

\* Step it is on its way to copying z.
Reaches(r, it, z) ==
    \/ it.do = "drop" /\ it.path = Rebase(z, r.path, r.dest)
    \/ it.do = "open" /\ r.op = "move_file" /\ it.path = r.path /\ z # r.path
    \/ it.do = "copy_entry" /\ it.path = z
    \/ it.do = "walk_dir"
    \/ /\ it.do = "walk"
       /\ \/ \E c \in it.left \cup it.held : Below(z, c)
          \/ \E i \in DOMAIN it.todo : Below(z, it.todo[i]) /\ z # it.todo[i]

Apart(p, q) == ~Below(p, q) /\ ~Below(q, p)

Unmoved(t) == \A x \in Paths : Below(x, job[t].request.path) => files[x] = before[x]

\* Where a move that nobody disturbs stands.
NotBegun(t) ==
    LET r == job[t].request IN
    /\ job[t].agenda = StepsOf(r)
    /\ Unmoved(t) /\ files[r.dest] = before[r.dest]

Copying(t) ==
    LET r == job[t].request
        s == job[t].agenda
    IN /\ Apart(r.path, r.dest) /\ Unmoved(t)
       /\ \A z \in Moved(t) : Arrived(t, z) \/ \E i \in DOMAIN s : Reaches(r, s[i], z)
       /\ \A i \in DOMAIN s :
             /\ s[i].do \notin {"list", "children", "list_empty"}
             /\ s[i].do = "remove_file" => r.op = "move_file" /\ i + 1 = Len(s)
             /\ s[i].do = "remove_dir_all" => r.op = "move_dir" /\ i = Len(s)

GivenUp(t) ==
    LET r == job[t].request
        s == job[t].agenda
    IN /\ Unmoved(t)
       /\ \A i \in DOMAIN s : s[i].do = "drop" /\ Apart(r.path, r.dest)

Leaving(t) ==
    LET r == job[t].request
        s == job[t].agenda
    IN /\ Apart(r.path, r.dest)
       /\ \A z \in Moved(t) : Arrived(t, z) \/ InHandle(t, z)
       /\ \A i \in DOMAIN s :
             \/ r.op = "move_file" /\ s[i].do = "drop"
             \/ r.op = "move_dir" /\ s[i].do \in Removals

MoveOK(t) ==
    Alone(t) /\ at[t] > 0 /\ Moved(t) # {}
        => NotBegun(t) \/ Copying(t) \/ GivenUp(t) \/ Leaving(t)

TaskOK(t) == Asked(t) /\ Guarded(t) /\ HandleOK(t) /\ Orphanless(t) /\ MoveOK(t)

AInv ==
    /\ AsyncTypeOK
    /\ script \in Scripts /\ before \in Trees
    /\ Untouched
    /\ \A t \in Tasks : TaskOK(t)

-----------------------------------------------------------------------------
(* Agendas.                                                                 *)

LEMMA AgendaTail ==
    ASSUME NEW S, NEW s \in Seq(S), s # << >>
    PROVE  /\ Len(s) \in Nat \ {0} /\ DOMAIN s = 1 .. Len(s)
           /\ Head(s) = s[1] /\ Head(s) \in S
           /\ Tail(s) \in Seq(S) /\ DOMAIN Tail(s) = 1 .. Len(s) - 1
           /\ Len(Tail(s)) = Len(s) - 1
           /\ \A i \in 1 .. Len(s) - 1 : Tail(s)[i] = s[i + 1] /\ i + 1 \in DOMAIN s
<1>1. /\ Len(s) \in Nat \ {0} /\ DOMAIN s = 1 .. Len(s)
      /\ Tail(s) \in Seq(S) /\ Len(Tail(s)) = Len(s) - 1 /\ Head(s) \in S
  BY EmptySeq, LenProperties, HeadTailProperties
<1>2. DOMAIN Tail(s) = 1 .. Len(s) - 1
  BY <1>1, LenProperties
<1>3. Head(s) = s[1] /\ \A i \in 1 .. Len(s) - 1 : Tail(s)[i] = s[i + 1]
  BY <1>1
<1>4. \A i \in 1 .. Len(s) - 1 : i + 1 \in 1 .. Len(s)
  BY <1>1
<1> QED
  BY <1>1, <1>2, <1>3, <1>4

LEMMA AgendaConcat ==
    ASSUME NEW S, NEW s \in Seq(S), NEW u \in Seq(S)
    PROVE  /\ s \o u \in Seq(S)
           /\ Len(s) \in Nat /\ Len(u) \in Nat /\ Len(s \o u) = Len(s) + Len(u)
           /\ DOMAIN s = 1 .. Len(s) /\ DOMAIN u = 1 .. Len(u)
           /\ DOMAIN (s \o u) = 1 .. Len(s) + Len(u)
           /\ \A i \in DOMAIN s : i \in DOMAIN (s \o u) /\ (s \o u)[i] = s[i]
           /\ \A i \in DOMAIN u : Len(s) + i \in DOMAIN (s \o u) /\ (s \o u)[Len(s) + i] = u[i]
           /\ \A i \in DOMAIN (s \o u) : i \in DOMAIN s \/ \E k \in DOMAIN u : i = Len(s) + k
<1> DEFINE w == s \o u
<1>1. /\ w \in Seq(S) /\ Len(s) \in Nat /\ Len(u) \in Nat /\ Len(w) = Len(s) + Len(u)
      /\ \A i \in 1 .. Len(s) + Len(u) : w[i] = IF i <= Len(s) THEN s[i] ELSE u[i - Len(s)]
  BY ConcatProperties, LenProperties
<1> HIDE DEF w
<1>2. DOMAIN s = 1 .. Len(s) /\ DOMAIN u = 1 .. Len(u) /\ DOMAIN w = 1 .. Len(s) + Len(u)
  BY <1>1, LenProperties
<1>3. \A i \in 1 .. Len(s) : i \in 1 .. Len(s) + Len(u) /\ w[i] = s[i]
  BY <1>1
<1>4. ASSUME NEW i \in 1 .. Len(u)
      PROVE  Len(s) + i \in 1 .. Len(s) + Len(u) /\ w[Len(s) + i] = u[i]
  <2>1. Len(s) + i \in 1 .. Len(s) + Len(u) /\ ~(Len(s) + i <= Len(s)) /\ Len(s) + i - Len(s) = i
    BY <1>1
  <2> QED
    BY <1>1, <2>1
<1>5. ASSUME NEW i \in 1 .. Len(s) + Len(u), i \notin 1 .. Len(s)
      PROVE  \E k \in 1 .. Len(u) : i = Len(s) + k
  <2>1. i - Len(s) \in 1 .. Len(u) /\ i = Len(s) + (i - Len(s))
    BY <1>1, <1>5
  <2> QED
    BY <2>1
<1> QED
  BY <1>1, <1>2, <1>3, <1>4, <1>5 DEF w

\* Striking off the first step leaves a step led as it was, or clear behind the
\* one that has led it.
LEMMA LedInTail ==
    ASSUME NEW S, NEW s \in Seq(S), s # << >>, NEW i \in DOMAIN Tail(s), NEW r, NEW c,
           Led(r, s, i + 1, c)
    PROVE  Led(r, Tail(s), i, c) \/ (Head(s) = c /\ Clear(r, Tail(s), i, c))
<1> DEFINE u == Tail(s)
           n == Len(s)
<1>1. /\ n \in Nat \ {0} /\ DOMAIN s = 1 .. n /\ DOMAIN u = 1 .. n - 1
      /\ Head(s) = s[1] /\ \A k \in 1 .. n - 1 : u[k] = s[k + 1] /\ k + 1 \in 1 .. n
  BY AgendaTail
<1>2. PICK j \in 1 .. n : /\ j < i + 1 /\ s[j] = c
                          /\ \A k \in 1 .. n : j < k /\ k < i + 1 => s[k].do \in Passing(r, c)
  BY <1>1 DEF Led
<1> HIDE DEF u, n
<1>3. i \in Nat /\ i \in 1 .. n - 1
  BY <1>1 DEF u
<1>4. ASSUME NEW k \in 1 .. n - 1, j - 1 < k, k < i PROVE u[k].do \in Passing(r, c)
  <2>1. k + 1 \in 1 .. n /\ j < k + 1 /\ k + 1 < i + 1
    BY <1>1, <1>2, <1>3, <1>4
  <2> QED
    BY <1>1, <1>2, <2>1
<1>5. CASE j = 1
  <2>1. \A k \in 1 .. n - 1 : k < i => u[k].do \in Passing(r, c)
    BY <1>1, <1>4, <1>5
  <2> QED
    BY <1>1, <1>2, <1>5, <2>1 DEF Clear, u
<1>6. CASE j > 1
  <2>1. j - 1 \in 1 .. n - 1 /\ j - 1 < i /\ (j - 1) + 1 = j
    BY <1>1, <1>2, <1>3, <1>6
  <2>2. u[j - 1] = c
    BY <1>1, <1>2, <2>1
  <2> QED
    BY <1>1, <1>4, <2>1, <2>2 DEF Led, u
<1> QED
  BY <1>1, <1>2, <1>5, <1>6

LEMMA ClearInTail ==
    ASSUME NEW S, NEW s \in Seq(S), s # << >>, NEW i \in DOMAIN Tail(s), NEW r, NEW c,
           Clear(r, s, i + 1, c)
    PROVE  Head(s).do \in Passing(r, c) /\ Clear(r, Tail(s), i, c)
<1> DEFINE u == Tail(s)
           n == Len(s)
<1>1. /\ n \in Nat \ {0} /\ DOMAIN s = 1 .. n /\ DOMAIN u = 1 .. n - 1
      /\ Head(s) = s[1] /\ \A k \in 1 .. n - 1 : u[k] = s[k + 1] /\ k + 1 \in 1 .. n
  BY AgendaTail
<1> HIDE DEF u, n
<1>2. i \in 1 .. n - 1 /\ 1 \in 1 .. n /\ 1 < i + 1
  BY <1>1 DEF u
<1>3. ASSUME NEW k \in 1 .. n - 1, k < i PROVE u[k].do \in Passing(r, c)
  <2>1. k + 1 \in 1 .. n /\ k + 1 < i + 1
    BY <1>1, <1>2, <1>3
  <2> QED
    BY <1>1, <2>1 DEF Clear
<1> QED
  BY <1>1, <1>2, <1>3 DEF Clear, u

\* Steps put in front, or behind, leave a step led.
LEMMA LedInConcat ==
    ASSUME NEW S, NEW s \in Seq(S), NEW u \in Seq(S), NEW r, NEW c
    PROVE  /\ \A i \in DOMAIN s : Led(r, s, i, c) => Led(r, s \o u, i, c)
           /\ \A i \in DOMAIN s : Clear(r, s, i, c) => Clear(r, s \o u, i, c)
           /\ \A i \in DOMAIN u : Led(r, u, i, c) => Led(r, s \o u, Len(s) + i, c)
<1> DEFINE w == s \o u
           n == Len(s)
<1>1. /\ n \in Nat /\ Len(u) \in Nat
      /\ DOMAIN s = 1 .. n /\ DOMAIN u = 1 .. Len(u) /\ DOMAIN w = 1 .. n + Len(u)
      /\ \A i \in DOMAIN s : i \in DOMAIN w /\ w[i] = s[i]
      /\ \A i \in DOMAIN u : n + i \in DOMAIN w /\ w[n + i] = u[i]
      /\ \A i \in DOMAIN w : i \in DOMAIN s \/ \E k \in DOMAIN u : i = n + k
  BY AgendaConcat
<1> HIDE DEF w, n
<1>2. ASSUME NEW i \in DOMAIN s, NEW k \in DOMAIN w, k < i PROVE k \in DOMAIN s /\ w[k] = s[k]
  <2>1. k \in 1 .. n
    BY <1>1, <1>2
  <2> QED
    BY <1>1, <2>1
<1>3. ASSUME NEW i \in DOMAIN s, Led(r, s, i, c) PROVE Led(r, w, i, c)
  <2>1. PICK j \in DOMAIN s : /\ j < i /\ s[j] = c
                              /\ \A k \in DOMAIN s : j < k /\ k < i => s[k].do \in Passing(r, c)
    BY <1>3 DEF Led
  <2>2. \A k \in DOMAIN w : j < k /\ k < i => w[k].do \in Passing(r, c)
    BY <1>2, <2>1
  <2> QED
    BY <1>1, <2>1, <2>2 DEF Led
<1>4. ASSUME NEW i \in DOMAIN s, Clear(r, s, i, c) PROVE Clear(r, w, i, c)
  BY <1>2, <1>4 DEF Clear
<1>5. ASSUME NEW i \in DOMAIN u, Led(r, u, i, c) PROVE Led(r, w, n + i, c)
  <2>1. PICK j \in DOMAIN u : /\ j < i /\ u[j] = c
                              /\ \A k \in DOMAIN u : j < k /\ k < i => u[k].do \in Passing(r, c)
    BY <1>5 DEF Led
  <2>2. ASSUME NEW k \in DOMAIN w, n + j < k, k < n + i PROVE w[k].do \in Passing(r, c)
    <3>1. k \notin DOMAIN s
      BY <1>1, <2>2
    <3>2. PICK m \in DOMAIN u : k = n + m
      BY <1>1, <3>1
    <3>3. j < m /\ m < i
      BY <1>1, <2>2, <3>2
    <3> QED
      BY <1>1, <2>1, <3>2, <3>3
  <2>3. n + j \in DOMAIN w /\ n + j < n + i /\ w[n + j] = c
    BY <1>1, <2>1
  <2> QED
    BY <2>2, <2>3 DEF Led
<1> QED
  BY <1>3, <1>4, <1>5 DEF w, n

LEMMA TogetherInTail ==
    ASSUME NEW S, NEW s \in Seq(S), s # << >>, NEW r, Together(r, s)
    PROVE  Together(r, Tail(s))
<1>1. /\ Len(s) \in Nat \ {0} /\ DOMAIN s = 1 .. Len(s) /\ DOMAIN Tail(s) = 1 .. Len(s) - 1
      /\ \A i \in 1 .. Len(s) - 1 : Tail(s)[i] = s[i + 1] /\ i + 1 \in DOMAIN s
  BY AgendaTail
<1>2. ASSUME NEW i \in DOMAIN Tail(s), (i + 1) + 1 \in DOMAIN s
      PROVE  i + 1 \in DOMAIN Tail(s) /\ Tail(s)[i + 1] = s[(i + 1) + 1]
  <2>1. i + 1 \in 1 .. Len(s) - 1
    BY <1>1, <1>2
  <2> QED
    BY <1>1, <2>1
<1>3. ASSUME NEW i \in DOMAIN Tail(s)
      PROVE  Tail(s)[i] = s[i + 1] /\ i + 1 \in DOMAIN s
  BY <1>1
<1> QED
  BY <1>2, <1>3 DEF Together

LEMMA TogetherInConcat ==
    ASSUME NEW S, NEW s \in Seq(S), NEW u \in Seq(S), NEW r, Together(r, s), Together(r, u)
    PROVE  Together(r, s \o u)
<1> DEFINE w == s \o u
           n == Len(s)
<1>1. /\ n \in Nat /\ Len(u) \in Nat
      /\ DOMAIN s = 1 .. n /\ DOMAIN u = 1 .. Len(u) /\ DOMAIN w = 1 .. n + Len(u)
      /\ \A i \in DOMAIN s : i \in DOMAIN w /\ w[i] = s[i]
      /\ \A i \in DOMAIN u : n + i \in DOMAIN w /\ w[n + i] = u[i]
      /\ \A i \in DOMAIN w : i \in DOMAIN s \/ \E k \in DOMAIN u : i = n + k
  BY AgendaConcat
<1> HIDE DEF w, n
<1>2. \A i \in DOMAIN s : i + 1 \in DOMAIN s => i + 1 \in DOMAIN w /\ w[i + 1] = s[i + 1]
  BY <1>1
<1>3. ASSUME NEW k \in DOMAIN u, k + 1 \in DOMAIN u
      PROVE  (n + k) + 1 \in DOMAIN w /\ w[(n + k) + 1] = u[k + 1]
  <2>1. (n + k) + 1 = n + (k + 1)
    BY <1>1
  <2> QED
    BY <1>1, <1>3, <2>1
<1> DEFINE Fine(i) == /\ w[i].do \in {"create_file", "append_file"} =>
                              i + 1 \in DOMAIN w /\ w[i + 1].do = "fill"
                      /\ w[i].do = "fill" =>
                              /\ i + 1 \in DOMAIN w
                              /\ \/ w[i + 1].do = "drop"
                                 \/ r.op = "move_file" /\ w[i + 1].do = "remove_file"
                      /\ w[i].do = "remove_file" /\ r.op = "move_file" =>
                              i + 1 \in DOMAIN w /\ w[i + 1].do = "drop"
<1>4. ASSUME NEW i \in DOMAIN s PROVE Fine(i)
  BY <1>1, <1>2 DEF Together
<1>5. ASSUME NEW k \in DOMAIN u PROVE Fine(n + k)
  <2>1. w[n + k] = u[k]
    BY <1>1
  <2>2. k + 1 \in DOMAIN u => (n + k) + 1 \in DOMAIN w /\ w[(n + k) + 1] = u[k + 1]
    BY <1>3
  <2>3. /\ u[k].do \in {"create_file", "append_file"} =>
              k + 1 \in DOMAIN u /\ u[k + 1].do = "fill"
        /\ u[k].do = "fill" =>
              /\ k + 1 \in DOMAIN u
              /\ \/ u[k + 1].do = "drop"
                 \/ r.op = "move_file" /\ u[k + 1].do = "remove_file"
        /\ u[k].do = "remove_file" /\ r.op = "move_file" =>
              k + 1 \in DOMAIN u /\ u[k + 1].do = "drop"
    BY DEF Together
  <2> QED
    BY <2>1, <2>2, <2>3
<1>6. Together(r, w)
  <2>1. (\A i \in DOMAIN w : Fine(i)) => Together(r, w)
    BY DEF Together
  <2> HIDE DEF Fine
  <2>2. \A i \in DOMAIN w : Fine(i)
    BY <1>1, <1>4, <1>5
  <2> QED
    BY <2>1, <2>2
<1> QED
  BY <1>6 DEF w

LEMMA SoundConcat ==
    ASSUME NEW r, NEW s, NEW u, Sound(r, s), Sound(r, u)
    PROVE  Sound(r, s \o u)
<1>1. s \in Seq(Fitting(r)) /\ u \in Seq(Fitting(r))
  BY DEF Sound
<1>2. s \o u \in Seq(Fitting(r)) /\ Together(r, s \o u)
  BY <1>1, AgendaConcat, TogetherInConcat DEF Sound
<1>3. /\ \A i \in DOMAIN s : (s \o u)[i] = s[i]
      /\ \A i \in DOMAIN u : (s \o u)[Len(s) + i] = u[i]
      /\ \A i \in DOMAIN (s \o u) : i \in DOMAIN s \/ \E k \in DOMAIN u : i = Len(s) + k
  BY <1>1, AgendaConcat
<1>4. ASSUME NEW i \in DOMAIN (s \o u), NEW c \in Needed(r, (s \o u)[i])
      PROVE  Led(r, s \o u, i, c)
  <2>1. CASE i \in DOMAIN s
    <3>1. Led(r, s, i, c)
      BY <1>3, <1>4, <2>1 DEF Sound
    <3> QED
      BY <1>1, <2>1, <3>1, LedInConcat
  <2>2. ASSUME NEW k \in DOMAIN u, i = Len(s) + k PROVE Led(r, s \o u, i, c)
    <3>1. Led(r, u, k, c)
      BY <1>3, <1>4, <2>2 DEF Sound
    <3> QED
      BY <1>1, <2>2, <3>1, LedInConcat
  <2> QED
    BY <1>3, <2>1, <2>2
<1> QED
  BY <1>2, <1>4 DEF Sound

LEMMA NothingIsSound == \A r : Sound(r, << >>)
<1>1. \A r : << >> \in Seq(Fitting(r)) /\ DOMAIN << >> = {}
  BY EmptySeq
<1> QED
  BY <1>1 DEF Sound, Together

\* Steps that rely on nothing and open nothing.
LEMMA OneIsSound ==
    ASSUME NEW r, NEW it \in Fitting(r),
           \/ it.do \notin {"create_dir", "create_file", "append_file", "fill", "drop", "remove_file"}
           \/ it.do = "remove_file" /\ r.op = "remove_file"
    PROVE  Sound(r, <<it>>)
<1>1. <<it>> \in Seq(Fitting(r)) /\ DOMAIN <<it>> = {1} /\ <<it>>[1] = it
  OBVIOUS
<1>2. Needed(r, it) = {}
  BY DEF Needed
<1> QED
  BY <1>1, <1>2 DEF Sound, Together

LEMMA DoItem ==
    ASSUME NEW do \in Steps, NEW p \in Paths
    PROVE  /\ Do(do, p) \in Items /\ Do(do, p).do = do /\ Do(do, p).path = p
           /\ Do(do, p).dest = Root
           /\ Do(do, p).left = {} /\ Do(do, p).held = {} /\ Do(do, p).todo = << >>
<1>1. Root \in Paths /\ << >> \in Seq(Paths)
  BY EmptySeq, PathsAssumption
<1> QED
  BY <1>1 DEF Do, Items

\* Two steps behind others, and two in front.
LEMMA TwoMore ==
    ASSUME NEW S, NEW s \in Seq(S), NEW a \in S, NEW b \in S
    PROVE  LET w == s \o <<a, b>> IN
           /\ w \in Seq(S) /\ Len(w) = Len(s) + 2
           /\ \A i \in 1 .. Len(s) : w[i] = s[i]
           /\ w[Len(s) + 1] = a /\ w[Len(s) + 2] = b
<1>1. /\ <<a, b>> \in Seq(S) /\ Len(<<a, b>>) = 2 /\ DOMAIN <<a, b>> = {1, 2}
      /\ <<a, b>>[1] = a /\ <<a, b>>[2] = b
  OBVIOUS
<1> DEFINE u == <<a, b>>
<1> HIDE DEF u
<1> QED
  BY <1>1, AgendaConcat DEF u

LEMMA TwoBefore ==
    ASSUME NEW S, NEW s \in Seq(S), NEW a \in S, NEW b \in S
    PROVE  LET w == <<a, b>> \o s IN
           /\ w \in Seq(S) /\ Len(w) = Len(s) + 2
           /\ w[1] = a /\ w[2] = b
           /\ \A i \in 1 .. Len(s) : w[2 + i] = s[i]
<1>1. /\ <<a, b>> \in Seq(S) /\ Len(<<a, b>>) = 2 /\ DOMAIN <<a, b>> = {1, 2}
      /\ <<a, b>>[1] = a /\ <<a, b>>[2] = b
  OBVIOUS
<1> DEFINE u == <<a, b>>
<1> HIDE DEF u
<1> QED
  BY <1>1, AgendaConcat DEF u

\* create_dir and create_file look for the parent, and then make the entry.
LEMMA MakingShape ==
    ASSUME NEW x \in Paths, NEW do \in {"create_dir", "create_file"}
    PROVE  LET s == InDirectory(x) \o <<Do("ensure_parent", x), Do(do, x)>> IN
           /\ s \in Seq(Items) /\ Len(s) = 4
           /\ s[1] = Do("parent_exists", x) /\ s[2] = Do("parent_is_dir", x)
           /\ s[3] = Do("ensure_parent", x) /\ s[4] = Do(do, x)
<1> DEFINE a == Do("parent_exists", x)
           b == Do("parent_is_dir", x)
           c == Do("ensure_parent", x)
           d == Do(do, x)
<1>1. a \in Items /\ b \in Items /\ c \in Items /\ d \in Items
  BY DoItem DEF Steps
<1>2. InDirectory(x) = <<a, b>>
  BY DEF InDirectory
<1> HIDE DEF a, b, c, d
<1>3. /\ <<a, b>> \in Seq(Items) /\ Len(<<a, b>>) = 2
      /\ <<a, b>>[1] = a /\ <<a, b>>[2] = b
  BY <1>1
<1>4. LET s == <<a, b>> \o <<c, d>> IN
      /\ s \in Seq(Items) /\ Len(s) = 4 /\ s[1] = a /\ s[2] = b /\ s[3] = c /\ s[4] = d
  <2> DEFINE u == <<a, b>>
             s == u \o <<c, d>>
  <2> HIDE DEF u
  <2>1. /\ s \in Seq(Items) /\ Len(s) = Len(u) + 2
        /\ \A i \in 1 .. Len(u) : s[i] = u[i]
        /\ s[Len(u) + 1] = c /\ s[Len(u) + 2] = d
    BY <1>1, <1>3, TwoMore DEF u
  <2> HIDE DEF s
  <2>2. /\ s \in Seq(Items) /\ Len(s) = 4 /\ s[1] = a /\ s[2] = b /\ s[3] = c /\ s[4] = d
    BY <1>3, <2>1 DEF u
  <2> QED
    BY <2>2 DEF s, u
<1> QED
  BY <1>2, <1>4 DEF a, b, c, d

LEMMA WriteShape ==
    ASSUME NEW x \in Paths
    PROVE  LET s == WriteFileSteps(x) IN
           /\ s \in Seq(Items) /\ Len(s) = 6
           /\ s[1] = Do("parent_exists", x) /\ s[2] = Do("parent_is_dir", x)
           /\ s[3] = Do("ensure_parent", x) /\ s[4] = Do("create_file", x)
           /\ s[5] = Do("fill", x) /\ s[6] = Do("drop", x)
<1> DEFINE u == CreateFileSteps(x)
           a == Do("fill", x)
           b == Do("drop", x)
           s == u \o <<a, b>>
<1>1. /\ u \in Seq(Items) /\ Len(u) = 4
      /\ u[1] = Do("parent_exists", x) /\ u[2] = Do("parent_is_dir", x)
      /\ u[3] = Do("ensure_parent", x) /\ u[4] = Do("create_file", x)
  BY MakingShape DEF CreateFileSteps
<1>2. a \in Items /\ b \in Items
  BY DoItem DEF Steps
<1>3. WriteFileSteps(x) = s
  BY DEF WriteFileSteps
<1> HIDE DEF u, a, b
<1>4. /\ s \in Seq(Items) /\ Len(s) = Len(u) + 2
      /\ \A i \in 1 .. Len(u) : s[i] = u[i]
      /\ s[Len(u) + 1] = a /\ s[Len(u) + 2] = b
  <2>1. u \in Seq(Items) /\ a \in Items /\ b \in Items
    BY <1>1, <1>2
  <2> QED
    BY <2>1, TwoMore
<1> HIDE DEF s
<1>5. /\ Len(s) = 6 /\ s[1] = u[1] /\ s[2] = u[2] /\ s[3] = u[3] /\ s[4] = u[4]
      /\ s[5] = a /\ s[6] = b
  BY <1>1, <1>4
<1> QED
  BY <1>1, <1>3, <1>4, <1>5 DEF a, b

LEMMA CopyShape ==
    ASSUME NEW p \in Paths, NEW x \in Paths
    PROVE  LET s == CopyFileSteps(p, x) IN
           /\ s \in Seq(Items) /\ Len(s) = 8
           /\ s[1] = Do("absent", x) /\ s[2] = Do("open", p)
           /\ s[3] = Do("parent_exists", x) /\ s[4] = Do("parent_is_dir", x)
           /\ s[5] = Do("ensure_parent", x) /\ s[6] = Do("create_file", x)
           /\ s[7] = Do("fill", x) /\ s[8] = Do("drop", x)
<1> DEFINE u == WriteFileSteps(x)
           a == Do("absent", x)
           b == Do("open", p)
           s == <<a, b>> \o u
<1>1. /\ u \in Seq(Items) /\ Len(u) = 6
      /\ u[1] = Do("parent_exists", x) /\ u[2] = Do("parent_is_dir", x)
      /\ u[3] = Do("ensure_parent", x) /\ u[4] = Do("create_file", x)
      /\ u[5] = Do("fill", x) /\ u[6] = Do("drop", x)
  BY WriteShape
<1>2. a \in Items /\ b \in Items
  BY DoItem DEF Steps
<1>3. CopyFileSteps(p, x) = s
  BY DEF CopyFileSteps
<1> HIDE DEF u, a, b
<1>4. /\ s \in Seq(Items) /\ Len(s) = Len(u) + 2 /\ s[1] = a /\ s[2] = b
      /\ \A i \in 1 .. Len(u) : s[2 + i] = u[i]
  <2>1. u \in Seq(Items) /\ a \in Items /\ b \in Items
    BY <1>1, <1>2
  <2> QED
    BY <2>1, TwoBefore
<1> HIDE DEF s
<1>5. /\ Len(s) = 8 /\ s[3] = u[1] /\ s[4] = u[2] /\ s[5] = u[3] /\ s[6] = u[4]
      /\ s[7] = u[5] /\ s[8] = u[6]
  <2>1. /\ s[2 + 1] = u[1] /\ s[2 + 2] = u[2] /\ s[2 + 3] = u[3] /\ s[2 + 4] = u[4]
        /\ s[2 + 5] = u[5] /\ s[2 + 6] = u[6]
    BY <1>1, <1>4
  <2> QED
    BY <1>1, <1>4, <2>1
<1> QED
  BY <1>1, <1>3, <1>4, <1>5 DEF a, b

LEMMA MoveShape ==
    ASSUME NEW p \in Paths, NEW x \in Paths
    PROVE  LET s == MoveFileSteps(p, x) IN
           /\ s \in Seq(Items) /\ Len(s) = 9
           /\ s[1] = Do("absent", x) /\ s[2] = Do("open", p)
           /\ s[3] = Do("parent_exists", x) /\ s[4] = Do("parent_is_dir", x)
           /\ s[5] = Do("ensure_parent", x) /\ s[6] = Do("create_file", x)
           /\ s[7] = Do("fill", x) /\ s[8] = Do("remove_file", p) /\ s[9] = Do("drop", x)
<1> DEFINE u == CreateFileSteps(x)
           a == Do("absent", x)
           b == Do("open", p)
           v == <<a, b>> \o u
           d == Do("fill", x)
           e == Do("remove_file", p)
           f == Do("drop", x)
           w == <<d, e, f>>
           s == v \o w
<1>1. /\ u \in Seq(Items) /\ Len(u) = 4
      /\ u[1] = Do("parent_exists", x) /\ u[2] = Do("parent_is_dir", x)
      /\ u[3] = Do("ensure_parent", x) /\ u[4] = Do("create_file", x)
  BY MakingShape DEF CreateFileSteps
<1>2. a \in Items /\ b \in Items /\ d \in Items /\ e \in Items /\ f \in Items
  BY DoItem DEF Steps
<1>3. MoveFileSteps(p, x) = s
  BY DEF MoveFileSteps
<1> HIDE DEF u, a, b, d, e, f
<1>4. /\ w \in Seq(Items) /\ Len(w) = 3 /\ w[1] = d /\ w[2] = e /\ w[3] = f
  BY <1>2
<1>5. /\ v \in Seq(Items) /\ Len(v) = Len(u) + 2 /\ v[1] = a /\ v[2] = b
      /\ \A i \in 1 .. Len(u) : v[2 + i] = u[i]
  <2>1. u \in Seq(Items) /\ a \in Items /\ b \in Items
    BY <1>1, <1>2
  <2> QED
    BY <2>1, TwoBefore
<1> HIDE DEF v, w
<1>6. /\ Len(v) = 6 /\ v[3] = u[1] /\ v[4] = u[2] /\ v[5] = u[3] /\ v[6] = u[4]
  <2>1. v[2 + 1] = u[1] /\ v[2 + 2] = u[2] /\ v[2 + 3] = u[3] /\ v[2 + 4] = u[4]
    BY <1>1, <1>5
  <2> QED
    BY <1>1, <1>5, <2>1
<1>7. /\ s \in Seq(Items) /\ Len(s) = Len(v) + Len(w)
      /\ DOMAIN v = 1 .. Len(v) /\ DOMAIN w = 1 .. Len(w)
      /\ \A i \in DOMAIN v : s[i] = v[i]
      /\ \A i \in DOMAIN w : s[Len(v) + i] = w[i]
  <2>1. v \in Seq(Items) /\ w \in Seq(Items)
    BY <1>4, <1>5
  <2> QED
    BY <2>1, AgendaConcat
<1> HIDE DEF s
<1>8. /\ Len(s) = 9 /\ s[1] = v[1] /\ s[2] = v[2] /\ s[3] = v[3] /\ s[4] = v[4]
      /\ s[5] = v[5] /\ s[6] = v[6] /\ s[7] = w[1] /\ s[8] = w[2] /\ s[9] = w[3]
  <2>1. s[6 + 1] = w[1] /\ s[6 + 2] = w[2] /\ s[6 + 3] = w[3]
    BY <1>4, <1>6, <1>7
  <2> QED
    BY <1>4, <1>6, <1>7, <2>1
<1> QED
  BY <1>1, <1>3, <1>4, <1>5, <1>6, <1>7, <1>8 DEF a, b, d, e, f

-----------------------------------------------------------------------------
(* The steps that methods begin with are sound.                             *)

LEMMA DoFits ==
    ASSUME NEW r, NEW do \in Steps \ {"walk_dir", "walk", "copy_entry"}, NEW p \in Paths,
           do \in Makings => Makes(r, p),
           do = "append_file" => r.op = "append_file",
           do = "ensure_dir" => r.op = "create_dir_all",
           do \in Emptyings => r.op \in {"remove_dir_all", "move_dir"},
           do \in Removals => r.op \in RemovingOps /\ Below(p, r.path)
    PROVE  Do(do, p) \in Fitting(r)
<1> DEFINE it == Do(do, p)
<1>1. it \in Items /\ it.do = do /\ it.path = p /\ it.left = {}
  BY DoItem
<1> HIDE DEF it
<1>2. Inside(r, it)
  BY <1>1 DEF Inside
<1> QED
  BY <1>1, <1>2 DEF Fitting, it

\* Looking at a path is any request's.
LEMMA LooksFit ==
    ASSUME NEW r, NEW do \in Looks \ {"list_empty"}, NEW p \in Paths
    PROVE  Do(do, p) \in Fitting(r)
<1>1. do \in Steps \ {"walk_dir", "walk", "copy_entry"} /\ do \notin Makings /\ do \notin Removals
  BY DEF Looks, Steps, Makings, Removals
<1> QED
  BY <1>1, DoFits DEF Makings, Removals, Emptyings

LEMMA MakingsFit ==
    ASSUME NEW r, NEW do \in {"create_dir", "create_file", "fill", "drop"},
           NEW x \in Paths, Makes(r, x)
    PROVE  Do(do, x) \in Fitting(r)
<1>1. do \in Steps \ {"walk_dir", "walk", "copy_entry"} /\ do \notin Removals
  BY DEF Steps, Removals
<1> QED
  BY <1>1, DoFits DEF Emptyings

LEMMA SeqByItems ==
    ASSUME NEW S, NEW U, NEW s \in Seq(U), \A i \in 1 .. Len(s) : s[i] \in S
    PROVE  s \in Seq(S)
BY SeqDef, LenProperties

\* create_dir looks for the parent before it makes the directory.
LEMMA CreateDirIsSound ==
    ASSUME NEW r, NEW x \in Paths, Makes(r, x)
    PROVE  Sound(r, CreateDirSteps(x))
<1> DEFINE s == CreateDirSteps(x)
<1>1. /\ s \in Seq(Items) /\ Len(s) = 4
      /\ s[1] = Do("parent_exists", x) /\ s[2] = Do("parent_is_dir", x)
      /\ s[3] = Do("ensure_parent", x) /\ s[4] = Do("create_dir", x)
  BY MakingShape DEF CreateDirSteps
<1> HIDE DEF s
<1>2. DOMAIN s = {1, 2, 3, 4}
  <2>1. DOMAIN s = 1 .. 4
    BY <1>1, LenProperties
  <2> QED
    BY <2>1
<1>3. /\ s[1].do = "parent_exists" /\ s[2].do = "parent_is_dir"
      /\ s[3].do = "ensure_parent" /\ s[4].do = "create_dir" /\ s[4].path = x
  BY <1>1, DoItem DEF Steps
<1>4. s \in Seq(Fitting(r))
  <2>1. \A i \in 1 .. 4 : s[i] \in Fitting(r)
    BY <1>1, LooksFit, MakingsFit DEF Looks
  <2> QED
    BY <1>1, <2>1, SeqByItems
<1>5. Together(r, s)
  BY <1>2, <1>3 DEF Together
<1>6. /\ Needed(r, s[1]) = {} /\ Needed(r, s[2]) = {} /\ Needed(r, s[3]) = {}
      /\ Needed(r, s[4]) = {Do("parent_is_dir", x)}
  BY <1>3 DEF Needed
<1>7. Led(r, s, 4, Do("parent_is_dir", x))
  <2>1. s[2] = Do("parent_is_dir", x) /\ Do("parent_is_dir", x).do = "parent_is_dir"
    BY <1>1, <1>3
  <2>2. Passing(r, Do("parent_is_dir", x)) = Looks \ {"parent_is_dir"}
    BY <2>1 DEF Passing, Looks
  <2>3. \A k \in DOMAIN s : 2 < k /\ k < 4 => s[k].do \in Passing(r, Do("parent_is_dir", x))
    BY <1>2, <1>3, <2>2 DEF Looks
  <2> QED
    BY <1>2, <2>1, <2>3 DEF Led
<1> QED
  BY <1>2, <1>4, <1>5, <1>6, <1>7 DEF Sound, s

LEMMA PassingLooks ==
    ASSUME NEW r, NEW do \in Looks, NEW p
    PROVE  Passing(r, Do(do, p)) = Looks \ {do}
<1>1. Do(do, p).do = do
  BY DEF Do
<1> QED
  BY <1>1 DEF Passing

\* write_file on the path it is asked for.
LEMMA WriteFileIsSound ==
    ASSUME NEW r, NEW x \in Paths, r.op = "write_file", x = r.path
    PROVE  Sound(r, WriteFileSteps(x))
<1> DEFINE s == WriteFileSteps(x)
<1>1. /\ s \in Seq(Items) /\ Len(s) = 6
      /\ s[1] = Do("parent_exists", x) /\ s[2] = Do("parent_is_dir", x)
      /\ s[3] = Do("ensure_parent", x) /\ s[4] = Do("create_file", x)
      /\ s[5] = Do("fill", x) /\ s[6] = Do("drop", x)
  BY WriteShape
<1> HIDE DEF s
<1>2. DOMAIN s = {1, 2, 3, 4, 5, 6}
  <2>1. DOMAIN s = 1 .. 6
    BY <1>1, LenProperties
  <2> QED
    BY <2>1
<1>3. /\ s[1].do = "parent_exists" /\ s[2].do = "parent_is_dir"
      /\ s[3].do = "ensure_parent" /\ s[4].do = "create_file" /\ s[4].path = x
      /\ s[5].do = "fill" /\ s[5].path = x /\ s[6].do = "drop" /\ s[6].path = x
  BY <1>1, DoItem DEF Steps
<1>4. s \in Seq(Fitting(r))
  <2>1. Makes(r, x)
    BY DEF Makes
  <2>2. \A i \in 1 .. 6 : s[i] \in Fitting(r)
    BY <1>1, <2>1, LooksFit, MakingsFit DEF Looks
  <2> QED
    BY <1>1, <2>2, SeqByItems
<1>5. Together(r, s)
  BY <1>2, <1>3 DEF Together
<1>6. /\ Needed(r, s[1]) = {} /\ Needed(r, s[2]) = {} /\ Needed(r, s[3]) = {}
      /\ Needed(r, s[4]) = {Do("parent_is_dir", x)}
      /\ Needed(r, s[5]) = {Do("create_file", x)}
      /\ Needed(r, s[6]) = {Do("fill", x)}
  BY <1>3 DEF Needed, CopyingOps
<1>7. Led(r, s, 4, Do("parent_is_dir", x))
  <2>1. \A k \in DOMAIN s : 2 < k /\ k < 4 => s[k].do \in Looks \ {"parent_is_dir"}
    BY <1>2, <1>3 DEF Looks
  <2> QED
    BY <1>1, <1>2, <2>1, PassingLooks DEF Led, Looks
<1>8. Led(r, s, 5, Do("create_file", x)) /\ Led(r, s, 6, Do("fill", x))
  BY <1>1, <1>2 DEF Led
<1> QED
  BY <1>2, <1>4, <1>5, <1>6, <1>7, <1>8 DEF Sound, s

\* Copying one file, the one x below the destination is a copy of.
LEMMA CopyFileIsSound ==
    ASSUME NEW r, NEW p \in Paths, NEW x \in Paths, r.op \in CopyingOps,
           Below(x, r.dest), p = Source(r, x)
    PROVE  Sound(r, CopyFileSteps(p, x))
<1> DEFINE s == CopyFileSteps(p, x)
<1>1. /\ s \in Seq(Items) /\ Len(s) = 8
      /\ s[1] = Do("absent", x) /\ s[2] = Do("open", p)
      /\ s[3] = Do("parent_exists", x) /\ s[4] = Do("parent_is_dir", x)
      /\ s[5] = Do("ensure_parent", x) /\ s[6] = Do("create_file", x)
      /\ s[7] = Do("fill", x) /\ s[8] = Do("drop", x)
  BY CopyShape
<1> HIDE DEF s
<1>2. DOMAIN s = {1, 2, 3, 4, 5, 6, 7, 8}
  <2>1. DOMAIN s = 1 .. 8
    BY <1>1, LenProperties
  <2> QED
    BY <2>1
<1>3. /\ s[1].do = "absent" /\ s[2].do = "open"
      /\ s[3].do = "parent_exists" /\ s[4].do = "parent_is_dir"
      /\ s[5].do = "ensure_parent" /\ s[6].do = "create_file" /\ s[6].path = x
      /\ s[7].do = "fill" /\ s[7].path = x /\ s[8].do = "drop" /\ s[8].path = x
  BY <1>1, DoItem DEF Steps
<1>4. s \in Seq(Fitting(r))
  <2>1. Makes(r, x)
    BY DEF Makes
  <2>2. \A i \in 1 .. 8 : s[i] \in Fitting(r)
    BY <1>1, <2>1, LooksFit, MakingsFit DEF Looks
  <2> QED
    BY <1>1, <2>2, SeqByItems
<1>5. Together(r, s)
  BY <1>2, <1>3 DEF Together
<1>6. /\ \A i \in 1 .. 5 : Needed(r, s[i]) = {}
      /\ Needed(r, s[6]) = {Do("parent_is_dir", x), Do("absent", x), Do("open", p)}
      /\ Needed(r, s[7]) = {Do("create_file", x)}
      /\ Needed(r, s[8]) = {Do("fill", x)}
  BY <1>3 DEF Needed, CopyingOps
<1>7. /\ Led(r, s, 6, Do("parent_is_dir", x))
      /\ Led(r, s, 6, Do("absent", x)) /\ Led(r, s, 6, Do("open", p))
  <2>1. /\ \A k \in DOMAIN s : 4 < k /\ k < 6 => s[k].do \in Looks \ {"parent_is_dir"}
        /\ \A k \in DOMAIN s : 1 < k /\ k < 6 => s[k].do \in Looks \ {"absent"}
        /\ \A k \in DOMAIN s : 2 < k /\ k < 6 => s[k].do \in Looks \ {"open"}
    BY <1>2, <1>3 DEF Looks
  <2>2. /\ Passing(r, Do("parent_is_dir", x)) = Looks \ {"parent_is_dir"}
        /\ Passing(r, Do("absent", x)) = Looks \ {"absent"}
        /\ Passing(r, Do("open", p)) = Looks \ {"open"}
    BY PassingLooks DEF Looks
  <2> QED
    BY <1>1, <1>2, <2>1, <2>2 DEF Led
<1>8. Led(r, s, 7, Do("create_file", x)) /\ Led(r, s, 8, Do("fill", x))
  BY <1>1, <1>2 DEF Led
<1> QED
  BY <1>2, <1>4, <1>5, <1>6, <1>7, <1>8 DEF Sound, s

\* move_file, which removes its source between filling the handle and dropping
\* it.
LEMMA MoveFileIsSound ==
    ASSUME NEW r \in Requests, r.op = "move_file"
    PROVE  Sound(r, MoveFileSteps(r.path, r.dest))
<1> DEFINE s == MoveFileSteps(r.path, r.dest)
           p == r.path
           x == r.dest
<1>1. /\ s \in Seq(Items) /\ Len(s) = 9
      /\ s[1] = Do("absent", x) /\ s[2] = Do("open", p)
      /\ s[3] = Do("parent_exists", x) /\ s[4] = Do("parent_is_dir", x)
      /\ s[5] = Do("ensure_parent", x) /\ s[6] = Do("create_file", x)
      /\ s[7] = Do("fill", x) /\ s[8] = Do("remove_file", p) /\ s[9] = Do("drop", x)
  BY MoveShape DEF Requests
<1> HIDE DEF s
<1>2. DOMAIN s = {1, 2, 3, 4, 5, 6, 7, 8, 9}
  <2>1. DOMAIN s = 1 .. 9
    BY <1>1, LenProperties
  <2> QED
    BY <2>1
<1>p. p \in Paths /\ x \in Paths /\ p \in AnyPath /\ x \in AnyPath
  BY PathsAreSequences DEF Requests
<1>q. Below(x, r.dest) /\ Below(p, r.path) /\ Source(r, x) = p
  BY <1>p, BelowItself, RebaseOfTop DEF Source
<1> HIDE DEF p, x
<1>3. /\ s[1].do = "absent" /\ s[2].do = "open"
      /\ s[3].do = "parent_exists" /\ s[4].do = "parent_is_dir"
      /\ s[5].do = "ensure_parent" /\ s[6].do = "create_file" /\ s[6].path = x
      /\ s[7].do = "fill" /\ s[7].path = x /\ s[8].do = "remove_file" /\ s[8].path = p
      /\ s[9].do = "drop" /\ s[9].path = x
  BY <1>1, <1>p, DoItem DEF Steps
<1>4. s \in Seq(Fitting(r))
  <2>1. Makes(r, x)
    BY <1>q DEF Makes, CopyingOps
  <2>2. Do("remove_file", p) \in Fitting(r)
    <3>1. "remove_file" \in Steps \ {"walk_dir", "walk", "copy_entry"} /\ "remove_file" \notin Makings
      BY DEF Steps, Makings
    <3>2. r.op \in RemovingOps
      BY DEF RemovingOps, MovingOps
    <3> QED
      BY <1>p, <1>q, <3>1, <3>2, DoFits DEF Emptyings
  <2>3. \A i \in 1 .. 9 : s[i] \in Fitting(r)
    BY <1>1, <1>p, <2>1, <2>2, LooksFit, MakingsFit DEF Looks
  <2> QED
    BY <1>1, <2>3, SeqByItems
<1>5. Together(r, s)
  BY <1>2, <1>3 DEF Together
<1>6. /\ \A i \in 1 .. 5 : Needed(r, s[i]) = {}
      /\ Needed(r, s[6]) = {Do("parent_is_dir", x), Do("absent", x), Do("open", p)}
      /\ Needed(r, s[7]) = {Do("create_file", x)}
      /\ Needed(r, s[8]) = {Do("fill", x)}
      /\ Needed(r, s[9]) = {Do("fill", x)}
  BY <1>3, <1>q DEF Needed, CopyingOps, x
<1>7. /\ Led(r, s, 6, Do("parent_is_dir", x))
      /\ Led(r, s, 6, Do("absent", x)) /\ Led(r, s, 6, Do("open", p))
  <2>1. /\ \A k \in DOMAIN s : 4 < k /\ k < 6 => s[k].do \in Looks \ {"parent_is_dir"}
        /\ \A k \in DOMAIN s : 1 < k /\ k < 6 => s[k].do \in Looks \ {"absent"}
        /\ \A k \in DOMAIN s : 2 < k /\ k < 6 => s[k].do \in Looks \ {"open"}
    BY <1>2, <1>3 DEF Looks
  <2>2. /\ Passing(r, Do("parent_is_dir", x)) = Looks \ {"parent_is_dir"}
        /\ Passing(r, Do("absent", x)) = Looks \ {"absent"}
        /\ Passing(r, Do("open", p)) = Looks \ {"open"}
    BY PassingLooks DEF Looks
  <2> QED
    BY <1>1, <1>2, <2>1, <2>2 DEF Led
<1>8. /\ Led(r, s, 7, Do("create_file", x)) /\ Led(r, s, 8, Do("fill", x))
      /\ Led(r, s, 9, Do("fill", x))
  <2>1. Passing(r, Do("fill", x)) = {"remove_file"}
    BY <1>p, DoItem DEF Passing, Steps, Looks
  <2> QED
    BY <1>1, <1>2, <1>3, <2>1 DEF Led
<1> QED
  BY <1>2, <1>4, <1>5, <1>6, <1>7, <1>8 DEF Sound, s, p, x

\* append_file on the path it is asked for.
LEMMA AppendFileIsSound ==
    ASSUME NEW r, NEW x \in Paths, r.op = "append_file", x = r.path
    PROVE  Sound(r, AppendFileSteps(x))
<1> DEFINE a == Do("append_file", x)
           b == Do("fill", x)
           d == Do("drop", x)
           s == <<a, b, d>>
<1>1. /\ a.do = "append_file" /\ b.do = "fill" /\ b.path = x /\ d.do = "drop" /\ d.path = x
  BY DoItem DEF Steps
<1>2. a \in Fitting(r) /\ b \in Fitting(r) /\ d \in Fitting(r)
  <2>1. Makes(r, x)
    BY DEF Makes
  <2>2. /\ "append_file" \in Steps \ {"walk_dir", "walk", "copy_entry"}
        /\ "append_file" \notin Removals /\ "append_file" \notin Emptyings
    BY DEF Steps, Removals, Emptyings
  <2>3. a \in Fitting(r)
    BY <2>1, <2>2, DoFits
  <2> QED
    BY <2>1, <2>3, MakingsFit
<1>3. AppendFileSteps(x) = s
  BY DEF AppendFileSteps
<1>4. /\ Needed(r, a) = {} /\ Needed(r, b) = {a} /\ Needed(r, d) = {b}
  BY <1>1 DEF Needed
<1> HIDE DEF a, b, d
<1>5. /\ s \in Seq(Fitting(r)) /\ DOMAIN s = {1, 2, 3}
      /\ s[1] = a /\ s[2] = b /\ s[3] = d
  BY <1>2
<1> HIDE DEF s
<1>6. Together(r, s)
  BY <1>1, <1>5 DEF Together
<1>7. Led(r, s, 2, a) /\ Led(r, s, 3, b)
  BY <1>5 DEF Led
<1>8. Sound(r, s)
  BY <1>4, <1>5, <1>6, <1>7 DEF Sound
<1> QED
  BY <1>3, <1>8

\* remove_dir, on its own or at the end of a remove_dir_all.
LEMMA RemoveDirIsSound ==
    ASSUME NEW r, NEW p \in Paths, r.op \in {"remove_dir", "remove_dir_all", "move_dir"},
           Below(p, r.path)
    PROVE  Sound(r, RemoveDirSteps(p))
<1> DEFINE a == Do("list_empty", p)
           b == Do("remove_file", p)
           s == <<a, b>>
<1>1. a.do = "list_empty" /\ b.do = "remove_file" /\ b.path = p
  BY DoItem DEF Steps
<1>2. a \in Fitting(r) /\ b \in Fitting(r)
  <2>1. r.op \in RemovingOps
    BY DEF RemovingOps, MovingOps
  <2>2. /\ {"list_empty", "remove_file"} \subseteq Steps \ {"walk_dir", "walk", "copy_entry"}
        /\ "list_empty" \notin Makings \cup Emptyings
        /\ "remove_file" \notin Makings \cup Emptyings
    BY DEF Steps, Makings, Emptyings
  <2>3. /\ "list_empty" # "append_file" /\ "list_empty" # "ensure_dir"
        /\ "remove_file" # "append_file" /\ "remove_file" # "ensure_dir"
    OBVIOUS
  <2> QED
    BY <2>1, <2>2, <2>3, DoFits
<1>3. RemoveDirSteps(p) = s
  BY DEF RemoveDirSteps
<1>4. Needed(r, a) = {} /\ Needed(r, b) \subseteq {a}
  BY <1>1 DEF Needed
<1> HIDE DEF a, b
<1>5. s \in Seq(Fitting(r)) /\ DOMAIN s = {1, 2} /\ s[1] = a /\ s[2] = b
  BY <1>2
<1> HIDE DEF s
<1>6. Together(r, s)
  BY <1>1, <1>5 DEF Together
<1>7. Led(r, s, 2, a)
  BY <1>5 DEF Led
<1>8. Sound(r, s)
  BY <1>4, <1>5, <1>6, <1>7 DEF Sound
<1> QED
  BY <1>3, <1>8

\* Two looks, one after the other.
LEMMA TwoLooksAreSound ==
    ASSUME NEW r, NEW p \in Paths, NEW a \in Looks \ {"list_empty"}, NEW b \in Looks \ {"list_empty"}
    PROVE  Sound(r, <<Do(a, p), Do(b, p)>>)
<1> DEFINE x == Do(a, p)
           y == Do(b, p)
           s == <<x, y>>
<1>1. x.do = a /\ y.do = b
  BY DEF Do
<1>2. x \in Fitting(r) /\ y \in Fitting(r)
  BY LooksFit
<1>3. Needed(r, x) = {} /\ Needed(r, y) = {}
  BY <1>1 DEF Needed, Looks
<1> HIDE DEF x, y
<1>4. s \in Seq(Fitting(r)) /\ DOMAIN s = {1, 2} /\ s[1] = x /\ s[2] = y
  BY <1>2
<1> HIDE DEF s
<1>5. Together(r, s)
  BY <1>1, <1>4 DEF Together, Looks
<1>6. Sound(r, s)
  BY <1>3, <1>4, <1>5 DEF Sound
<1> QED
  BY <1>6 DEF s, x, y

\* create_dir_all makes the directories above a path, from the top down.
LEMMA CreateDirAllIsSound ==
    ASSUME NEW r \in Requests, r.op = "create_dir_all"
    PROVE  Sound(r, CreateDirAllSteps(r.path))
<1> DEFINE p == r.path
           s == CreateDirAllSteps(p)
<1>1. p \in Paths /\ p \in AnyPath /\ Len(p) \in Nat
  BY PathsAreSequences DEF Requests, AnyPath
<1>2. ASSUME NEW n \in 1 .. 2 * Len(p)
      PROVE  /\ s[n] \in Fitting(r) /\ s[n].do \in {"ensure_parent", "ensure_dir"}
  <2> DEFINE m == (n + 1) \div 2
             x == SubSeq(p, 1, m)
             do == IF n % 2 = 1 THEN "ensure_parent" ELSE "ensure_dir"
  <2>1. m \in 1 .. Len(p)
    BY <1>1
  <2> HIDE DEF m
  <2>2. x \in Paths /\ Below(p, x)
    <3>1. m \in 0 .. Len(p)
      BY <1>1, <2>1
    <3>2. x \in Beginnings(p)
      BY <3>1 DEF Beginnings
    <3> QED
      BY <1>1, <2>1, <3>2, BeginningsArePaths, BelowItsBeginnings
  <2>3. s[n] = Do(do, x)
    BY DEF CreateDirAllSteps, m
  <2>4. do \in {"ensure_parent", "ensure_dir"}
    OBVIOUS
  <2> HIDE DEF do, x, s
  <2>5. Makes(r, x)
    BY <2>2 DEF Makes, p
  <2>6. /\ do \in Steps \ {"walk_dir", "walk", "copy_entry"}
        /\ do \notin Removals /\ do \notin Emptyings /\ do # "append_file"
    BY <2>4 DEF Steps, Removals, Emptyings
  <2>7. Do(do, x) \in Fitting(r)
    BY <2>2, <2>5, <2>6, DoFits
  <2>8. Do(do, x).do = do
    BY DEF Do
  <2> QED
    BY <2>3, <2>4, <2>7, <2>8
<1>3. DOMAIN s = 1 .. 2 * Len(p) /\ s \in Seq(Fitting(r))
  <2>1. DOMAIN s = 1 .. 2 * Len(p) /\ 2 * Len(p) \in Nat
    BY <1>1 DEF CreateDirAllSteps
  <2>2. s = [n \in 1 .. 2 * Len(p) |-> s[n]]
    BY DEF CreateDirAllSteps
  <2> HIDE DEF s
  <2>3. s \in [1 .. 2 * Len(p) -> Fitting(r)]
    BY <1>2, <2>1, <2>2
  <2> QED
    BY <2>1, <2>3, SeqDef
<1> HIDE DEF s
<1>4. Together(r, s)
  BY <1>2, <1>3 DEF Together
<1>5. \A i \in DOMAIN s : Needed(r, s[i]) = {}
  BY <1>2, <1>3 DEF Needed
<1> QED
  BY <1>3, <1>4, <1>5 DEF Sound, s, p

\* What is left of a directory that is being emptied.
LEMMA RestIsSound ==
    ASSUME NEW r, NEW p \in Paths, NEW left \in SUBSET Paths,
           r.op \in {"remove_dir_all", "move_dir"}, Below(p, r.path),
           \A c \in left : Below(c, r.path)
    PROVE  Sound(r, Rest(p, left))
<1> DEFINE it == [Do("children", p) EXCEPT !.left = left]
<1>1. it \in Items /\ it.do = "children" /\ it.path = p /\ it.left = left
  <2>1. Do("children", p) \in Items
    BY DoItem DEF Steps
  <2> QED
    BY <2>1 DEF Items, Do
<1> HIDE DEF it
<1>2. it \in Fitting(r)
  <2>1. r.op \in RemovingOps
    BY DEF RemovingOps, MovingOps
  <2> QED
    BY <1>1, <2>1 DEF Fitting, Inside, Makings, Emptyings
<1>3. Sound(r, <<it>>)
  BY <1>1, <1>2, OneIsSound
<1>4. Rest(p, left) = IF left = {} THEN << >> ELSE <<it>>
  BY DEF Rest, it
<1> QED
  BY <1>3, <1>4, NothingIsSound

\* What is left of a walk.
LEMMA WalkIsSound ==
    ASSUME NEW r, NEW it \in Fitting(r), it.do \in {"walk_dir", "walk"},
           NEW left \in SUBSET Paths, NEW held \in SUBSET Paths, NEW todo \in Seq(Paths),
           r.op # "walk_dir" =>
              /\ \A c \in left \cup held : Below(c, r.path)
              /\ \A i \in DOMAIN todo : Below(todo[i], r.path),
           \A c, d \in held : c = d
    PROVE  Sound(r, Walk(it, left, held, todo))
<1> DEFINE w == [it EXCEPT !.do = "walk", !.left = left, !.held = held, !.todo = todo]
<1>1. CASE left \cup held = {} /\ todo = << >>
  BY <1>1, NothingIsSound DEF Walk
<1>2. CASE ~(left \cup held = {} /\ todo = << >>)
  <2>1. it \in Items /\ Inside(r, it)
    BY DEF Fitting
  <2>2. /\ w \in Items /\ w.do = "walk" /\ w.path = it.path /\ w.dest = it.dest
        /\ w.left = left /\ w.held = held /\ w.todo = todo
    BY <2>1 DEF Items, Steps
  <2> HIDE DEF w
  <2>3. Inside(r, w)
    <3>1. r.op # "walk_dir" =>
             /\ r.op \in {"copy_dir", "move_dir"}
             /\ w.path = r.path /\ w.dest = r.dest
      BY <2>1, <2>2 DEF Inside
    <3>2. r.op # "walk_dir" => \A c \in Ahead(w) : Below(c, r.path)
      BY <2>2 DEF Ahead
    <3> QED
      BY <1>2, <2>2, <3>1, <3>2 DEF Inside, Makings, Removals, Emptyings
  <2>4. Sound(r, <<w>>)
    BY <2>2, <2>3, OneIsSound DEF Fitting
  <2>5. Walk(it, left, held, todo) = <<w>>
    BY <1>2 DEF Walk, w
  <2> QED
    BY <2>4, <2>5
<1> QED
  BY <1>1, <1>2

\* The first walk of a request.
LEMMA WalkDirItem ==
    ASSUME NEW p \in Paths, NEW q \in Paths
    PROVE  LET w == [Do("walk_dir", p) EXCEPT !.dest = q] IN
           /\ w \in Items /\ w.do = "walk_dir" /\ w.path = p /\ w.dest = q
           /\ Ahead(w) = {}
<1>1. Do("walk_dir", p) \in Items
  BY DoItem DEF Steps
<1>2. DOMAIN << >> = {}
  OBVIOUS
<1> QED
  BY <1>1, <1>2 DEF Items, Do, Ahead

LEMMA AbsentIsSound ==
    ASSUME NEW r, NEW q \in Paths
    PROVE  Sound(r, <<Do("absent", q)>>)
<1>1. Do("absent", q) \in Fitting(r) /\ Do("absent", q).do = "absent"
  BY LooksFit DEF Looks, Do
<1> QED
  BY <1>1, OneIsSound

\* copy_dir and move_dir.
LEMMA CopyDirIsSound ==
    ASSUME NEW r \in Requests, r.op \in {"copy_dir", "move_dir"}
    PROVE  Sound(r, CopyDirSteps(r.path, r.dest))
<1> DEFINE w == [Do("walk_dir", r.path) EXCEPT !.dest = r.dest]
           a == Do("absent", r.dest)
           m == CreateDirSteps(r.dest)
<1>1. r.path \in Paths /\ r.dest \in Paths /\ r.dest \in AnyPath
  BY PathsAreSequences DEF Requests
<1>2. Sound(r, <<a>>)
  BY <1>1, AbsentIsSound
<1>3. Sound(r, m)
  <2>1. Makes(r, r.dest)
    BY <1>1, BelowItself DEF Makes, CopyingOps
  <2> QED
    BY <1>1, <2>1, CreateDirIsSound
<1>4. Sound(r, <<w>>)
  <2>1. w \in Items /\ w.do = "walk_dir" /\ w.path = r.path /\ w.dest = r.dest /\ Ahead(w) = {}
    BY <1>1, WalkDirItem
  <2> HIDE DEF w
  <2>2. w \in Fitting(r)
    BY <2>1 DEF Fitting, Inside, Makings, Removals, Emptyings
  <2> QED
    BY <2>1, <2>2, OneIsSound
<1>5. CopyDirSteps(r.path, r.dest) = (<<a>> \o m) \o <<w>>
  BY DEF CopyDirSteps
<1> HIDE DEF w, a, m
<1>6. Sound(r, <<a>> \o m)
  BY <1>2, <1>3, SoundConcat
<1>7. Sound(r, (<<a>> \o m) \o <<w>>)
  BY <1>4, <1>6, SoundConcat
<1> QED
  BY <1>5, <1>7

LEMMA RemoveDirAllFits ==
    ASSUME NEW r, NEW p \in Paths, r.op \in {"remove_dir_all", "move_dir"}, Below(p, r.path)
    PROVE  Sound(r, <<Do("remove_dir_all", p)>>) /\ Sound(r, <<Do("list", p)>>)
<1>1. r.op \in RemovingOps
  BY DEF RemovingOps, MovingOps
<1>2. ASSUME NEW do \in {"remove_dir_all", "list"}
      PROVE  Sound(r, <<Do(do, p)>>)
  <2>1. /\ do \in Steps \ {"walk_dir", "walk", "copy_entry"}
        /\ do \notin Makings /\ do # "append_file" /\ do # "ensure_dir"
    BY DEF Steps, Makings
  <2>2. Do(do, p) \in Fitting(r) /\ Do(do, p).do = do
    BY <1>1, <2>1, DoFits DEF Do
  <2> QED
    BY <2>2, OneIsSound
<1> QED
  BY <1>2

LEMMA MoveDirIsSound ==
    ASSUME NEW r \in Requests, r.op = "move_dir"
    PROVE  /\ MoveDirSteps(r.path, r.dest)
                = CopyDirSteps(r.path, r.dest) \o <<Do("remove_dir_all", r.path)>>
           /\ Sound(r, MoveDirSteps(r.path, r.dest))
<1> DEFINE s == CopyDirSteps(r.path, r.dest)
           it == Do("remove_dir_all", r.path)
<1>1. r.path \in Paths /\ Below(r.path, r.path)
  BY PathsAreSequences, BelowItself DEF Requests
<1>2. Sound(r, s) /\ Sound(r, <<it>>)
  BY <1>1, CopyDirIsSound, RemoveDirAllFits
<1>3. MoveDirSteps(r.path, r.dest) = Append(s, it)
  BY DEF MoveDirSteps
<1>4. it \in Items
  BY <1>1, DoItem DEF Steps
<1> HIDE DEF s, it
<1>5. s \in Seq(Items)
  <2>1. s \in Seq(Fitting(r)) /\ Fitting(r) \subseteq Items
    BY <1>2 DEF Sound, Fitting
  <2> QED
    BY <2>1, SeqByItems, LenProperties, ElementOfSeq
<1>6. Append(s, it) = s \o <<it>>
  BY <1>4, <1>5, AppendIsConcat
<1>7. Sound(r, s \o <<it>>)
  BY <1>2, SoundConcat
<1> QED
  BY <1>3, <1>6, <1>7 DEF s, it

LEMMA FittingIsItems ==
    ASSUME NEW r, NEW s \in Seq(Fitting(r))
    PROVE  s \in Seq(Items)
<1>1. Fitting(r) \subseteq Items
  BY DEF Fitting
<1> QED
  BY <1>1, SeqByItems, LenProperties, ElementOfSeq

\* So what every request begins with is sound.
LEMMA StepsOfAreSound ==
    ASSUME NEW r \in Requests
    PROVE  Sound(r, StepsOf(r))
<1> DEFINE p == r.path
           q == r.dest
<1>1. /\ p \in Paths /\ q \in Paths /\ p \in AnyPath /\ q \in AnyPath
      /\ Below(p, p) /\ Below(q, q) /\ Source(r, q) = p
  BY PathsAreSequences, BelowItself, RebaseOfTop DEF Requests, Source
<1>2. ASSUME r.op = "create_dir" PROVE Sound(r, CreateDirSteps(p))
  BY <1>1, <1>2, CreateDirIsSound DEF Makes
<1>3. ASSUME r.op = "create_dir_all" PROVE Sound(r, CreateDirAllSteps(p))
  BY <1>3, CreateDirAllIsSound
<1>4. ASSUME r.op = "write_file" PROVE Sound(r, WriteFileSteps(p))
  BY <1>1, <1>4, WriteFileIsSound
<1>5. ASSUME r.op = "append_file" PROVE Sound(r, AppendFileSteps(p))
  BY <1>1, <1>5, AppendFileIsSound
<1>6. Sound(r, ReadSteps(p)) /\ Sound(r, StatusSteps(p))
  BY <1>1, TwoLooksAreSound DEF ReadSteps, StatusSteps, Looks
<1>7. ASSUME r.op = "copy_file" PROVE Sound(r, CopyFileSteps(p, q))
  BY <1>1, <1>7, CopyFileIsSound DEF CopyingOps
<1>8. ASSUME r.op = "move_file" PROVE Sound(r, MoveFileSteps(p, q))
  BY <1>8, MoveFileIsSound
<1>9. ASSUME r.op = "copy_dir" PROVE Sound(r, CopyDirSteps(p, q))
  BY <1>9, CopyDirIsSound
<1>10. ASSUME r.op = "move_dir" PROVE Sound(r, MoveDirSteps(p, q))
  BY <1>10, MoveDirIsSound
<1>11. ASSUME r.op = "remove_dir" PROVE Sound(r, RemoveDirSteps(p))
  BY <1>1, <1>11, RemoveDirIsSound
<1>12. ASSUME r.op = "remove_dir_all" PROVE Sound(r, <<Do(r.op, p)>>)
  BY <1>1, <1>12, RemoveDirAllFits
<1>13. ASSUME r.op = "remove_file" PROVE Sound(r, <<Do(r.op, p)>>)
  <2>1. /\ "remove_file" \in Steps \ {"walk_dir", "walk", "copy_entry"}
        /\ "remove_file" \notin Makings \cup Emptyings
    BY DEF Steps, Makings, Emptyings
  <2>2. r.op \in RemovingOps
    BY <1>13 DEF RemovingOps
  <2>3. Do("remove_file", p) \in Fitting(r) /\ Do("remove_file", p).do = "remove_file"
    BY <1>1, <1>13, <2>1, <2>2, DoFits DEF Do
  <2> QED
    BY <1>13, <2>3, OneIsSound
<1>14. ASSUME r.op = "set_time" PROVE Sound(r, <<Do(r.op, p)>>)
  <2>1. Do("set_time", p) \in Fitting(r) /\ Do("set_time", p).do = "set_time"
    BY <1>1, LooksFit DEF Looks, Do
  <2> QED
    BY <1>14, <2>1, OneIsSound
<1>15. ASSUME r.op = "walk_dir" PROVE Sound(r, <<Do(r.op, p)>>)
  <2>1. Do("walk_dir", p) \in Items /\ Do("walk_dir", p).do = "walk_dir"
    BY <1>1, DoItem DEF Steps
  <2> DEFINE it == Do("walk_dir", p)
  <2> HIDE DEF it
  <2>2. it \in Fitting(r)
    BY <1>15, <2>1 DEF Fitting, Inside, Makings, Removals, Emptyings, it
  <2> QED
    BY <1>15, <2>1, <2>2, OneIsSound DEF it
<1>16. r.op \in AsyncOps
  BY DEF Requests
<1> QED
  BY <1>2, <1>3, <1>4, <1>5, <1>6, <1>7, <1>8, <1>9, <1>10, <1>11, <1>12, <1>13, <1>14, <1>15, <1>16
  DEF StepsOf, AsyncOps, p, q

-----------------------------------------------------------------------------
(* What a step leaves of what a task knows.                                 *)

\* Whatever a task knows it knows until it, or one who has no business there,
\* changes what it is about.
LEMMA KnownStays ==
    ASSUME NEW t \in Tasks, NEW c, Known(t, c),
           AsyncTypeOK, script \in Scripts,
           c.do # "open" => c.path \in Paths,
           c.do = "list_empty" => Below(c.path, job[t].request.path),
           script' = script, before' = before,
           writer'[t] = writer[t], at'[t] = at[t],
           job'[t].request = job[t].request,
           c.do \in {"open", "create_file", "append_file"} => job'[t].data = job[t].data,
           \A x \in Paths : Mine(t, x) => files'[x] = files[x]
    PROVE  Known(t, c)'
<1> DEFINE r == job[t].request
<1>1. /\ r \in Requests /\ r.path \in Paths /\ r.path \in AnyPath /\ Paths \subseteq AnyPath
  <2>1. r \in Requests
    BY DEF AsyncTypeOK
  <2> QED
    BY <2>1, PathsAreSequences DEF Requests
<1>2. \A x : Mine(t, x)' <=> Mine(t, x)
  BY DEF Mine
<1>3. /\ \A p : Undisturbed(t, p)' <=> Undisturbed(t, p)
      /\ Alone(t)' <=> Alone(t)
  BY DEF Undisturbed, Alone
<1>4. Moved(t)' = Moved(t)
  BY DEF Moved
<1>5. \A data, z : RightData(t, data, z) => (Alone(t)' /\ z \in Moved(t)' => data = before'[z].content)
  BY <1>3, <1>4 DEF RightData
<1>6. ASSUME c.do = "parent_is_dir", Mine(t, Parent(c.path))'
      PROVE  IsDirectory(files, Parent(c.path))'
  <2>1. Parent(c.path) \in Paths /\ Mine(t, Parent(c.path))
    BY <1>2, <1>6, PathsAssumption
  <2> QED
    BY <1>6, <2>1 DEF Known, IsDirectory
<1>7. ASSUME c.do = "absent", Mine(t, c.path)'
      PROVE  ~Exists(files, c.path)'
  BY <1>2, <1>7 DEF Known, Exists
<1>8. ASSUME c.do = "list_empty", Undisturbed(t, r.path)
      PROVE  (Children(files, c.path) = {})'
  <2>1. Children(files, c.path) = {}
    BY <1>8 DEF Known
  <2>2. ASSUME NEW y \in Paths \ {Root}, Parent(y) = c.path PROVE files'[y] = files[y]
    <3>1. y \in AnyPath /\ c.path \in AnyPath /\ Below(y, c.path)
      BY <1>1, <1>8, <2>2, BelowParent
    <3>2. Below(y, r.path)
      BY <1>1, <1>8, <3>1, BelowTransitive
    <3>3. Mine(t, y)
      BY <1>8, <3>2 DEF Mine, Undisturbed
    <3> QED
      BY <3>3
  <2> QED
    BY <2>1, <2>2 DEF Children, Exists
<1>9. ASSUME NEW x \in Paths, Held(t, x)
      PROVE  Held(t, x)'
  BY <1>2, <1>9 DEF Held, IsFile
<1>10. ASSUME c.do = "open" PROVE RightData(t, job[t].data, c.path)'
  <2>1. job'[t].data = job[t].data
    BY <1>10
  <2>2. RightData(t, job[t].data, c.path)
    BY <1>10 DEF Known
  <2> QED
    BY <1>5, <2>1, <2>2 DEF RightData
<1>11. ASSUME c.do \in {"create_file", "append_file"}
       PROVE  Held(t, c.path)' /\ RightData(t, job[t].data, Source(r, c.path))'
  <2>1. job'[t].data = job[t].data
    BY <1>11
  <2>2. Held(t, c.path) /\ RightData(t, job[t].data, Source(r, c.path))
    BY <1>11 DEF Known
  <2>3. Held(t, c.path)'
    BY <1>9, <1>11, <2>2
  <2> QED
    BY <1>5, <2>1, <2>2, <2>3 DEF RightData
<1>12. ASSUME c.do = "fill"
       PROVE  Held(t, c.path)' /\ RightData(t, writer[t].buf, Source(r, c.path))'
  BY <1>5, <1>9, <1>12 DEF Known, RightData
<1>13. c.do = "create_file" => writer'[t].buf = << >>
  BY DEF Known
<1> QED
  BY <1>3, <1>6, <1>7, <1>8, <1>10, <1>11, <1>12, <1>13 DEF Known

\* What some step of request r may rely on.
Checks(r) == UNION {Needed(r, it) : it \in Fitting(r)}

LEMMA ChecksShape ==
    ASSUME NEW r \in Requests, NEW c \in Checks(r)
    PROVE  /\ c.do \in {"parent_is_dir", "absent", "open", "list_empty", "create_file",
                        "append_file", "fill"}
           /\ c.do # "open" => c.path \in Paths
           /\ c.do = "list_empty" => Below(c.path, r.path)
<1>1. PICK it \in Fitting(r) : c \in Needed(r, it)
  BY DEF Checks
<1>2. it.path \in Paths /\ r.dest \in Paths /\ Inside(r, it)
  BY DEF Fitting, Items, Requests
<1>3. \/ c = Do("parent_is_dir", it.path)
      \/ c = Do("absent", it.path) \/ c = Do("open", Source(r, it.path))
      \/ c = Do("list_empty", it.path) /\ it.do = "remove_file"
      \/ c = Do("fill", r.dest)
      \/ c = Do("append_file", it.path) \/ c = Do("create_file", it.path)
      \/ c = Do("fill", it.path)
  BY <1>1 DEF Needed
<1>4. \A do, p : Do(do, p).do = do /\ Do(do, p).path = p
  BY DEF Do
<1>5. it.do = "remove_file" => Below(it.path, r.path)
  BY <1>2 DEF Inside, Removals
<1> QED
  BY <1>2, <1>3, <1>4, <1>5

\* Steps that put other steps in their place pass nothing by.
LEMMA ExpandingPassesNothing ==
    ASSUME NEW r \in Requests, NEW c \in Checks(r), NEW do \in Expanding
    PROVE  do \notin Passing(r, c) /\ c.do \notin Expanding
<1>1. c.do \in {"parent_is_dir", "absent", "open", "list_empty", "create_file",
                "append_file", "fill"}
  BY ChecksShape
<1> QED
  BY <1>1 DEF Passing, Looks, Expanding, Emptyings

\* A step that is done, and what comes in its place, leave every step that is
\* left guarded.
LEMMA GuardsAfter ==
    ASSUME NEW t \in Tasks, Guarded(t), Busy(t), job[t].request \in Requests,
           NEW steps \in Seq(Fitting(job[t].request)), Together(job[t].request, steps),
           \A i \in DOMAIN steps : \A c \in Needed(job[t].request, steps[i]) :
                \/ Led(job[t].request, steps, i, c)
                \/ Clear(job[t].request, steps, i, c) /\ Known(t, c)',
           job'[t].request = job[t].request,
           job'[t].agenda = steps \o Tail(job[t].agenda),
           steps # << >> => Now(t).do \in Expanding,
           \A c \in Checks(job[t].request) :
                Now(t) = c \/ (Now(t).do \in Passing(job[t].request, c) /\ Known(t, c))
                    => Known(t, c)'
    PROVE  Guarded(t)'
<1> DEFINE r == job[t].request
           s == job[t].agenda
           u == Tail(s)
           n == Len(steps)
           w == steps \o u
<1>1. s # << >> /\ s \in Seq(Fitting(r)) /\ Together(r, s)
  BY DEF Guarded, Busy
<1>2. \A i \in DOMAIN s : \A c \in Needed(r, s[i]) :
          Led(r, s, i, c) \/ (Clear(r, s, i, c) /\ Known(t, c))
  BY DEF Guarded
<1>3. Head(s) = Now(t)
  BY DEF Now
<1> HIDE DEF s
<1>4. /\ u \in Seq(Fitting(r)) /\ DOMAIN u = 1 .. Len(s) - 1
      /\ \A i \in DOMAIN u : u[i] = s[i + 1] /\ i + 1 \in DOMAIN s
  BY <1>1, AgendaTail
<1>5. Together(r, u)
  BY <1>1, TogetherInTail
<1>6. w \in Seq(Fitting(r)) /\ Together(r, w)
  <2>1. steps \in Seq(Fitting(r)) /\ u \in Seq(Fitting(r))
    BY <1>4
  <2> QED
    BY <1>5, <2>1, AgendaConcat, TogetherInConcat
<1>7. /\ n \in Nat
      /\ \A i \in DOMAIN steps : w[i] = steps[i]
      /\ \A i \in DOMAIN u : w[n + i] = u[i]
      /\ \A i \in DOMAIN w : i \in DOMAIN steps \/ \E k \in DOMAIN u : i = n + k
  <2>1. steps \in Seq(Fitting(r)) /\ u \in Seq(Fitting(r))
    BY <1>4
  <2> HIDE DEF u
  <2>2. /\ Len(steps) \in Nat
        /\ \A i \in DOMAIN steps : (steps \o u)[i] = steps[i]
        /\ \A i \in DOMAIN u : (steps \o u)[Len(steps) + i] = u[i]
        /\ \A i \in DOMAIN (steps \o u) : i \in DOMAIN steps \/ \E k \in DOMAIN u : i = Len(steps) + k
    BY <2>1, AgendaConcat
  <2> QED
    BY <2>2
<1>8. ASSUME NEW c, NEW i \in DOMAIN steps
      PROVE  /\ Led(r, steps, i, c) => Led(r, w, i, c)
             /\ Clear(r, steps, i, c) => Clear(r, w, i, c)
  <2>1. steps \in Seq(Fitting(r)) /\ u \in Seq(Fitting(r))
    BY <1>4
  <2> QED
    BY <2>1, LedInConcat
<1>9. ASSUME NEW c, NEW i \in DOMAIN u
      PROVE  Led(r, u, i, c) => Led(r, w, n + i, c)
  <2>1. steps \in Seq(Fitting(r)) /\ u \in Seq(Fitting(r))
    BY <1>4
  <2> QED
    BY <2>1, LedInConcat
<1>10. ASSUME NEW k \in DOMAIN u, NEW c \in Needed(r, u[k])
       PROVE  Led(r, w, n + k, c) \/ (Clear(r, w, n + k, c) /\ Known(t, c)')
  <2>1. u[k] = s[k + 1] /\ k + 1 \in DOMAIN s /\ u[k] \in Fitting(r)
    BY <1>4, ElementOfSeq, LenProperties
  <2>2. c \in Checks(r)
    BY <2>1 DEF Checks
  <2>3. Led(r, s, k + 1, c) \/ (Clear(r, s, k + 1, c) /\ Known(t, c))
    BY <1>2, <2>1
  <2>4. CASE Led(r, u, k, c)
    BY <1>9, <2>4
  <2>5. CASE Clear(r, u, k, c) /\ (Head(s) = c \/ (Head(s).do \in Passing(r, c) /\ Known(t, c)))
    <3>1. Known(t, c)'
      BY <1>3, <2>2, <2>5
    <3>2. Now(t).do \notin Expanding
      BY <1>3, <2>2, <2>5, ExpandingPassesNothing
    <3>3. steps = << >>
      BY <3>2
    <3>4. w = u /\ n + k = k
      <4>1. w = u
        BY <1>4, <3>3, ConcatEmptySeq
      <4>2. n = 0 /\ k \in Nat
        BY <1>4, <3>3
      <4> QED
        BY <4>1, <4>2
    <3> QED
      BY <2>5, <3>1, <3>4
  <2>6. Led(r, s, k + 1, c) => Led(r, u, k, c) \/ (Head(s) = c /\ Clear(r, u, k, c))
    BY <1>1, LedInTail
  <2>7. Clear(r, s, k + 1, c) => Head(s).do \in Passing(r, c) /\ Clear(r, u, k, c)
    BY <1>1, ClearInTail
  <2> QED
    BY <2>3, <2>4, <2>5, <2>6, <2>7
<1> HIDE DEF w, n, u
<1>11. ASSUME NEW i \in DOMAIN w, NEW c \in Needed(r, w[i])
       PROVE  Led(r, w, i, c) \/ (Clear(r, w, i, c) /\ Known(t, c)')
  <2>1. CASE i \in DOMAIN steps
    BY <1>7, <1>8, <1>11, <2>1
  <2>2. ASSUME NEW k \in DOMAIN u, i = n + k
        PROVE  Led(r, w, i, c) \/ (Clear(r, w, i, c) /\ Known(t, c)')
    BY <1>7, <1>10, <1>11, <2>2
  <2> QED
    BY <1>7, <2>1, <2>2
<1>12. job'[t].agenda = w
  BY DEF w, u, s
<1> QED
  BY <1>6, <1>11, <1>12 DEF Guarded

-----------------------------------------------------------------------------
(* What a step does, whichever it is.                                       *)

Jobs == [request : Requests, agenda : Seq(Items), data : Contents,
         yielded : Seq(Paths), code : Codes \cup {"Cancelled"}]

\* The task's call is where it was but for its agenda and what it has got.
Turned(t) ==
    /\ \A u \in Tasks \ {t} : job'[u] = job[u]
    /\ job'[t].request = job[t].request
    /\ job'[t].agenda \in Seq(Items) => job' \in [Tasks -> Jobs]
    /\ UNCHANGED <<script, at, before>>

\* The call ends; a handle that is open is still to be dropped.
GaveUp(t) ==
    /\ Busy(t) /\ Now(t).do \notin {"fill", "drop"}
    /\ UNCHANGED fsVars
    /\ job'[t].agenda = IF writer[t].open THEN <<Do("drop", writer[t].path)>> ELSE << >>

WentOn(t) == job'[t].agenda = Tail(job[t].agenda)

\* It has looked at the map and found what it hoped for.
Looked(t) ==
    /\ At(t, Looks) /\ WentOn(t)
    /\ UNCHANGED fsVars
    /\ LET p == Now(t).path IN
       /\ Now(t).do = "parent_is_dir" => IsDirectory(files, Parent(p))
       /\ Now(t).do = "absent" => ~Exists(files, p)
       /\ Now(t).do = "list_empty" => Children(files, p) = {}
       /\ Now(t).do = "open" => IsFile(files, p) /\ job'[t].data = files[p].content
       /\ Now(t).do # "open" => job'[t].data = job[t].data

\* It has made, opened, filled, dropped or removed an entry.
MadeDir(t) ==
    /\ At(t, {"create_dir", "ensure_dir"}) /\ WentOn(t)
    /\ CreateDirInsert(Now(t).path)
    /\ job'[t].data = job[t].data
MadeFile(t) ==
    /\ At(t, {"create_file"}) /\ WentOn(t)
    /\ CreateFileInsert(t, Now(t).path)
    /\ job'[t].data = job[t].data
Opened(t) ==
    /\ At(t, {"append_file"}) /\ WentOn(t)
    /\ Exists(files, Now(t).path) /\ AppendFile(t, Now(t).path)
    /\ job'[t].data = job[t].data
Filled(t) == At(t, {"fill"}) /\ WentOn(t) /\ PollWrite(t, job[t].data)
Dropped(t) == At(t, {"drop"}) /\ WentOn(t) /\ Drop(t)
Removed(t) == At(t, {"remove_file"}) /\ WentOn(t) /\ RemoveFile(Now(t).path)

\* It has put other steps in the place of the present one.
Expanded(t, steps) ==
    /\ At(t, Expanding)
    /\ job'[t].agenda = steps \o Tail(job[t].agenda)
    /\ UNCHANGED fsVars

LEMMA JobTypes ==
    ASSUME AsyncTypeOK, NEW t \in Tasks
    PROVE  /\ job \in [Tasks -> Jobs] /\ job[t] \in Jobs
           /\ job[t].request \in Requests /\ job[t].agenda \in Seq(Items)
           /\ job[t].data \in Contents /\ job[t].yielded \in Seq(Paths)
           /\ job[t].code \in Codes \cup {"Cancelled"}
<1>1. job \in [Tasks -> Jobs]
  BY DEF AsyncTypeOK, Jobs
<1>2. job[t] \in Jobs
  BY <1>1
<1> QED
  BY <1>1, <1>2 DEF Jobs

LEMMA NowTypes ==
    ASSUME AsyncTypeOK, NEW t \in Tasks, Busy(t)
    PROVE  /\ Now(t) \in Items /\ Now(t).path \in Paths /\ Now(t).dest \in Paths
           /\ Now(t).left \in SUBSET Paths /\ Now(t).held \in SUBSET Paths
           /\ Now(t).todo \in Seq(Paths)
<1>1. job[t].agenda \in Seq(Items) /\ job[t].agenda # << >>
  BY JobTypes DEF Busy
<1>2. Now(t) \in Items
  BY <1>1, AgendaTail DEF Now
<1> QED
  BY <1>2 DEF Items

LEMMA ResumeTurns ==
    ASSUME AsyncTypeOK, NEW t \in Tasks, NEW steps, Resume(t, steps),
           UNCHANGED <<script, at, before>>
    PROVE  /\ Turned(t)
           /\ job'[t].agenda = steps \o Tail(job[t].agenda)
           /\ job'[t].data = job[t].data
<1> DEFINE a == steps \o Tail(job[t].agenda)
<1>1. job \in [Tasks -> Jobs] /\ job[t] \in Jobs
  BY JobTypes
<1>2. job' = [job EXCEPT ![t].agenda = a]
  BY <1>1 DEF Resume
<1> HIDE DEF a
<1>3. /\ job'[t].agenda = a /\ job'[t].data = job[t].data
      /\ job'[t].request = job[t].request
  BY <1>1, <1>2 DEF Jobs
<1>4. a \in Seq(Items) => job' \in [Tasks -> Jobs]
  BY <1>1, <1>2 DEF Jobs
<1>5. \A u \in Tasks \ {t} : job'[u] = job[u]
  BY <1>1, <1>2
<1> QED
  BY <1>3, <1>4, <1>5 DEF Turned, a

LEMMA AbortTurns ==
    ASSUME AsyncTypeOK, NEW t \in Tasks, NEW code \in Codes \cup {"Cancelled"}, Abort(t, code),
           Busy(t), Now(t).do \notin {"fill", "drop"},
           UNCHANGED fsVars, UNCHANGED <<script, at, before>>
    PROVE  Turned(t) /\ GaveUp(t)
<1> DEFINE a == IF writer'[t].open THEN <<Do("drop", writer[t].path)>> ELSE << >>
<1>1. job \in [Tasks -> Jobs] /\ job[t] \in Jobs
  BY JobTypes
<1>2. job' = [job EXCEPT ![t].code = code, ![t].agenda = a]
  BY DEF Abort
<1>3. a = IF writer[t].open THEN <<Do("drop", writer[t].path)>> ELSE << >>
  BY DEF fsVars
<1> HIDE DEF a
<1>4. job'[t].agenda = a /\ job'[t].request = job[t].request
  BY <1>1, <1>2 DEF Jobs
<1>5. a \in Seq(Items) => job' \in [Tasks -> Jobs]
  BY <1>1, <1>2 DEF Jobs
<1>6. \A u \in Tasks \ {t} : job'[u] = job[u]
  BY <1>1, <1>2
<1> QED
  BY <1>3, <1>4, <1>5, <1>6 DEF Turned, GaveUp

\* What the file system answers.
LEMMA SectionAnswers ==
    ASSUME NEW p
    PROVE  /\ ExistsSection(p).code = IF Exists(files, p) THEN "True" ELSE "False"
           /\ MetadataSection(p).code = IF Exists(files, p) THEN "Ok" ELSE "FileNotFound"
           /\ MetadataSection(p).kind = IF Exists(files, p) THEN files[p].kind ELSE "Vacant"
           /\ ReadDirSection(p).code = IF Exists(files, p) THEN "Ok" ELSE "FileNotFound"
           /\ Exists(files, p) => ReadDirSection(p).entries = Children(files, p)
           /\ EnsureHasParent(p).code \in {"Ok", "NoParent"}
           /\ OpenFileSection(p).code \in {"Ok", "FileNotFound", "NotAFile"}
           /\ OpenFileSection(p).code = "Ok"
                => IsFile(files, p) /\ OpenFileSection(p).content = files[p].content
           /\ RemoveDirListSection(p).code \in {"Ok", "FileNotFound", "NotEmpty"}
           /\ RemoveDirListSection(p).code = "Ok" => Children(files, p) = {}
           /\ TransferAnswer.code = "NotSupported" /\ SetTimeAnswer.code = "NotSupported"
           /\ CreateDirAnswer(p).code \in {"Ok", "FileExists", "DirectoryExists"}
           /\ CreateDirAnswer(p).code = "Ok" <=> ~(IsFile(files, p) \/ IsDirectory(files, p))
           /\ AppendFileAnswer(p).code = IF Exists(files, p) THEN "Ok" ELSE "FileNotFound"
           /\ RemoveAnswer(p).code = IF Exists(files, p) THEN "Ok" ELSE "FileNotFound"
<1>1. /\ \A code : Answer(code).code = code /\ Answer(code).kind = "Vacant"
      /\ \A code, content : [Answer(code) EXCEPT !.content = content].code = code
                            /\ [Answer(code) EXCEPT !.content = content].content = content
      /\ \A code, entries : [Answer(code) EXCEPT !.entries = entries].code = code
                            /\ [Answer(code) EXCEPT !.entries = entries].entries = entries
      /\ \A code, kind, len :
            /\ [Answer(code) EXCEPT !.kind = kind, !.len = len].code = code
            /\ [Answer(code) EXCEPT !.kind = kind, !.len = len].kind = kind
  BY DEF Answer
<1>2. /\ ExistsSection(p).code = IF Exists(files, p) THEN "True" ELSE "False"
      /\ MetadataSection(p).code = IF Exists(files, p) THEN "Ok" ELSE "FileNotFound"
      /\ MetadataSection(p).kind = IF Exists(files, p) THEN files[p].kind ELSE "Vacant"
  BY <1>1 DEF ExistsSection, ExistsAnswer, MetadataSection, MetadataAnswer
<1>3. /\ ReadDirSection(p).code = IF Exists(files, p) THEN "Ok" ELSE "FileNotFound"
      /\ Exists(files, p) => ReadDirSection(p).entries = Children(files, p)
      /\ EnsureHasParent(p).code \in {"Ok", "NoParent"}
  BY <1>1 DEF ReadDirSection, ReadDirAnswer, EnsureHasParent
<1>4. /\ OpenFileSection(p).code \in {"Ok", "FileNotFound", "NotAFile"}
      /\ OpenFileSection(p).code = "Ok"
           => IsFile(files, p) /\ OpenFileSection(p).content = files[p].content
  BY <1>1 DEF OpenFileSection
<1>5. /\ RemoveDirListSection(p).code \in {"Ok", "FileNotFound", "NotEmpty"}
      /\ RemoveDirListSection(p).code = "Ok" => Children(files, p) = {}
  BY <1>1 DEF RemoveDirListSection
<1>6. /\ TransferAnswer.code = "NotSupported" /\ SetTimeAnswer.code = "NotSupported"
      /\ CreateDirAnswer(p).code \in {"Ok", "FileExists", "DirectoryExists"}
      /\ CreateDirAnswer(p).code = "Ok" <=> ~(IsFile(files, p) \/ IsDirectory(files, p))
      /\ AppendFileAnswer(p).code = IF Exists(files, p) THEN "Ok" ELSE "FileNotFound"
      /\ RemoveAnswer(p).code = IF Exists(files, p) THEN "Ok" ELSE "FileNotFound"
  BY <1>1 DEF TransferAnswer, SetTimeAnswer, CreateDirAnswer, AppendFileAnswer, RemoveAnswer
<1> QED
  BY <1>2, <1>3, <1>4, <1>5, <1>6

\* What a step comes to that does not put others in its place.
Outcome(t) ==
    /\ Turned(t)
    /\ GaveUp(t) \/ Looked(t) \/ MadeDir(t) \/ MadeFile(t) \/ Opened(t) \/ Filled(t)
       \/ Dropped(t) \/ Removed(t)

LEMMA ResumeGoesOn ==
    ASSUME AsyncTypeOK, NEW t \in Tasks, Busy(t), Resume(t, << >>),
           UNCHANGED <<script, at, before>>
    PROVE  Turned(t) /\ WentOn(t) /\ job'[t].data = job[t].data
<1>1. /\ Turned(t) /\ job'[t].agenda = << >> \o Tail(job[t].agenda)
      /\ job'[t].data = job[t].data
  BY ResumeTurns
<1>2. Tail(job[t].agenda) \in Seq(Items)
  BY JobTypes, AgendaTail DEF Busy
<1> QED
  BY <1>1, <1>2, ConcatEmptySeq DEF WentOn

\* A step that looks and is settled has got what it hoped for, or gives up.
LEMMA SettleLook ==
    ASSUME AsyncTypeOK, NEW t \in Tasks, NEW answer, NEW codes,
           At(t, Looks \ {"open"}), answer.code \in Codes,
           Settle(t, answer, codes, << >>), UNCHANGED fsVars, UNCHANGED <<script, at, before>>,
           answer.code \in codes =>
              /\ Now(t).do = "parent_is_dir" => IsDirectory(files, Parent(Now(t).path))
              /\ Now(t).do = "absent" => ~Exists(files, Now(t).path)
              /\ Now(t).do = "list_empty" => Children(files, Now(t).path) = {}
    PROVE  Outcome(t)
<1>1. Busy(t) /\ Now(t).do \in Looks /\ Now(t).do # "open" /\ Now(t).do \notin {"fill", "drop"}
  BY DEF At, Looks
<1>2. CASE answer.code \in codes
  <2>1. Resume(t, << >>)
    BY <1>2 DEF Settle
  <2>2. Turned(t) /\ WentOn(t) /\ job'[t].data = job[t].data
    BY <1>1, <2>1, ResumeGoesOn
  <2>3. Looked(t)
    BY <1>1, <1>2, <2>2 DEF Looked, At
  <2> QED
    BY <2>2, <2>3 DEF Outcome
<1>3. CASE answer.code \notin codes
  <2>1. Abort(t, answer.code)
    BY <1>3 DEF Settle
  <2> QED
    BY <1>1, <2>1, AbortTurns DEF Outcome
<1> QED
  BY <1>2, <1>3

LEMMA ParentExistsOutcome ==
    ASSUME AsyncTypeOK, NEW t \in Tasks, ParentExists(t), UNCHANGED <<script, at, before>>
    PROVE  Outcome(t)
<1>1. /\ Busy(t) /\ Now(t).do = "parent_exists" /\ UNCHANGED fsVars
  BY DEF ParentExists, At
<1>2. CASE Resume(t, << >>)
  <2>1. Turned(t) /\ WentOn(t) /\ job'[t].data = job[t].data
    BY <1>1, <1>2, ResumeGoesOn
  <2>2. Looked(t)
    BY <1>1, <2>1 DEF Looked, At, Looks
  <2> QED
    BY <2>1, <2>2 DEF Outcome
<1>3. CASE Abort(t, "NoParent")
  <2>1. "NoParent" \in Codes
    BY DEF Codes
  <2> QED
    BY <1>1, <1>3, <2>1, AbortTurns DEF Outcome
<1> QED
  BY <1>2, <1>3 DEF ParentExists

LEMMA ParentIsDirOutcome ==
    ASSUME AsyncTypeOK, NEW t \in Tasks, ParentIsDir(t), UNCHANGED <<script, at, before>>
    PROVE  Outcome(t)
<1> DEFINE d == Parent(Now(t).path)
           a == MetadataSection(d)
<1>1. /\ Busy(t) /\ Now(t).do = "parent_is_dir" /\ UNCHANGED fsVars
  BY DEF ParentIsDir, At
<1>2. CASE a.kind = "File"
  <2>1. Abort(t, "NoParent") /\ "NoParent" \in Codes
    BY <1>2 DEF ParentIsDir, Codes
  <2> QED
    BY <1>1, <2>1, AbortTurns DEF Outcome
<1>3. CASE a.kind # "File"
  <2>1. Settle(t, a, {"Ok"}, << >>)
    BY <1>3 DEF ParentIsDir
  <2>2. a.code \in Codes /\ (a.code = "Ok" => Exists(files, d) /\ a.kind = files[d].kind)
    BY SectionAnswers DEF Codes
  <2>3. Now(t).path \in Paths /\ d \in Paths
    BY <1>1, NowTypes, PathsAssumption
  <2>4. files[d] \in Entries
    BY <2>3 DEF AsyncTypeOK, FsTypeOK, Maps
  <2>5. a.code = "Ok" => IsDirectory(files, d)
    BY <1>3, <2>2, <2>4 DEF Exists, IsDirectory, Entries, VacantEntry
  <2>6. At(t, Looks \ {"open"})
    BY <1>1 DEF At, Looks
  <2> HIDE DEF a
  <2>7. a.code \in {"Ok"} =>
              /\ Now(t).do = "parent_is_dir" => IsDirectory(files, Parent(Now(t).path))
              /\ Now(t).do = "absent" => ~Exists(files, Now(t).path)
              /\ Now(t).do = "list_empty" => Children(files, Now(t).path) = {}
    BY <1>1, <2>5
  <2> QED
    BY <1>1, <2>1, <2>2, <2>6, <2>7, SettleLook
<1> QED
  BY <1>2, <1>3

LEMMA LookOutcome ==
    ASSUME AsyncTypeOK, NEW t \in Tasks, UNCHANGED <<script, at, before>>,
           EnsureParentStep(t) \/ ExistsStep(t) \/ SetTimeStep(t) \/ ListEmptyStep(t)
    PROVE  Outcome(t)
<1> DEFINE p == Now(t).path
<1>1. ASSUME NEW do \in {"ensure_parent", "exists", "set_time", "list_empty"}, NEW answer,
             NEW codes, Look(t, do, answer, codes, << >>), answer.code \in Codes,
             do = "list_empty" /\ answer.code \in codes => Children(files, p) = {}
      PROVE  Outcome(t)
  <2>1. Busy(t) /\ Now(t).do = do /\ UNCHANGED fsVars /\ Settle(t, answer, codes, << >>)
    BY <1>1 DEF Look, At
  <2>2. At(t, Looks \ {"open"})
    BY <2>1 DEF At, Looks
  <2>3. answer.code \in codes =>
              /\ Now(t).do = "parent_is_dir" => IsDirectory(files, Parent(Now(t).path))
              /\ Now(t).do = "absent" => ~Exists(files, Now(t).path)
              /\ Now(t).do = "list_empty" => Children(files, Now(t).path) = {}
    BY <1>1, <2>1
  <2> QED
    BY <1>1, <2>1, <2>2, <2>3, SettleLook
<1>2. /\ EnsureHasParent(p).code \in Codes /\ ExistsSection(p).code \in Codes
      /\ SetTimeAnswer.code \in Codes /\ RemoveDirListSection(p).code \in Codes
      /\ RemoveDirListSection(p).code \in {"Ok"} => Children(files, p) = {}
  BY SectionAnswers DEF Codes
<1>3. CASE EnsureParentStep(t)
  BY <1>1, <1>2, <1>3 DEF EnsureParentStep
<1>4. CASE ExistsStep(t)
  BY <1>1, <1>2, <1>4 DEF ExistsStep
<1>5. CASE SetTimeStep(t)
  BY <1>1, <1>2, <1>5 DEF SetTimeStep
<1>6. CASE ListEmptyStep(t)
  BY <1>1, <1>2, <1>6 DEF ListEmptyStep
<1> QED
  BY <1>3, <1>4, <1>5, <1>6

LEMMA AbsentOutcome ==
    ASSUME AsyncTypeOK, NEW t \in Tasks, Absent(t), UNCHANGED <<script, at, before>>
    PROVE  Outcome(t)
<1> DEFINE p == Now(t).path
<1>1. /\ Busy(t) /\ Now(t).do = "absent" /\ UNCHANGED fsVars
  BY DEF Absent, At
<1>2. CASE ExistsSection(p).code = "True"
  <2>1. Abort(t, "FileExists") /\ "FileExists" \in Codes
    BY <1>2 DEF Absent, Codes
  <2> QED
    BY <1>1, <2>1, AbortTurns DEF Outcome
<1>3. CASE ExistsSection(p).code # "True"
  <2>1. Settle(t, TransferAnswer, {"NotSupported"}, << >>)
    BY <1>3 DEF Absent
  <2>2. TransferAnswer.code \in Codes /\ ~Exists(files, p)
    BY <1>3, SectionAnswers DEF Codes
  <2>3. At(t, Looks \ {"open"})
    BY <1>1 DEF At, Looks
  <2> QED
    BY <1>1, <2>1, <2>2, <2>3, SettleLook
<1> QED
  BY <1>2, <1>3

LEMMA OpenOutcome ==
    ASSUME AsyncTypeOK, NEW t \in Tasks, OpenStep(t), UNCHANGED <<script, at, before>>
    PROVE  Outcome(t)
<1> DEFINE p == Now(t).path
           a == OpenFileSection(p)
<1>1. /\ Busy(t) /\ Now(t).do = "open" /\ UNCHANGED fsVars
  BY DEF OpenStep, At
<1>2. /\ a.code \in Codes
      /\ a.code = "Ok" => IsFile(files, p) /\ a.content = files[p].content
  BY SectionAnswers DEF Codes
<1>3. CASE a.code = "Ok"
  <2>1. job' = [job EXCEPT ![t].agenda = Tail(@), ![t].data = files[p].content]
    BY <1>2, <1>3 DEF OpenStep
  <2>2. job \in [Tasks -> Jobs] /\ job[t] \in Jobs
    BY JobTypes
  <2>3. files[p].content \in Contents
    <3>1. p \in Paths
      BY <1>1, NowTypes
    <3>2. files[p] \in Entries
      BY <3>1 DEF AsyncTypeOK, FsTypeOK, Maps
    <3> QED
      BY <3>2, EntryFields
  <2> DEFINE u == Tail(job[t].agenda)
             x == files[p].content
  <2> HIDE DEF u, x
  <2>4. job' = [job EXCEPT ![t].agenda = u, ![t].data = x]
    BY <2>1, <2>2 DEF u, x
  <2>5. job'[t].agenda = u /\ job'[t].data = x /\ job'[t].request = job[t].request
    BY <2>2, <2>4 DEF Jobs
  <2>6. u \in Seq(Items) => job' \in [Tasks -> Jobs]
    BY <2>2, <2>3, <2>4 DEF Jobs, x
  <2>7. \A v \in Tasks \ {t} : job'[v] = job[v]
    BY <2>2, <2>4
  <2>8. Turned(t) /\ WentOn(t)
    BY <2>5, <2>6, <2>7 DEF Turned, WentOn, u
  <2>9. Looked(t)
    BY <1>1, <1>2, <1>3, <2>5, <2>8 DEF Looked, At, Looks, x
  <2> QED
    BY <2>8, <2>9 DEF Outcome
<1>4. CASE a.code # "Ok"
  <2>1. Abort(t, a.code)
    BY <1>4 DEF OpenStep
  <2> QED
    BY <1>1, <1>2, <2>1, AbortTurns DEF Outcome
<1> QED
  BY <1>3, <1>4

LEMMA StatusOutcome ==
    ASSUME AsyncTypeOK, NEW t \in Tasks, ReadMetadataStep(t) \/ KindStep(t),
           UNCHANGED <<script, at, before>>
    PROVE  Outcome(t)
<1> DEFINE a == MetadataSection(Now(t).path)
<1>1. /\ Busy(t) /\ Now(t).do \in {"read_metadata", "kind"} /\ UNCHANGED fsVars
  BY DEF ReadMetadataStep, KindStep, At
<1>2. a.code \in Codes
  BY SectionAnswers DEF Codes
<1>3. ASSUME NEW code \in Codes, Abort(t, code) PROVE Outcome(t)
  BY <1>1, <1>3, AbortTurns DEF Outcome
<1>4. CASE ReadMetadataStep(t) /\ a.kind = "Directory"
  <2>1. Abort(t, "NotAFile") /\ "NotAFile" \in Codes
    BY <1>4 DEF ReadMetadataStep, Codes
  <2> QED
    BY <1>3, <2>1
<1>5. CASE ReadMetadataStep(t) /\ a.kind # "Directory"
  <2>1. Settle(t, a, {"Ok"}, << >>)
    BY <1>5 DEF ReadMetadataStep
  <2>2. At(t, Looks \ {"open"})
    BY <1>1 DEF At, Looks
  <2> QED
    BY <1>1, <1>2, <2>1, <2>2, SettleLook
<1>6. CASE KindStep(t)
  <2>1. "True" \in Codes /\ "False" \in Codes
    BY DEF Codes
  <2>2. PICK code \in Codes : Abort(t, code)
    BY <1>2, <1>6, <2>1 DEF KindStep
  <2> QED
    BY <1>3, <2>2
<1> QED
  BY <1>4, <1>5, <1>6

\* An entry that is not there is vacant.
LEMMA KindOfEntry ==
    ASSUME AsyncTypeOK, NEW p \in Paths
    PROVE  /\ files[p] \in Entries
           /\ Exists(files, p) <=> IsFile(files, p) \/ IsDirectory(files, p)
           /\ ~(IsFile(files, p) /\ IsDirectory(files, p))
           /\ ~Exists(files, p) => files[p] = VacantEntry
<1>1. files[p] \in Entries
  BY DEF AsyncTypeOK, FsTypeOK, Maps
<1> QED
  BY <1>1 DEF Entries, VacantEntry, Exists, IsFile, IsDirectory

LEMMA CreateDirOutcome ==
    ASSUME AsyncTypeOK, NEW t \in Tasks, CreateDirStep(t), UNCHANGED <<script, at, before>>
    PROVE  Outcome(t)
<1> DEFINE p == Now(t).path
           a == CreateDirAnswer(p)
           codes == IF Now(t).do = "ensure_dir" THEN {"Ok", "DirectoryExists"} ELSE {"Ok"}
<1>1. /\ Busy(t) /\ Now(t).do \in {"create_dir", "ensure_dir"} /\ CreateDirInsert(p)
      /\ Settle(t, a, codes, << >>)
  BY DEF CreateDirStep, At
<1>2. /\ a.code \in {"Ok", "FileExists", "DirectoryExists"}
      /\ a.code = "Ok" <=> ~(IsFile(files, p) \/ IsDirectory(files, p))
  BY SectionAnswers
<1>3. CASE a.code \in codes
  <2>1. Resume(t, << >>)
    BY <1>1, <1>3 DEF Settle
  <2>2. Turned(t) /\ WentOn(t) /\ job'[t].data = job[t].data
    BY <1>1, <2>1, ResumeGoesOn
  <2>3. MadeDir(t)
    BY <1>1, <2>2 DEF MadeDir, At
  <2> QED
    BY <2>2, <2>3 DEF Outcome
<1>4. CASE a.code \notin codes
  <2>1. Abort(t, a.code) /\ a.code # "Ok"
    BY <1>1, <1>4 DEF Settle
  <2>2. Exists(files, p)
    BY <1>1, <1>2, <2>1, NowTypes, KindOfEntry
  <2>3. UNCHANGED fsVars
    BY <1>1, <2>2 DEF CreateDirInsert, fsVars
  <2>4. a.code \in Codes
    BY <1>2 DEF Codes
  <2> QED
    BY <1>1, <2>1, <2>3, <2>4, AbortTurns DEF Outcome
<1> QED
  BY <1>3, <1>4

LEMMA HandleOutcome ==
    ASSUME AsyncTypeOK, NEW t \in Tasks, CreateFileStep(t) \/ Fill(t) \/ DropStep(t),
           UNCHANGED <<script, at, before>>
    PROVE  Outcome(t)
<1>1. Resume(t, << >>) /\ Busy(t)
  BY DEF CreateFileStep, Fill, DropStep, At
<1>2. Turned(t) /\ WentOn(t) /\ job'[t].data = job[t].data
  BY <1>1, ResumeGoesOn
<1>3. MadeFile(t) \/ Filled(t) \/ Dropped(t)
  BY <1>2 DEF CreateFileStep, Fill, DropStep, MadeFile, Filled, Dropped
<1> QED
  BY <1>2, <1>3 DEF Outcome

LEMMA AppendFileOutcome ==
    ASSUME AsyncTypeOK, NEW t \in Tasks, AppendFileStep(t), UNCHANGED <<script, at, before>>
    PROVE  Outcome(t)
<1> DEFINE p == Now(t).path
           a == AppendFileAnswer(p)
<1>1. /\ Busy(t) /\ Now(t).do = "append_file" /\ AppendFile(t, p)
      /\ Settle(t, a, {"Ok"}, << >>)
  BY DEF AppendFileStep, At
<1>2. a.code = IF Exists(files, p) THEN "Ok" ELSE "FileNotFound"
  BY SectionAnswers
<1>3. CASE Exists(files, p)
  <2>1. Resume(t, << >>)
    BY <1>1, <1>2, <1>3 DEF Settle
  <2>2. Turned(t) /\ WentOn(t) /\ job'[t].data = job[t].data
    BY <1>1, <2>1, ResumeGoesOn
  <2>3. Opened(t)
    BY <1>1, <1>3, <2>2 DEF Opened, At
  <2> QED
    BY <2>2, <2>3 DEF Outcome
<1>4. CASE ~Exists(files, p)
  <2>1. Abort(t, a.code) /\ a.code \in Codes
    BY <1>1, <1>2, <1>4 DEF Settle, Codes
  <2>2. UNCHANGED fsVars
    BY <1>1, <1>4 DEF AppendFile, fsVars
  <2> QED
    BY <1>1, <2>1, <2>2, AbortTurns DEF Outcome
<1> QED
  BY <1>3, <1>4

LEMMA RemoveOutcome ==
    ASSUME AsyncTypeOK, NEW t \in Tasks, RemoveStep(t), UNCHANGED <<script, at, before>>
    PROVE  Outcome(t)
<1> DEFINE p == Now(t).path
           a == RemoveAnswer(p)
<1>1. /\ Busy(t) /\ Now(t).do = "remove_file" /\ RemoveFile(p)
      /\ Settle(t, a, {"Ok"}, << >>)
  BY DEF RemoveStep, At
<1>2. a.code = IF Exists(files, p) THEN "Ok" ELSE "FileNotFound"
  BY SectionAnswers
<1>3. CASE Exists(files, p)
  <2>1. Resume(t, << >>)
    BY <1>1, <1>2, <1>3 DEF Settle
  <2>2. Turned(t) /\ WentOn(t) /\ job'[t].data = job[t].data
    BY <1>1, <2>1, ResumeGoesOn
  <2>3. Removed(t)
    BY <1>1, <2>2 DEF Removed, At
  <2> QED
    BY <2>2, <2>3 DEF Outcome
<1>4. CASE ~Exists(files, p)
  <2>1. Abort(t, a.code) /\ a.code \in Codes
    BY <1>1, <1>2, <1>4 DEF Settle, Codes
  <2>2. UNCHANGED fsVars
    <3>1. p \in Paths /\ files[p] = VacantEntry /\ files \in [Paths -> Entries]
      BY <1>1, <1>4, NowTypes, KindOfEntry DEF AsyncTypeOK, FsTypeOK, Maps
    <3>2. files' = files
      BY <1>1, <3>1 DEF RemoveFile, Remove
    <3> QED
      BY <1>1, <3>2 DEF RemoveFile, fsVars
  <2> QED
    BY <1>1, <2>1, <2>2, AbortTurns DEF Outcome
<1> QED
  BY <1>3, <1>4

\* The steps that put others in their place.
ExpandingStep(t) ==
    \/ RemoveDirAll(t) \/ ListStep(t) \/ WalkDirStep(t) \/ WalkList(t) \/ CopyEntry(t)
    \/ \E child \in Paths : NextChild(t, child) \/ WalkPending(t, child) \/ WalkYield(t, child)

LEMMA StepOutcomes ==
    ASSUME AsyncTypeOK, NEW t \in Tasks, Step(t)
    PROVE  Outcome(t) \/ (ExpandingStep(t) /\ UNCHANGED <<script, at, before>>)
<1>1. UNCHANGED <<script, at, before>>
  BY DEF Step
<1>2. CASE ParentExists(t)
  BY <1>1, <1>2, ParentExistsOutcome
<1>3. CASE ParentIsDir(t)
  BY <1>1, <1>3, ParentIsDirOutcome
<1>4. CASE EnsureParentStep(t) \/ ExistsStep(t) \/ SetTimeStep(t) \/ ListEmptyStep(t)
  BY <1>1, <1>4, LookOutcome
<1>5. CASE Absent(t)
  BY <1>1, <1>5, AbsentOutcome
<1>6. CASE OpenStep(t)
  BY <1>1, <1>6, OpenOutcome
<1>7. CASE ReadMetadataStep(t) \/ KindStep(t)
  BY <1>1, <1>7, StatusOutcome
<1>8. CASE CreateDirStep(t)
  BY <1>1, <1>8, CreateDirOutcome
<1>9. CASE CreateFileStep(t) \/ Fill(t) \/ DropStep(t)
  BY <1>1, <1>9, HandleOutcome
<1>10. CASE AppendFileStep(t)
  BY <1>1, <1>10, AppendFileOutcome
<1>11. CASE RemoveStep(t)
  BY <1>1, <1>11, RemoveOutcome
<1> QED
  BY <1>1, <1>2, <1>3, <1>4, <1>5, <1>6, <1>7, <1>8, <1>9, <1>10, <1>11
  DEF Step, ExpandingStep

-----------------------------------------------------------------------------
(* Steps leave what is left guarded, and the handle where it is used next.  *)

\* What the step at hand relies on has come true, and what is to follow does.
LEMMA NowGuarded ==
    ASSUME AsyncTypeOK, NEW t \in Tasks, Guarded(t), Busy(t)
    PROVE  /\ Now(t) \in Fitting(job[t].request) /\ Inside(job[t].request, Now(t))
           /\ \A c \in Needed(job[t].request, Now(t)) : Known(t, c) /\ c \in Checks(job[t].request)
           /\ Now(t).do \in {"create_file", "append_file"} /\ WentOn(t) => At(t, {"fill"})'
           /\ Now(t).do = "fill" /\ WentOn(t) =>
                 \/ At(t, {"drop"})'
                 \/ job[t].request.op = "move_file" /\ At(t, {"remove_file"})'
           /\ Now(t).do = "remove_file" /\ job[t].request.op = "move_file" /\ WentOn(t)
                 => At(t, {"drop"})'
<1> DEFINE r == job[t].request
           s == job[t].agenda
           u == Tail(s)
<1>1. s # << >> /\ s \in Seq(Fitting(r)) /\ Together(r, s)
  BY DEF Guarded, Busy
<1>2. \A i \in DOMAIN s : \A c \in Needed(r, s[i]) :
          Led(r, s, i, c) \/ (Clear(r, s, i, c) /\ Known(t, c))
  BY DEF Guarded
<1>3. Now(t) = Head(s)
  BY DEF Now
<1> HIDE DEF s
<1>4. /\ Len(s) \in Nat \ {0} /\ DOMAIN s = 1 .. Len(s)
      /\ Head(s) = s[1] /\ Head(s) \in Fitting(r)
      /\ u \in Seq(Fitting(r)) /\ DOMAIN u = 1 .. Len(s) - 1 /\ Len(u) = Len(s) - 1
      /\ \A i \in 1 .. Len(s) - 1 : u[i] = s[i + 1] /\ i + 1 \in DOMAIN s
  BY <1>1, AgendaTail
<1>5. 1 \in DOMAIN s /\ \A c : ~Led(r, s, 1, c)
  BY <1>4 DEF Led
<1>6. \A c \in Needed(r, Now(t)) : Known(t, c) /\ c \in Checks(r)
  BY <1>2, <1>3, <1>4, <1>5 DEF Checks
<1>7. Inside(r, Now(t))
  BY <1>3, <1>4 DEF Fitting
<1>8. ASSUME NEW do, 1 + 1 \in DOMAIN s, s[1 + 1].do = do, WentOn(t)
      PROVE  At(t, {do})'
  <2>1. Len(s) > 1 /\ 1 \in 1 .. Len(s) - 1
    BY <1>4, <1>8
  <2>2. u # << >> /\ Head(u) = u[1] /\ u[1] = s[1 + 1]
    <3>1. u \in Seq(Fitting(r)) /\ Len(u) > 0 /\ u[1] = s[1 + 1]
      BY <1>4, <2>1
    <3> HIDE DEF u
    <3> QED
      BY <3>1
  <2>3. job'[t].agenda = u
    BY <1>8 DEF WentOn, s
  <2> HIDE DEF u
  <2>4. Busy(t)' /\ Now(t)' = u[1]
    BY <2>2, <2>3 DEF Busy, Now
  <2> QED
    BY <1>8, <2>2, <2>4 DEF At
<1>9. /\ Now(t).do \in {"create_file", "append_file"} => 1 + 1 \in DOMAIN s /\ s[1 + 1].do = "fill"
      /\ Now(t).do = "fill" =>
             /\ 1 + 1 \in DOMAIN s
             /\ s[1 + 1].do = "drop" \/ (r.op = "move_file" /\ s[1 + 1].do = "remove_file")
      /\ Now(t).do = "remove_file" /\ r.op = "move_file"
             => 1 + 1 \in DOMAIN s /\ s[1 + 1].do = "drop"
  <2>1. Now(t) = s[1] /\ 1 \in DOMAIN s
    BY <1>3, <1>4, <1>5
  <2>2. /\ s[1].do \in {"create_file", "append_file"} =>
              1 + 1 \in DOMAIN s /\ s[1 + 1].do = "fill"
        /\ s[1].do = "fill" =>
              /\ 1 + 1 \in DOMAIN s
              /\ \/ s[1 + 1].do = "drop"
                 \/ r.op = "move_file" /\ s[1 + 1].do = "remove_file"
        /\ s[1].do = "remove_file" /\ r.op = "move_file" =>
              1 + 1 \in DOMAIN s /\ s[1 + 1].do = "drop"
    BY <1>1, <2>1 DEF Together
  <2> QED
    BY <2>1, <2>2
<1> QED
  BY <1>3, <1>4, <1>6, <1>7, <1>8, <1>9

\* GuardsAfter for a step that is done.
LEMMA GuardsAfterOne ==
    ASSUME AsyncTypeOK, NEW t \in Tasks, Guarded(t), Busy(t), Turned(t), WentOn(t),
           \A c \in Checks(job[t].request) :
                Now(t) = c \/ (Now(t).do \in Passing(job[t].request, c) /\ Known(t, c))
                    => Known(t, c)'
    PROVE  Guarded(t)'
<1> DEFINE r == job[t].request
           e == << >>
<1>1. r \in Requests /\ job'[t].request = r
  BY JobTypes DEF Turned
<1>2. e \in Seq(Fitting(r)) /\ Together(r, e) /\ DOMAIN e = {}
  BY NothingIsSound DEF Sound
<1>3. job'[t].agenda = e \o Tail(job[t].agenda)
  <2>1. job[t].agenda \in Seq(Fitting(r)) /\ job[t].agenda # << >>
    BY DEF Guarded, Busy
  <2>2. Tail(job[t].agenda) \in Seq(Fitting(r))
    BY <2>1, AgendaTail
  <2> QED
    BY <2>2, ConcatEmptySeq DEF WentOn
<1>4. e = << >>
  OBVIOUS
<1> HIDE DEF e
<1> QED
  BY <1>1, <1>2, <1>3, <1>4, GuardsAfter

\* Giving up leaves at most the handle to be dropped, and it has been filled.
LEMMA GivingUpGuards ==
    ASSUME AsyncTypeOK, script \in Scripts, NEW t \in Tasks, HandleOK(t), Turned(t), GaveUp(t)
    PROVE  Guarded(t)' /\ HandleOK(t)'
<1> DEFINE r == job[t].request
<1>1. r \in Requests /\ job'[t].request = r
  BY JobTypes DEF Turned
<1>2. files' = files /\ writer' = writer
  BY DEF GaveUp, fsVars
<1>3. CASE ~writer[t].open
  <2>1. job'[t].agenda = << >>
    BY <1>3 DEF GaveUp
  <2>2. << >> \in Seq(Fitting(r)) /\ Together(r, << >>) /\ DOMAIN << >> = {}
    BY NothingIsSound DEF Sound
  <2>3. Guarded(t)'
    BY <1>1, <2>1, <2>2 DEF Guarded
  <2> QED
    BY <1>2, <1>3, <2>3 DEF HandleOK
<1>4. CASE writer[t].open
  <2>1. PICK x \in Paths : /\ x = writer[t].path /\ Makes(r, x)
                           /\ \/ At(t, {"fill"})
                              \/ /\ Known(t, Do("fill", x))
                                 /\ \/ At(t, {"drop"})
                                    \/ r.op = "move_file" /\ At(t, {"remove_file"})
    BY <1>4 DEF HandleOK
  <2>2. Known(t, Do("fill", x))
    BY <2>1 DEF GaveUp, At
  <2> DEFINE c == Do("fill", x)
             d == Do("drop", x)
             s == <<d>>
  <2>3. c.do = "fill" /\ c.path = x /\ d.do = "drop" /\ d.path = x
    BY DEF Do
  <2>4. job'[t].agenda = s
    BY <1>4, <2>1 DEF GaveUp
  <2>5. d \in Fitting(r)
    BY <2>1, MakingsFit
  <2>6. Needed(r, d) = {c}
    BY <2>3 DEF Needed
  <2>7. Known(t, c)
    BY <2>2
  <2> HIDE DEF c, d
  <2>8. Known(t, c)'
    <3>1. /\ script' = script /\ before' = before /\ at'[t] = at[t]
          /\ job'[t].request = job[t].request
          /\ writer'[t] = writer[t]
          /\ \A y \in Paths : Mine(t, y) => files'[y] = files[y]
      BY <1>2 DEF Turned
    <3>2. /\ c.do # "open" => c.path \in Paths
          /\ c.do = "list_empty" => Below(c.path, job[t].request.path)
          /\ c.do \in {"open", "create_file", "append_file"} => job'[t].data = job[t].data
      BY <2>3
    <3> QED
      BY <2>7, <3>1, <3>2, KnownStays
  <2>9. s \in Seq(Fitting(r)) /\ DOMAIN s = {1} /\ s[1] = d /\ s # << >> /\ Head(s) = d
    BY <2>5
  <2> HIDE DEF s
  <2>10. Together(r, s) /\ Clear(r, s, 1, c)
    BY <2>3, <2>9 DEF Together, Clear
  <2>11. Guarded(t)'
    BY <1>1, <2>4, <2>6, <2>8, <2>9, <2>10 DEF Guarded
  <2>12. At(t, {"drop"})'
    BY <2>3, <2>4, <2>9 DEF At, Busy, Now
  <2>13. HandleOK(t)'
    BY <1>1, <1>2, <2>1, <2>8, <2>12 DEF HandleOK, c
  <2> QED
    BY <2>11, <2>13
<1> QED
  BY <1>3, <1>4

LEMMA NowIsFirst ==
    ASSUME AsyncTypeOK, NEW t \in Tasks, Busy(t)
    PROVE  /\ Len(job[t].agenda) \in Nat \ {0}
           /\ DOMAIN job[t].agenda = 1 .. Len(job[t].agenda)
           /\ 1 \in DOMAIN job[t].agenda /\ Now(t) = job[t].agenda[1]
<1>1. job[t].agenda \in Seq(Items) /\ job[t].agenda # << >>
  BY JobTypes DEF Busy
<1>2. /\ Len(job[t].agenda) \in Nat \ {0} /\ DOMAIN job[t].agenda = 1 .. Len(job[t].agenda)
      /\ Now(t) = job[t].agenda[1]
  BY <1>1, AgendaTail DEF Now
<1> QED
  BY <1>2

\* A move that opens a file of its source has not touched the source.
LEMMA OpensUnmoved ==
    ASSUME AsyncTypeOK, NEW t \in Tasks, Asked(t), MoveOK(t), At(t, {"open"}),
           Alone(t), Moved(t) # {}
    PROVE  Unmoved(t)
<1>1. Busy(t) /\ Now(t).do = "open" /\ at[t] > 0
  BY DEF At, Asked
<1>2. 1 \in DOMAIN job[t].agenda /\ Now(t) = job[t].agenda[1]
  BY <1>1, NowIsFirst
<1>3. ~Leaving(t)
  BY <1>1, <1>2 DEF Leaving, Removals
<1> QED
  BY <1>1, <1>3 DEF MoveOK, NotBegun, Copying, GivenUp

LEMMA LookedGuards ==
    ASSUME AsyncTypeOK, script \in Scripts, NEW t \in Tasks, TaskOK(t), Turned(t), Looked(t)
    PROVE  Guarded(t)' /\ HandleOK(t)'
<1> DEFINE r == job[t].request
<1>1. /\ r \in Requests /\ job'[t].request = r
      /\ Guarded(t) /\ HandleOK(t) /\ Asked(t) /\ MoveOK(t)
  BY JobTypes DEF Turned, TaskOK
<1>2. /\ files' = files /\ writer' = writer /\ Busy(t) /\ Now(t).do \in Looks
      /\ WentOn(t)
  BY DEF Looked, fsVars, At
<1>3. /\ script' = script /\ before' = before /\ at'[t] = at[t]
  BY DEF Turned
<1>4. ASSUME NEW c \in Checks(r), Now(t) = c PROVE Known(t, c)'
  <2>1. c.do \in {"parent_is_dir", "absent", "open", "list_empty"} /\ c.path = Now(t).path
    BY <1>1, <1>2, <1>4, ChecksShape DEF Looks
  <2>2. CASE c.do = "open"
    <3>1. IsFile(files, c.path) /\ job'[t].data = files[c.path].content
      BY <1>4, <2>1, <2>2 DEF Looked
    <3>2. At(t, {"open"})
      BY <1>2, <1>4, <2>2 DEF At
    <3>3. ASSUME Alone(t), c.path \in Moved(t) PROVE files[c.path] = before[c.path]
      <4>1. Unmoved(t)
        BY <1>1, <3>2, <3>3, OpensUnmoved
      <4> QED
        BY <3>3, <4>1 DEF Unmoved, Moved
    <3>4. (Alone(t)' <=> Alone(t)) /\ Moved(t)' = Moved(t)
      BY <1>1, <1>3 DEF Alone, Undisturbed, Moved
    <3>5. RightData(t, job[t].data, c.path)'
      BY <1>3, <3>1, <3>3, <3>4 DEF RightData
    <3> QED
      BY <2>2, <3>5 DEF Known
  <2>3. CASE c.do = "parent_is_dir"
    <3>1. IsDirectory(files, Parent(c.path))
      BY <1>4, <2>3 DEF Looked
    <3> QED
      BY <1>2, <2>3, <3>1 DEF Known
  <2>4. CASE c.do = "absent"
    <3>1. ~Exists(files, c.path)
      BY <1>4, <2>4 DEF Looked
    <3> QED
      BY <1>2, <2>4, <3>1 DEF Known
  <2>5. CASE c.do = "list_empty"
    <3>1. Children(files, c.path) = {}
      BY <1>4, <2>5 DEF Looked
    <3> QED
      BY <1>2, <2>5, <3>1 DEF Known
  <2> QED
    BY <2>1, <2>2, <2>3, <2>4, <2>5
<1>5. ASSUME NEW c \in Checks(r), Now(t).do \in Passing(r, c), Known(t, c) PROVE Known(t, c)'
  <2>1. c.do \in Looks /\ Now(t).do # c.do
    <3>1. Now(t).do # "remove_file"
      BY <1>2 DEF Looks
    <3> QED
      BY <1>5, <3>1 DEF Passing
  <2>2. c.do \in {"open", "create_file", "append_file"} => job'[t].data = job[t].data
    <3>1. c.do \in {"open", "create_file", "append_file"} => Now(t).do # "open"
      BY <2>1 DEF Looks
    <3> QED
      BY <3>1 DEF Looked
  <2>3. /\ c.do # "open" => c.path \in Paths
        /\ c.do = "list_empty" => Below(c.path, job[t].request.path)
    BY <1>1, ChecksShape
  <2>4. /\ writer'[t] = writer[t] /\ job'[t].request = job[t].request
        /\ \A x \in Paths : Mine(t, x) => files'[x] = files[x]
    BY <1>1, <1>2
  <2> QED
    BY <1>3, <1>5, <2>2, <2>3, <2>4, KnownStays
<1>6. Guarded(t)'
  BY <1>1, <1>2, <1>4, <1>5, GuardsAfterOne
<1>7. ~writer[t].open
  BY <1>1, <1>2 DEF HandleOK, At, Looks
<1> QED
  BY <1>2, <1>6, <1>7 DEF HandleOK

\* Making a directory, opening a file to be appended to and dropping a handle.
LEMMA MakingGuards ==
    ASSUME AsyncTypeOK, script \in Scripts, NEW t \in Tasks, TaskOK(t), Turned(t),
           MadeDir(t) \/ Dropped(t)
    PROVE  Guarded(t)' /\ HandleOK(t)'
<1> DEFINE r == job[t].request
<1>1. /\ r \in Requests /\ Guarded(t) /\ HandleOK(t)
  BY JobTypes DEF TaskOK
<1>2. Busy(t) /\ Now(t).do \in {"create_dir", "ensure_dir", "drop"} /\ WentOn(t)
  BY DEF MadeDir, Dropped, At
<1>3. ASSUME NEW c \in Checks(r) PROVE Now(t) # c /\ Now(t).do \notin Passing(r, c)
  <2>1. c.do \in {"parent_is_dir", "absent", "open", "list_empty", "create_file",
                  "append_file", "fill"}
    BY <1>1, ChecksShape
  <2> QED
    BY <1>2, <2>1 DEF Passing, Looks
<1>4. Guarded(t)'
  BY <1>1, <1>2, <1>3, GuardsAfterOne
<1>5. ~writer'[t].open
  <2>1. writer \in [Tasks -> Handles(Nat)]
    BY DEF AsyncTypeOK, FsTypeOK
  <2>2. CASE MadeDir(t)
    BY <1>1, <2>2 DEF MadeDir, CreateDirInsert, HandleOK, At
  <2>3. CASE Dropped(t)
    BY <2>1, <2>3 DEF Dropped, Drop, ClosedHandle
  <2> QED
    BY <2>2, <2>3
<1> QED
  BY <1>4, <1>5 DEF HandleOK

LEMMA MadeFileGuards ==
    ASSUME AsyncTypeOK, script \in Scripts, NEW t \in Tasks, TaskOK(t), Turned(t), MadeFile(t)
    PROVE  Guarded(t)' /\ HandleOK(t)'
<1> DEFINE r == job[t].request
<1>0. PICK x \in Paths : x = Now(t).path
  BY NowTypes DEF MadeFile, At
<1>1. /\ r \in Requests /\ job'[t].request = r /\ Guarded(t)
  BY JobTypes DEF TaskOK, Turned
<1>2. /\ Busy(t) /\ Now(t).do = "create_file" /\ WentOn(t) /\ job'[t].data = job[t].data
  BY DEF MadeFile, At
<1>3. /\ writer'[t].open /\ writer'[t].path = x /\ writer'[t].buf = << >>
      /\ IsFile(files', x)
  <2>1. writer \in [Tasks -> Handles(Nat)] /\ files \in [Paths -> Entries]
    BY DEF AsyncTypeOK, FsTypeOK, Maps
  <2>2. writer' = [writer EXCEPT ![t] = OpenHandle(x, << >>)]
    BY <1>0 DEF MadeFile, CreateFileInsert
  <2>3. files' = [files EXCEPT ![x] = FileEntry(<< >>)]
    BY <1>0 DEF MadeFile, CreateFileInsert, Insert
  <2>4. writer'[t] = OpenHandle(x, << >>)
    BY <2>1, <2>2
  <2>5. files'[x] = FileEntry(<< >>)
    BY <1>2, <2>1, <2>3
  <2> QED
    BY <2>4, <2>5 DEF OpenHandle, FileEntry, IsFile
<1>4. RightData(t, job[t].data, Source(r, x))
  <2>1. CASE r.op \in CopyingOps
    <3> DEFINE c == Do("open", Source(r, x))
    <3>1. c \in Needed(r, Now(t))
      BY <1>0, <1>2, <2>1 DEF Needed
    <3>2. Known(t, c)
      BY <1>1, <1>2, <3>1, NowGuarded
    <3>3. c.do = "open" /\ c.path = Source(r, x)
      BY DEF Do
    <3> QED
      BY <3>2, <3>3 DEF Known
  <2>2. CASE r.op \notin CopyingOps
    BY <2>2 DEF RightData, Moved, CopyingOps, MovingOps
  <2> QED
    BY <2>1, <2>2
<1>5. RightData(t, job[t].data, Source(r, x)) =>
        \A z : z = Source(r, x) => RightData(t, job[t].data, z)'
  BY <1>1, <1>2 DEF RightData, Alone, Undisturbed, Moved, Turned
<1>6. ASSUME NEW c \in Checks(r), Now(t) = c PROVE Known(t, c)'
  <2>1. c.do = "create_file" /\ c.path = x
    BY <1>0, <1>2, <1>6
  <2>2. Held(t, c.path)'
    BY <1>3, <2>1 DEF Held
  <2>3. RightData(t, job[t].data, Source(r, c.path))'
    BY <1>1, <1>4, <1>5, <2>1 DEF Source
  <2> QED
    BY <1>1, <1>3, <2>1, <2>2, <2>3 DEF Known
<1>7. ASSUME NEW c \in Checks(r) PROVE Now(t).do \notin Passing(r, c)
  BY <1>2 DEF Passing, Looks
<1>8. Guarded(t)'
  BY <1>1, <1>2, <1>6, <1>7, GuardsAfterOne
<1>9. At(t, {"fill"})'
  BY <1>1, <1>2, NowGuarded
<1>10. Makes(r, x)
  BY <1>0, <1>1, <1>2, NowGuarded DEF Inside, Makings
<1> QED
  BY <1>1, <1>2, <1>3, <1>8, <1>9, <1>10 DEF HandleOK

LEMMA OpenedGuards ==
    ASSUME AsyncTypeOK, script \in Scripts, NEW t \in Tasks, TaskOK(t), Turned(t), Opened(t)
    PROVE  Guarded(t)' /\ HandleOK(t)'
<1> DEFINE r == job[t].request
<1>0. PICK x \in Paths : x = Now(t).path
  BY NowTypes DEF Opened, At
<1>1. /\ r \in Requests /\ job'[t].request = r /\ Guarded(t)
  BY JobTypes DEF TaskOK, Turned
<1>2. /\ Busy(t) /\ Now(t).do = "append_file" /\ WentOn(t)
  BY DEF Opened, At
<1>3. writer'[t].open /\ writer'[t].path = x
  <2>1. writer \in [Tasks -> Handles(Nat)]
    BY DEF AsyncTypeOK, FsTypeOK
  <2>2. writer' = [writer EXCEPT ![t] = OpenHandle(x, files[x].content)]
    BY <1>0 DEF Opened, AppendFile
  <2>3. writer'[t] = OpenHandle(x, files[x].content)
    BY <2>1, <2>2
  <2> QED
    BY <2>3 DEF OpenHandle
<1>4. Makes(r, x) /\ r.op = "append_file"
  BY <1>0, <1>1, <1>2, NowGuarded DEF Inside, Makings
<1>5. Moved(t)' = {}
  BY <1>1, <1>4 DEF Moved, MovingOps
<1>6. ASSUME NEW c \in Checks(r), Now(t) = c PROVE Known(t, c)'
  <2>1. c.do = "append_file" /\ c.path = x
    BY <1>0, <1>2, <1>6
  <2>2. Held(t, c.path)'
    BY <1>1, <1>3, <1>4, <2>1 DEF Held
  <2>3. RightData(t, job[t].data, Source(r, c.path))'
    BY <1>5 DEF RightData
  <2> QED
    BY <1>1, <2>1, <2>2, <2>3 DEF Known
<1>7. ASSUME NEW c \in Checks(r) PROVE Now(t).do \notin Passing(r, c)
  BY <1>2 DEF Passing, Looks
<1>8. Guarded(t)'
  BY <1>1, <1>2, <1>6, <1>7, GuardsAfterOne
<1>9. At(t, {"fill"})'
  BY <1>1, <1>2, NowGuarded
<1> QED
  BY <1>1, <1>2, <1>3, <1>4, <1>8, <1>9 DEF HandleOK

\* A handle is filled with what the source held, if it is a move's.
LEMMA FilledGuards ==
    ASSUME AsyncTypeOK, script \in Scripts, NEW t \in Tasks, TaskOK(t), Turned(t), Filled(t)
    PROVE  Guarded(t)' /\ HandleOK(t)'
<1> DEFINE r == job[t].request
<1>0. PICK x \in Paths : x = Now(t).path
  BY NowTypes DEF Filled, At
<1>1. /\ r \in Requests /\ job'[t].request = r /\ Guarded(t)
      /\ job[t].data \in Contents
  BY JobTypes DEF TaskOK, Turned
<1>2. /\ Busy(t) /\ Now(t).do = "fill" /\ WentOn(t)
  BY DEF Filled, At
<1>3. /\ files' = files /\ writer'[t].open /\ writer'[t].path = writer[t].path
      /\ writer'[t].buf = writer[t].buf \o job[t].data
  <2> DEFINE y == writer[t].buf \o job[t].data
             z == writer[t].path
  <2>1. writer \in [Tasks -> Handles(Nat)]
    BY DEF AsyncTypeOK, FsTypeOK
  <2>2. /\ writer' = [writer EXCEPT ![t] = OpenHandle(z, y)]
        /\ files' = files
    BY DEF Filled, PollWrite
  <2> HIDE DEF y, z
  <2>3. writer'[t] = OpenHandle(z, y)
    BY <2>1, <2>2
  <2>4. writer'[t].open /\ writer'[t].path = z /\ writer'[t].buf = y
    BY <2>3 DEF OpenHandle
  <2>5. files' = files
    BY <2>2
  <2> QED
    BY <2>4, <2>5 DEF y, z
<1>4. Makes(r, x)
  BY <1>0, <1>1, <1>2, NowGuarded DEF Inside, Makings
<1> DEFINE d == Do(IF r.op = "append_file" THEN "append_file" ELSE "create_file", x)
<1>5. Known(t, d) /\ d.path = x
      /\ d.do = IF r.op = "append_file" THEN "append_file" ELSE "create_file"
  <2>1. d \in Needed(r, Now(t))
    BY <1>0, <1>2 DEF Needed
  <2> QED
    BY <1>1, <1>2, <2>1, NowGuarded DEF Do
<1> HIDE DEF d
<1>6. /\ Held(t, x) /\ RightData(t, job[t].data, Source(r, x))
      /\ r.op # "append_file" => writer[t].buf = << >>
  BY <1>5 DEF Known
<1>7. Held(t, x)'
  BY <1>1, <1>3, <1>6 DEF Held, Mine, Turned, IsFile
<1>8. ASSUME Alone(t)', Source(r, x) \in Moved(t)' PROVE writer'[t].buf = before'[Source(r, x)].content
  <2>1. Alone(t) /\ Source(r, x) \in Moved(t) /\ before' = before
    BY <1>1, <1>8 DEF Alone, Undisturbed, Moved, Turned
  <2>2. r.op # "append_file"
    BY <2>1 DEF Moved, MovingOps
  <2>3. job[t].data = before[Source(r, x)].content
    BY <1>6, <2>1 DEF RightData
  <2>4. << >> \o job[t].data = job[t].data
    BY <1>1, ConcatEmptySeq DEF Contents
  <2> QED
    BY <1>3, <1>6, <2>1, <2>2, <2>3, <2>4
<1>9. ASSUME NEW c, c.do = "fill", c.path = x PROVE Known(t, c)'
  <2>1. Held(t, c.path)'
    BY <1>7, <1>9
  <2>2. RightData(t, writer[t].buf, Source(r, c.path))'
    BY <1>1, <1>8, <1>9 DEF RightData, Source
  <2> QED
    BY <1>1, <1>9, <2>1, <2>2 DEF Known
<1>10. \A c \in Checks(r) : Now(t) = c => Known(t, c)'
  BY <1>0, <1>2, <1>9
<1>11. ASSUME NEW c \in Checks(r) PROVE Now(t).do \notin Passing(r, c)
  BY <1>2 DEF Passing, Looks
<1>12. Guarded(t)'
  BY <1>1, <1>2, <1>10, <1>11, GuardsAfterOne
<1>13. At(t, {"drop"})' \/ (r.op = "move_file" /\ At(t, {"remove_file"})')
  BY <1>1, <1>2, NowGuarded
<1> QED
  <2>1. x = writer'[t].path
    BY <1>3, <1>6 DEF Held
  <2>2. \E y \in Paths : /\ y = writer'[t].path /\ Makes(r, y)
                         /\ Known(t, Do("fill", y))'
    BY <1>2, <1>4, <1>9, <2>1 DEF Do
  <2>3. HandleOK(t)'
    BY <1>1, <1>13, <2>2 DEF HandleOK
  <2> QED
    BY <1>12, <2>3

\* Only move_file removes anything while it holds a handle, and it drops that next.
LEMMA RemovedGuards ==
    ASSUME AsyncTypeOK, script \in Scripts, NEW t \in Tasks, TaskOK(t), Turned(t), Removed(t)
    PROVE  Guarded(t)' /\ HandleOK(t)'
<1> DEFINE r == job[t].request
<1>1. /\ r \in Requests /\ job'[t].request = r /\ Guarded(t) /\ HandleOK(t)
  BY JobTypes DEF TaskOK, Turned
<1>2. /\ Busy(t) /\ Now(t).do = "remove_file" /\ WentOn(t) /\ writer' = writer
  BY DEF Removed, RemoveFile, At
<1>3. ASSUME NEW c, c.do = "fill", r.op = "move_file", Known(t, c) PROVE Known(t, c)'
  <2>1. Held(t, c.path) /\ RightData(t, writer[t].buf, Source(r, c.path))
    BY <1>3 DEF Known
  <2>2. Held(t, c.path)'
    BY <1>1, <1>2, <1>3, <2>1 DEF Held
  <2>3. RightData(t, writer[t].buf, Source(r, c.path))'
    BY <1>1, <1>2, <2>1 DEF RightData, Alone, Undisturbed, Moved, Turned, Source
  <2> QED
    BY <1>1, <1>3, <2>2, <2>3 DEF Known
<1>4. ASSUME NEW c \in Checks(r), Now(t) = c \/ (Now(t).do \in Passing(r, c) /\ Known(t, c))
      PROVE  Known(t, c)'
  <2>1. Now(t) # c
    BY <1>1, <1>2, ChecksShape
  <2>2. c.do = "fill" /\ r.op = "move_file"
    BY <1>2, <1>4, <2>1 DEF Passing, Looks
  <2> QED
    BY <1>3, <1>4, <2>1, <2>2
<1>5. Guarded(t)'
  BY <1>1, <1>2, <1>4, GuardsAfterOne
<1>6. ASSUME writer[t].open PROVE HandleOK(t)'
  <2>1. PICK x \in Paths : /\ x = writer[t].path /\ Makes(r, x)
                           /\ Known(t, Do("fill", x)) /\ r.op = "move_file"
    BY <1>1, <1>2, <1>6 DEF HandleOK, At
  <2>2. At(t, {"drop"})'
    BY <1>1, <1>2, <2>1, NowGuarded
  <2>3. Known(t, Do("fill", x))'
    BY <1>3, <2>1 DEF Do
  <2> QED
    BY <1>1, <1>2, <2>1, <2>2, <2>3 DEF HandleOK
<1> QED
  BY <1>2, <1>5, <1>6 DEF HandleOK

LEMMA OutcomeGuards ==
    ASSUME AsyncTypeOK, script \in Scripts, NEW t \in Tasks, TaskOK(t), Outcome(t)
    PROVE  Guarded(t)' /\ HandleOK(t)'
<1>1. HandleOK(t)
  BY DEF TaskOK
<1> QED
  BY <1>1, GivingUpGuards, LookedGuards, MakingGuards, MadeFileGuards, OpenedGuards,
     FilledGuards, RemovedGuards DEF Outcome

-----------------------------------------------------------------------------
(* The steps that put others in their place.                                *)

Top(it) == it.todo[Len(it.todo)]
Popped(it) == SubSeq(it.todo, 1, Len(it.todo) - 1)

\* The children of a directory that has been listed, one by one.
NextRemoval(t, steps) ==
    LET it == Now(t) IN
    \E child \in it.left :
        /\ Exists(files, child)
        /\ steps = <<Do(IF IsFile(files, child) THEN "remove_file" ELSE "remove_dir_all", child)>>
                   \o Rest(it.path, it.left \ {child})

CopyItem(it, child) == [Do("copy_entry", child) EXCEPT !.dest = Rebase(child, it.path, it.dest)]

\* The next item of a walk, or the next directory of its stack.
NextListing(t, steps) ==
    LET it == Now(t) IN
    /\ it.left \cup it.held = {}
    /\ \/ Exists(files, Top(it)) /\ steps = Walk(it, Children(files, Top(it)), {}, Popped(it))
       \/ job[t].request.op = "walk_dir" /\ steps = Walk(it, {}, {}, Popped(it))
NextPending(t, steps) ==
    LET it == Now(t) IN
    /\ it.held = {}
    /\ \E child \in it.left : steps = Walk(it, it.left \ {child}, {child}, it.todo)
NextItem(t, steps) ==
    LET it == Now(t)
        walk(child) == Walk(it, it.left \ {child}, {},
                            IF IsDirectory(files, child) THEN Append(it.todo, child) ELSE it.todo)
    IN \E child \in IF it.held = {} THEN it.left ELSE it.held :
          \/ job[t].request.op = "walk_dir" /\ steps = walk(child)
          \/ /\ job[t].request.op # "walk_dir" /\ Exists(files, child)
             /\ steps = <<CopyItem(it, child)>> \o walk(child)

Expands(t, steps) ==
    LET it == Now(t)
        p == it.path
    IN \/ /\ it.do = "remove_dir_all"
          /\ steps = IF Exists(files, p) THEN <<Do("list", p)>> \o RemoveDirSteps(p) ELSE << >>
       \/ it.do = "list" /\ Exists(files, p) /\ steps = Rest(p, Children(files, p))
       \/ it.do = "children" /\ NextRemoval(t, steps)
       \/ /\ it.do = "walk_dir" /\ Exists(files, p)
          /\ steps = Walk(it, Children(files, p), {}, << >>)
       \/ it.do = "walk" /\ (NextListing(t, steps) \/ NextPending(t, steps) \/ NextItem(t, steps))
       \/ /\ it.do = "copy_entry" /\ Exists(files, p)
          /\ steps = IF IsFile(files, p) THEN CopyFileSteps(p, it.dest) ELSE CreateDirSteps(it.dest)

Expansion(t) == Turned(t) /\ (GaveUp(t) \/ \E steps : Expanded(t, steps) /\ Expands(t, steps))

LEMMA ResumeExpands ==
    ASSUME AsyncTypeOK, NEW t \in Tasks, At(t, Expanding), NEW steps, Resume(t, steps),
           UNCHANGED fsVars, UNCHANGED <<script, at, before>>
    PROVE  Turned(t) /\ Expanded(t, steps)
BY ResumeTurns DEF Expanded

LEMMA AbortExpands ==
    ASSUME AsyncTypeOK, NEW t \in Tasks, At(t, Expanding), NEW code \in Codes, Abort(t, code),
           UNCHANGED fsVars, UNCHANGED <<script, at, before>>
    PROVE  Turned(t) /\ GaveUp(t)
<1>1. Busy(t) /\ Now(t).do \notin {"fill", "drop"}
  BY DEF At, Expanding, Emptyings
<1> QED
  BY <1>1, AbortTurns

LEMMA LookExpands ==
    ASSUME AsyncTypeOK, NEW t \in Tasks, NEW do \in Expanding, NEW answer, NEW steps,
           Look(t, do, answer, {"Ok"}, steps), answer.code \in Codes,
           UNCHANGED <<script, at, before>>
    PROVE  Turned(t) /\ (GaveUp(t) \/ (answer.code = "Ok" /\ Expanded(t, steps)))
<1>1. At(t, Expanding) /\ UNCHANGED fsVars /\ Settle(t, answer, {"Ok"}, steps)
  BY DEF Look, At
<1>2. CASE answer.code = "Ok"
  BY <1>1, <1>2, ResumeExpands DEF Settle
<1>3. CASE answer.code # "Ok"
  BY <1>1, <1>3, AbortExpands DEF Settle
<1> QED
  BY <1>2, <1>3

LEMMA YieldErrorExpands ==
    ASSUME AsyncTypeOK, NEW t \in Tasks, At(t, Expanding), NEW code \in Codes, NEW walk,
           YieldError(t, code, walk), UNCHANGED fsVars, UNCHANGED <<script, at, before>>
    PROVE  Turned(t) /\ (GaveUp(t) \/ (job[t].request.op = "walk_dir" /\ Expanded(t, walk)))
BY ResumeExpands, AbortExpands DEF YieldError

LEMMA RemovalExpansion ==
    ASSUME AsyncTypeOK, NEW t \in Tasks, UNCHANGED <<script, at, before>>,
           RemoveDirAll(t) \/ ListStep(t) \/ \E child \in Paths : NextChild(t, child)
    PROVE  Expansion(t)
<1> DEFINE p == Now(t).path
<1>1. CASE RemoveDirAll(t)
  <2> DEFINE steps == IF Exists(files, p) THEN <<Do("list", p)>> \o RemoveDirSteps(p) ELSE << >>
  <2>1. At(t, {"remove_dir_all"}) /\ UNCHANGED fsVars
    BY <1>1 DEF RemoveDirAll
  <2>2. Resume(t, steps)
    BY <1>1, SectionAnswers DEF RemoveDirAll
  <2>3. At(t, Expanding) /\ Now(t).do = "remove_dir_all"
    BY <2>1 DEF At, Expanding, Emptyings
  <2>4. Expands(t, steps)
    BY <2>3 DEF Expands
  <2> HIDE DEF steps
  <2>5. Turned(t) /\ Expanded(t, steps)
    BY <2>1, <2>2, <2>3, ResumeExpands
  <2> QED
    BY <2>4, <2>5 DEF Expansion
<1>2. CASE ListStep(t)
  <2> DEFINE a == ReadDirSection(p)
             steps == Rest(p, a.entries)
  <2>1. Look(t, "list", a, {"Ok"}, steps) /\ Now(t).do = "list"
    BY <1>2 DEF ListStep, Look, At
  <2>2. /\ a.code \in Codes /\ "list" \in Expanding
        /\ a.code = "Ok" => Exists(files, p) /\ a.entries = Children(files, p)
    BY SectionAnswers DEF Codes, Expanding, Emptyings
  <2>3. a.code = "Ok" => Expands(t, steps)
    BY <2>1, <2>2 DEF Expands
  <2> HIDE DEF a, steps
  <2>4. Turned(t) /\ (GaveUp(t) \/ (a.code = "Ok" /\ Expanded(t, steps)))
    BY <2>1, <2>2, LookExpands
  <2> QED
    BY <2>3, <2>4 DEF Expansion
<1>3. ASSUME NEW child \in Paths, NextChild(t, child) PROVE Expansion(t)
  <2> DEFINE a == MetadataSection(child)
             removal == IF a.kind = "File" THEN "remove_file" ELSE "remove_dir_all"
             steps == <<Do(removal, child)>> \o Rest(p, Now(t).left \ {child})
  <2>1. Look(t, "children", a, {"Ok"}, steps) /\ child \in Now(t).left
    BY <1>3 DEF NextChild
  <2>2. /\ a.code \in Codes /\ "children" \in Expanding
        /\ a.code = "Ok" => Exists(files, child) /\ (a.kind = "File" <=> IsFile(files, child))
    BY SectionAnswers DEF Codes, Expanding, Emptyings, IsFile
  <2>3. a.code = "Ok" => NextRemoval(t, steps)
    BY <2>1, <2>2 DEF NextRemoval
  <2>4. Now(t).do = "children"
    BY <2>1 DEF Look, At
  <2> HIDE DEF a, steps
  <2>5. Turned(t) /\ (GaveUp(t) \/ (a.code = "Ok" /\ Expanded(t, steps)))
    BY <2>1, <2>2, LookExpands
  <2> QED
    BY <2>3, <2>4, <2>5 DEF Expansion, Expands
<1> QED
  BY <1>1, <1>2, <1>3

LEMMA CopyExpansion ==
    ASSUME AsyncTypeOK, NEW t \in Tasks, UNCHANGED <<script, at, before>>,
           WalkDirStep(t) \/ CopyEntry(t)
    PROVE  Expansion(t)
<1> DEFINE it == Now(t)
           p == it.path
<1>1. CASE WalkDirStep(t)
  <2> DEFINE a == ReadDirSection(p)
             steps == Walk(it, a.entries, {}, << >>)
  <2>1. Look(t, "walk_dir", a, {"Ok"}, steps) /\ it.do = "walk_dir"
    BY <1>1 DEF WalkDirStep, Look, At
  <2>2. /\ a.code \in Codes /\ "walk_dir" \in Expanding
        /\ a.code = "Ok" => Exists(files, p) /\ a.entries = Children(files, p)
    BY SectionAnswers DEF Codes, Expanding
  <2>3. a.code = "Ok" => Expands(t, steps)
    BY <2>1, <2>2 DEF Expands
  <2> HIDE DEF a, steps
  <2>4. Turned(t) /\ (GaveUp(t) \/ (a.code = "Ok" /\ Expanded(t, steps)))
    BY <2>1, <2>2, LookExpands
  <2> QED
    BY <2>3, <2>4 DEF Expansion
<1>2. CASE CopyEntry(t)
  <2> DEFINE a == MetadataSection(p)
             steps == IF a.kind = "File" THEN CopyFileSteps(p, it.dest) ELSE CreateDirSteps(it.dest)
  <2>1. Look(t, "copy_entry", a, {"Ok"}, steps) /\ it.do = "copy_entry"
    BY <1>2 DEF CopyEntry, Look, At
  <2>2. /\ a.code \in Codes /\ "copy_entry" \in Expanding
        /\ a.code = "Ok" => Exists(files, p) /\ (a.kind = "File" <=> IsFile(files, p))
    BY SectionAnswers DEF Codes, Expanding, IsFile
  <2>3. a.code = "Ok" => Expands(t, steps)
    BY <2>1, <2>2 DEF Expands
  <2> HIDE DEF a, steps
  <2>4. Turned(t) /\ (GaveUp(t) \/ (a.code = "Ok" /\ Expanded(t, steps)))
    BY <2>1, <2>2, LookExpands
  <2> QED
    BY <2>3, <2>4 DEF Expansion
<1> QED
  BY <1>1, <1>2

LEMMA WalkExpansion ==
    ASSUME AsyncTypeOK, NEW t \in Tasks, UNCHANGED <<script, at, before>>,
           WalkList(t) \/ \E child \in Paths : WalkPending(t, child)
    PROVE  Expansion(t)
<1> DEFINE it == Now(t)
<1>0. At(t, Expanding) /\ it.do = "walk" /\ UNCHANGED fsVars
  BY DEF WalkList, WalkPending, At, Expanding
<1>1. CASE WalkList(t)
  <2> DEFINE a == ReadDirSection(Top(it))
             steps == Walk(it, a.entries, {}, Popped(it))
             walk == Walk(it, {}, {}, Popped(it))
  <2>1. /\ it.left \cup it.held = {}
        /\ a.code = "Ok" => Resume(t, steps)
        /\ a.code # "Ok" => YieldError(t, a.code, walk)
    BY <1>1 DEF WalkList, Top, Popped
  <2>2. /\ a.code \in Codes
        /\ a.code = "Ok" => Exists(files, Top(it)) /\ a.entries = Children(files, Top(it))
    BY SectionAnswers DEF Codes
  <2>3. /\ a.code = "Ok" => Expands(t, steps)
        /\ job[t].request.op = "walk_dir" => Expands(t, walk)
    BY <1>0, <2>1, <2>2 DEF Expands, NextListing
  <2> HIDE DEF a, steps, walk
  <2>4. CASE a.code = "Ok"
    BY <1>0, <2>1, <2>3, <2>4, ResumeExpands DEF Expansion
  <2>5. CASE a.code # "Ok"
    BY <1>0, <2>1, <2>2, <2>3, <2>5, YieldErrorExpands DEF Expansion
  <2> QED
    BY <2>4, <2>5
<1>2. ASSUME NEW child \in Paths, WalkPending(t, child) PROVE Expansion(t)
  <2> DEFINE steps == Walk(it, it.left \ {child}, {child}, it.todo)
  <2>1. Resume(t, steps) /\ it.held = {} /\ child \in it.left
    BY <1>2 DEF WalkPending
  <2>2. Expands(t, steps)
    BY <1>0, <2>1 DEF Expands, NextPending
  <2> HIDE DEF steps
  <2>3. Turned(t) /\ Expanded(t, steps)
    BY <1>0, <2>1, ResumeExpands
  <2> QED
    BY <2>2, <2>3 DEF Expansion
<1> QED
  BY <1>1, <1>2

LEMMA YieldExpansion ==
    ASSUME AsyncTypeOK, NEW t \in Tasks, UNCHANGED <<script, at, before>>,
           NEW child \in Paths, WalkYield(t, child)
    PROVE  Expansion(t)
<1> DEFINE it == Now(t)
           r == job[t].request
           a == MetadataSection(child)
           todo == IF IsDirectory(files, child) THEN Append(it.todo, child) ELSE it.todo
           walk == Walk(it, it.left \ {child}, {}, todo)
           steps == (IF r.op = "walk_dir" THEN << >> ELSE <<CopyItem(it, child)>>) \o walk
<1>0. /\ At(t, Expanding) /\ it.do = "walk" /\ UNCHANGED fsVars
      /\ child \in IF it.held = {} THEN it.left ELSE it.held
  BY DEF WalkYield, At, Expanding
<1>1. /\ a.code \in Codes /\ (a.code = "Ok" <=> Exists(files, child))
      /\ a.kind = "Directory" <=> IsDirectory(files, child)
  BY SectionAnswers DEF Codes, IsDirectory, Exists
<1>2. CASE a.code = "Ok"
  <2>1. job' = [job EXCEPT ![t].agenda = steps \o Tail(@), ![t].yielded = Append(@, child)]
    BY <1>1, <1>2 DEF WalkYield, CopyItem
  <2>2. job \in [Tasks -> Jobs] /\ job[t] \in Jobs /\ Append(job[t].yielded, child) \in Seq(Paths)
    BY JobTypes
  <2>3. Expands(t, steps)
    <3>1. CASE r.op = "walk_dir"
      <4>1. steps = << >> \o walk
        BY <3>1
      <4>2. << >> \o walk = walk
        BY DEF Walk
      <4>3. steps = walk
        BY <4>1, <4>2
      <4> HIDE DEF steps
      <4> QED
        BY <1>0, <3>1, <4>3 DEF Expands, NextItem
    <3>2. CASE r.op # "walk_dir"
      BY <1>0, <1>1, <1>2, <3>2 DEF Expands, NextItem
    <3> QED
      BY <3>1, <3>2
  <2> DEFINE u == steps \o Tail(job[t].agenda)
             y == Append(job[t].yielded, child)
  <2> HIDE DEF steps
  <2>4. job' = [job EXCEPT ![t].agenda = u, ![t].yielded = y] /\ y \in Seq(Paths)
    BY <2>1, <2>2
  <2> HIDE DEF u, y
  <2>5. job'[t].agenda = u /\ job'[t].request = job[t].request
    BY <2>2, <2>4 DEF Jobs
  <2>6. u \in Seq(Items) => job' \in [Tasks -> Jobs]
    BY <2>2, <2>4 DEF Jobs
  <2>7. \A v \in Tasks \ {t} : job'[v] = job[v]
    BY <2>2, <2>4
  <2>8. Turned(t) /\ Expanded(t, steps)
    BY <1>0, <2>5, <2>6, <2>7 DEF Turned, Expanded, u
  <2> QED
    BY <2>3, <2>8 DEF Expansion
<1>3. CASE a.code # "Ok"
  <2>1. YieldError(t, a.code, walk)
    <3>1. a.kind # "Directory" /\ ~IsDirectory(files, child)
      BY <1>1, <1>3 DEF Exists, IsDirectory
    <3> QED
      BY <1>3, <3>1 DEF WalkYield
  <2>2. r.op = "walk_dir" => Expands(t, walk)
    BY <1>0 DEF Expands, NextItem
  <2> HIDE DEF walk, a
  <2> QED
    BY <1>0, <1>1, <2>1, <2>2, YieldErrorExpands DEF Expansion
<1> QED
  BY <1>2, <1>3

LEMMA StepsTurn ==
    ASSUME AsyncTypeOK, NEW t \in Tasks, Step(t)
    PROVE  Outcome(t) \/ Expansion(t)
BY StepOutcomes, RemovalExpansion, CopyExpansion, WalkExpansion, YieldExpansion
DEF ExpandingStep

\* What a removal finds in a directory it may not list again: nothing is in a file.
LEMMA FilesHoldNothing ==
    ASSUME AsyncTypeOK, script \in Scripts, NEW t \in Tasks, TaskOK(t), Busy(t),
           job[t].request.op \in {"remove_dir_all", "move_dir"},
           NEW child \in Paths, Below(child, job[t].request.path), IsFile(files, child),
           Undisturbed(t, job[t].request.path)
    PROVE  Children(files, child) = {}
<1> DEFINE p == job[t].request.path
<1>1. at[t] > 0 /\ p \in Paths
  BY JobTypes DEF TaskOK, Asked, Requests
<1>2. \A x \in Paths : x # p /\ Below(x, p) /\ Exists(files, x) => IsDirectory(files, Parent(x))
  BY <1>1 DEF TaskOK, Orphanless
<1>3. ASSUME NEW y \in Children(files, child) PROVE FALSE
  <2>1. y \in Paths /\ y # Root /\ Parent(y) = child /\ Exists(files, y)
    BY DEF Children
  <2>2. child \in AnyPath /\ p \in AnyPath /\ y \in AnyPath
    BY <1>1, <2>1, PathsAreSequences
  <2>3. Below(y, p)
    BY <2>2, ChildrenAreBelow
  <2>4. y # p
    <3>1. Len(p) <= Len(child)
      BY DEF Below
    <3>2. Len(y) \in Nat \ {0} /\ Len(child) = Len(y) - 1
      BY <2>1, <2>2, ParentIsShorter
    <3> QED
      BY <3>1, <3>2
  <2>5. IsDirectory(files, child)
    BY <1>2, <2>1, <2>3, <2>4
  <2> QED
    BY <2>5 DEF IsFile, IsDirectory
<1> QED
  BY <1>3

\* A removal and what it has before it, when its path is known to be empty.
LEMMA RemovalBacked ==
    ASSUME NEW t \in Tasks, NEW r, r.op \in {"remove_dir_all", "move_dir"},
           NEW child \in Paths, Below(child, r.path), NEW u, Sound(r, u),
           Known(t, Do("list_empty", child))'
    PROVE  LET steps == <<Do("remove_file", child)>> \o u IN
           /\ steps \in Seq(Fitting(r)) /\ Together(r, steps)
           /\ \A i \in DOMAIN steps : \A c \in Needed(r, steps[i]) :
                 Led(r, steps, i, c) \/ (Clear(r, steps, i, c) /\ Known(t, c)')
<1> DEFINE d == Do("remove_file", child)
           e == <<d>>
           steps == e \o u
<1>1. d \in Fitting(r)
  BY DoFits DEF Steps, Makings, Emptyings, Removals, RemovingOps, MovingOps
<1>2. d.do = "remove_file" /\ d.path = child
  BY DEF Do
<1>3. Needed(r, d) = {Do("list_empty", child)}
  BY <1>2 DEF Needed
<1> HIDE DEF d
<1>4. e \in Seq(Fitting(r)) /\ DOMAIN e = {1} /\ e[1] = d /\ Len(e) = 1
  BY <1>1
<1> HIDE DEF e
<1>5. Together(r, e)
  BY <1>2, <1>4 DEF Together
<1>6. /\ u \in Seq(Fitting(r)) /\ Together(r, u)
      /\ \A i \in DOMAIN u : \A c \in Needed(r, u[i]) : Led(r, u, i, c)
  BY DEF Sound
<1>7. steps \in Seq(Fitting(r)) /\ Together(r, steps)
  BY <1>4, <1>5, <1>6, AgendaConcat, TogetherInConcat
<1>8. /\ \A i \in DOMAIN e : steps[i] = e[i]
      /\ \A i \in DOMAIN u : steps[1 + i] = u[i]
      /\ \A i \in DOMAIN steps : i \in DOMAIN e \/ \E k \in DOMAIN u : i = 1 + k
  <2>1. e \in Seq(Fitting(r)) /\ u \in Seq(Fitting(r))
    BY <1>4, <1>6
  <2>2. /\ \A i \in DOMAIN e : steps[i] = e[i]
        /\ \A i \in DOMAIN u : steps[Len(e) + i] = u[i]
        /\ \A i \in DOMAIN steps : i \in DOMAIN e \/ \E k \in DOMAIN u : i = Len(e) + k
    BY <2>1, AgendaConcat
  <2> QED
    BY <1>4, <2>2
<1>9. ASSUME NEW k \in DOMAIN u, NEW c, Led(r, u, k, c) PROVE Led(r, steps, 1 + k, c)
  <2>1. Led(r, steps, Len(e) + k, c)
    BY <1>4, <1>6, <1>9, LedInConcat
  <2> QED
    BY <1>4, <2>1
<1>10. \A c : Clear(r, e, 1, c)
  BY <1>4 DEF Clear
<1>11. \A c : Clear(r, steps, 1, c)
  BY <1>4, <1>6, <1>10, LedInConcat
<1> HIDE DEF steps
<1>12. \A i \in DOMAIN steps : \A c \in Needed(r, steps[i]) :
                 Led(r, steps, i, c) \/ (Clear(r, steps, i, c) /\ Known(t, c)')
  BY <1>3, <1>4, <1>6, <1>8, <1>9, <1>11
<1> QED
  BY <1>7, <1>12 DEF steps, e, d

\* What MovesAssumption says of the request a task is in.
LEMMA AskedMoves ==
    ASSUME AsyncTypeOK, script \in Scripts, NEW t \in Tasks, Asked(t), at[t] > 0
    PROVE  /\ at[t] \in DOMAIN script[t] /\ script[t][at[t]] = job[t].request
           /\ at[t] \in 1 .. at[t]
           /\ job[t].request.op \in CopyingOps =>
                LET p == job[t].request.path
                    q == job[t].request.dest
                IN /\ Below(q, p) => q = p
                   /\ \A x \in Paths : Below(x, p) => Rebase(x, p, q) \in Paths
<1>1. script \in [Tasks -> Seq(Requests)]
  BY ScriptsAssumption
<1>2. script[t] \in Seq(Requests) /\ at[t] \in 1 .. Len(script[t])
  BY <1>1 DEF Asked
<1>3. at[t] \in DOMAIN script[t] /\ script[t][at[t]] = job[t].request /\ at[t] \in 1 .. at[t]
  BY <1>2, LenProperties DEF Asked
<1> QED
  BY <1>3, MovesAssumption

LEMMA RemovalExpandsWell ==
    ASSUME AsyncTypeOK, script \in Scripts, NEW t \in Tasks, TaskOK(t), Turned(t),
           At(t, Emptyings), UNCHANGED fsVars, NEW steps, Expands(t, steps)
    PROVE  /\ steps \in Seq(Fitting(job[t].request)) /\ Together(job[t].request, steps)
           /\ \A i \in DOMAIN steps : \A c \in Needed(job[t].request, steps[i]) :
                 \/ Led(job[t].request, steps, i, c)
                 \/ Clear(job[t].request, steps, i, c) /\ Known(t, c)'
<1> DEFINE r == job[t].request
           it == Now(t)
<1>0. PICK p \in Paths : p = it.path
  BY NowTypes DEF At
<1>1. /\ Busy(t) /\ it.do \in Emptyings /\ r \in Requests /\ job'[t].request = r
      /\ it.left \in SUBSET Paths
  BY JobTypes, NowTypes DEF At, Turned
<1>2. Inside(r, it)
  BY <1>1, NowGuarded DEF TaskOK
<1>3. /\ r.op \in {"remove_dir_all", "move_dir"} /\ Below(p, r.path)
      /\ \A c \in it.left : Below(c, r.path)
  BY <1>0, <1>1, <1>2 DEF Inside, Removals, Emptyings
<1> HIDE DEF r
<1>4. ASSUME Sound(r, steps)
      PROVE  /\ steps \in Seq(Fitting(r)) /\ Together(r, steps)
             /\ \A i \in DOMAIN steps : \A c \in Needed(r, steps[i]) :
                   Led(r, steps, i, c) \/ (Clear(r, steps, i, c) /\ Known(t, c)')
  BY <1>4 DEF Sound
<1>5. CASE it.do = "remove_dir_all"
  <2>1. steps = IF Exists(files, p) THEN <<Do("list", p)>> \o RemoveDirSteps(p) ELSE << >>
    BY <1>0, <1>5 DEF Expands
  <2>2. Sound(r, <<Do("list", p)>>) /\ Sound(r, RemoveDirSteps(p))
    BY <1>3, RemoveDirAllFits, RemoveDirIsSound
  <2>3. Sound(r, <<Do("list", p)>> \o RemoveDirSteps(p))
    BY <2>2, SoundConcat
  <2>4. Sound(r, steps)
    BY <2>1, <2>3, NothingIsSound
  <2> QED
    BY <1>4, <2>4 DEF r
<1>6. CASE it.do = "list"
  <2>1. steps = Rest(p, Children(files, p))
    BY <1>0, <1>6 DEF Expands
  <2>2. Children(files, p) \in SUBSET Paths
    BY DEF Children
  <2>3. p \in AnyPath /\ r.path \in AnyPath
    BY <1>1, PathsAreSequences DEF r, Requests
  <2>4. \A c \in Children(files, p) : Below(c, r.path)
    BY <1>3, <2>3, ChildrenAreBelow
  <2>5. Sound(r, steps)
    BY <1>3, <2>1, <2>2, <2>4, RestIsSound
  <2> QED
    BY <1>4, <2>5 DEF r
<1>7. CASE it.do = "children"
  <2>1. PICK child \in it.left :
          /\ Exists(files, child)
          /\ steps = <<Do(IF IsFile(files, child) THEN "remove_file" ELSE "remove_dir_all", child)>>
                     \o Rest(p, it.left \ {child})
    BY <1>0, <1>7 DEF Expands, NextRemoval
  <2> DEFINE u == Rest(p, it.left \ {child})
  <2>2. child \in Paths /\ Below(child, r.path)
    BY <1>1, <1>3
  <2>3. Sound(r, u)
    BY <1>1, <1>3, RestIsSound
  <2> HIDE DEF u
  <2>4. CASE IsFile(files, child)
    <3>1. steps = <<Do("remove_file", child)>> \o u
      BY <2>1, <2>4 DEF u
    <3>2. Undisturbed(t, r.path) => Children(files, child) = {}
      BY <1>1, <1>3, <2>2, <2>4, FilesHoldNothing DEF r
    <3>3. (Undisturbed(t, job[t].request.path))' => Undisturbed(t, r.path)
      BY <1>1 DEF Undisturbed, Turned
    <3>4. Known(t, Do("list_empty", child))'
      <4> DEFINE c == Do("list_empty", child)
      <4>1. c.do = "list_empty" /\ c.path = child
        BY DEF Do
      <4> HIDE DEF c
      <4>2. (Undisturbed(t, job[t].request.path))' => Children(files', c.path) = {}
        BY <3>2, <3>3, <4>1 DEF fsVars
      <4>3. Known(t, c)'
        BY <4>1, <4>2 DEF Known
      <4> QED
        BY <4>3 DEF c
    <3>5. /\ steps \in Seq(Fitting(r)) /\ Together(r, steps)
          /\ \A i \in DOMAIN steps : \A c \in Needed(r, steps[i]) :
                Led(r, steps, i, c) \/ (Clear(r, steps, i, c) /\ Known(t, c)')
      BY <1>3, <2>2, <2>3, <3>1, <3>4, RemovalBacked
    <3> QED
      BY <3>5 DEF r
  <2>5. CASE ~IsFile(files, child)
    <3>1. steps = <<Do("remove_dir_all", child)>> \o u
      BY <2>1, <2>5 DEF u
    <3>2. Sound(r, <<Do("remove_dir_all", child)>>)
      BY <1>3, <2>2, RemoveDirAllFits
    <3>3. Sound(r, steps)
      BY <2>3, <3>1, <3>2, SoundConcat
    <3> QED
      BY <1>4, <3>3 DEF r
  <2> QED
    BY <2>4, <2>5
<1> QED
  BY <1>1, <1>5, <1>6, <1>7 DEF Emptyings

LEMMA StackShape ==
    ASSUME NEW it \in Items
    PROVE  /\ it.left \in SUBSET Paths /\ it.held \in SUBSET Paths /\ it.todo \in Seq(Paths)
           /\ it.todo # << >> =>
                /\ Top(it) \in Paths /\ Len(it.todo) \in DOMAIN it.todo
                /\ Popped(it) \in Seq(Paths)
                /\ \A i \in DOMAIN Popped(it) : i \in DOMAIN it.todo /\ Popped(it)[i] = it.todo[i]
                /\ \A i \in DOMAIN it.todo :
                      i = Len(it.todo) \/ (i \in DOMAIN Popped(it) /\ Popped(it)[i] = it.todo[i])
           /\ \A c \in Paths :
                /\ Append(it.todo, c) \in Seq(Paths)
                /\ \A i \in DOMAIN Append(it.todo, c) :
                      Append(it.todo, c)[i] = c \/ (i \in DOMAIN it.todo /\ Append(it.todo, c)[i] = it.todo[i])
                /\ \A i \in DOMAIN it.todo :
                      i \in DOMAIN Append(it.todo, c) /\ Append(it.todo, c)[i] = it.todo[i]
                /\ \E i \in DOMAIN Append(it.todo, c) : Append(it.todo, c)[i] = c
<1> DEFINE s == it.todo
           n == Len(s)
<1>1. it.left \in SUBSET Paths /\ it.held \in SUBSET Paths /\ s \in Seq(Paths)
  BY DEF Items
<1> HIDE DEF s
<1>2. n \in Nat /\ DOMAIN s = 1 .. n /\ \A i \in 1 .. n : s[i] \in Paths
  BY <1>1, LenProperties, ElementOfSeq
<1>3. ASSUME s # << >>
      PROVE  /\ s[n] \in Paths /\ n \in DOMAIN s /\ SubSeq(s, 1, n - 1) \in Seq(Paths)
             /\ DOMAIN SubSeq(s, 1, n - 1) = 1 .. n - 1
             /\ \A i \in 1 .. n - 1 : SubSeq(s, 1, n - 1)[i] = s[i]
  <2>1. n \in Nat \ {0}
    BY <1>1, <1>3, EmptySeq
  <2> QED
    BY <1>1, <1>2, <2>1
<1>4. ASSUME NEW c \in Paths
      PROVE  /\ Append(s, c) \in Seq(Paths) /\ DOMAIN Append(s, c) = 1 .. n + 1
             /\ \A i \in 1 .. n : Append(s, c)[i] = s[i]
             /\ Append(s, c)[n + 1] = c
  BY <1>1, <1>2, AppendProperties, LenProperties
<1>5. ASSUME s # << >>
      PROVE  /\ \A i \in DOMAIN SubSeq(s, 1, n - 1) :
                   i \in DOMAIN s /\ SubSeq(s, 1, n - 1)[i] = s[i]
             /\ \A i \in DOMAIN s : i = n \/ (/\ i \in DOMAIN SubSeq(s, 1, n - 1)
                                              /\ SubSeq(s, 1, n - 1)[i] = s[i])
  BY <1>2, <1>3, <1>5
<1>6. ASSUME NEW c \in Paths
      PROVE  /\ \A i \in DOMAIN Append(s, c) :
                   Append(s, c)[i] = c \/ (i \in DOMAIN s /\ Append(s, c)[i] = s[i])
             /\ \A i \in DOMAIN s : i \in DOMAIN Append(s, c) /\ Append(s, c)[i] = s[i]
             /\ \E i \in DOMAIN Append(s, c) : Append(s, c)[i] = c
  <2>1. n + 1 \in 1 .. n + 1 /\ \A i \in 1 .. n + 1 : i = n + 1 \/ i \in 1 .. n
    BY <1>2
  <2>2. \A i \in 1 .. n : i \in 1 .. n + 1
    BY <1>2
  <2> QED
    BY <1>2, <1>4, <2>1, <2>2
<1> QED
  BY <1>1, <1>3, <1>4, <1>5, <1>6 DEF s, Top, Popped

LEMMA CopyItemFits ==
    ASSUME NEW r \in Requests, NEW it \in Fitting(r), it.do = "walk", r.op # "walk_dir",
           NEW child \in Paths, Below(child, r.path), Rebase(child, r.path, r.dest) \in Paths
    PROVE  /\ CopyItem(it, child) \in Fitting(r) /\ Sound(r, <<CopyItem(it, child)>>)
           /\ CopyItem(it, child).do = "copy_entry" /\ CopyItem(it, child).path = child
<1> DEFINE w == CopyItem(it, child)
<1>1. it.path = r.path /\ it.dest = r.dest /\ r.op \in {"copy_dir", "move_dir"}
  BY DEF Fitting, Inside
<1> DEFINE z == Rebase(child, r.path, r.dest)
<1>2. w = [Do("copy_entry", child) EXCEPT !.dest = z] /\ z \in Paths
  BY <1>1 DEF CopyItem
<1> HIDE DEF w, z
<1>3. Do("copy_entry", child) \in Items
  BY DoItem DEF Steps
<1>4. w.do = "copy_entry" /\ w.path = child /\ w.dest = z /\ w \in Items
  BY <1>2, <1>3 DEF Items, Do
<1>5. Inside(r, w)
  BY <1>1, <1>4 DEF Inside, Makings, Removals, Emptyings, z
<1>6. w \in Fitting(r)
  BY <1>4, <1>5 DEF Fitting
<1>7. Sound(r, <<w>>)
  BY <1>4, <1>6, OneIsSound
<1> QED
  BY <1>4, <1>6, <1>7 DEF w

LEMMA CopyEntryExpandsWell ==
    ASSUME AsyncTypeOK, script \in Scripts, NEW t \in Tasks, TaskOK(t),
           At(t, {"copy_entry"}), NEW steps, Expands(t, steps)
    PROVE  Sound(job[t].request, steps)
<1> DEFINE r == job[t].request
           it == Now(t)
           p == it.path
           q == it.dest
<1>1. /\ Busy(t) /\ it.do = "copy_entry" /\ r \in Requests /\ p \in Paths /\ q \in Paths
  BY JobTypes, NowTypes DEF At
<1>2. Inside(r, it)
  BY <1>1, NowGuarded DEF TaskOK
<1>3. r.op \in {"copy_dir", "move_dir"} /\ Below(p, r.path) /\ q = Rebase(p, r.path, r.dest)
  BY <1>1, <1>2 DEF Inside
<1>4. p \in AnyPath /\ r.path \in AnyPath /\ r.dest \in AnyPath
  BY <1>1, PathsAreSequences DEF Requests
<1>5. Below(q, r.dest) /\ p = Source(r, q)
  <2>1. Below(p, r.path) /\ q = Rebase(p, r.path, r.dest)
    BY <1>3
  <2>2. Below(Rebase(p, r.path, r.dest), r.dest)
    BY <1>4, RebasedIsBelow
  <2>3. Rebase(Rebase(p, r.path, r.dest), r.dest, r.path) = p
    BY <1>4, <2>1, RebaseBack
  <2> QED
    BY <2>1, <2>2, <2>3 DEF Source
<1>6. steps = IF IsFile(files, p) THEN CopyFileSteps(p, q) ELSE CreateDirSteps(q)
  BY <1>1 DEF Expands
<1> HIDE DEF r, p, q
<1>7. r.op \in CopyingOps /\ Makes(r, q)
  BY <1>3, <1>5 DEF CopyingOps, Makes
<1> QED
  BY <1>1, <1>5, <1>6, <1>7, CopyFileIsSound, CreateDirIsSound DEF r

LEMMA WalkExpandsWell ==
    ASSUME AsyncTypeOK, script \in Scripts, NEW t \in Tasks, TaskOK(t),
           At(t, {"walk_dir", "walk"}), NEW steps, Expands(t, steps)
    PROVE  Sound(job[t].request, steps)
<1> DEFINE r == job[t].request
           it == Now(t)
           p == it.path
<1>1. /\ Busy(t) /\ it.do \in {"walk_dir", "walk"} /\ r \in Requests /\ p \in Paths
      /\ it \in Items
  BY JobTypes, NowTypes DEF At
<1>2. it \in Fitting(r) /\ Inside(r, it)
  BY <1>1, NowGuarded DEF TaskOK
<1>3. r.op # "walk_dir" => /\ r.op \in {"copy_dir", "move_dir"} /\ p = r.path /\ it.dest = r.dest
                           /\ \A c \in it.left \cup it.held : Below(c, r.path)
                           /\ \A i \in DOMAIN it.todo : Below(it.todo[i], r.path)
  BY <1>1, <1>2 DEF Inside, Ahead
<1>4. it.left \in SUBSET Paths /\ it.held \in SUBSET Paths /\ it.todo \in Seq(Paths)
  BY <1>1, StackShape
<1>5. Asked(t) /\ at[t] > 0
  BY <1>1 DEF TaskOK, Asked
<1>6. ASSUME NEW d \in Paths, r.op # "walk_dir" => Below(d, r.path)
      PROVE  /\ Children(files, d) \in SUBSET Paths
             /\ r.op # "walk_dir" => \A c \in Children(files, d) : Below(c, r.path)
  <2>1. d \in AnyPath /\ r.path \in AnyPath
    BY <1>1, PathsAreSequences DEF Requests
  <2> QED
    BY <1>6, <2>1, ChildrenAreBelow DEF Children
<1>7. ASSUME NEW left \in SUBSET Paths, NEW held \in SUBSET Paths, NEW todo \in Seq(Paths),
             r.op # "walk_dir" => /\ \A c \in left \cup held : Below(c, r.path)
                                  /\ \A i \in DOMAIN todo : Below(todo[i], r.path),
             \A c, d \in held : c = d
      PROVE  Sound(r, Walk(it, left, held, todo))
  BY <1>1, <1>2, <1>7, WalkIsSound
<1>8. CASE it.do = "walk_dir"
  <2>1. steps = Walk(it, Children(files, p), {}, << >>)
    BY <1>8 DEF Expands
  <2>2. /\ Children(files, p) \in SUBSET Paths
        /\ r.op # "walk_dir" => \A c \in Children(files, p) : Below(c, r.path)
    <3>1. r.op # "walk_dir" => Below(p, r.path)
      BY <1>1, <1>3, PathsAreSequences, BelowItself DEF Requests
    <3> QED
      BY <1>1, <1>6, <3>1
  <2>3. << >> \in Seq(Paths) /\ DOMAIN << >> = {}
    BY EmptySeq
  <2> QED
    BY <1>7, <2>1, <2>2, <2>3
<1>9. CASE it.do = "walk" /\ NextListing(t, steps)
  <2>1. it.todo # << >>
    BY <1>2, <1>9 DEF Inside, NextListing
  <2>2. /\ Top(it) \in Paths /\ Len(it.todo) \in DOMAIN it.todo /\ Popped(it) \in Seq(Paths)
        /\ \A i \in DOMAIN Popped(it) : i \in DOMAIN it.todo /\ Popped(it)[i] = it.todo[i]
    BY <1>1, <2>1, StackShape
  <2>3. r.op # "walk_dir" => /\ Below(Top(it), r.path)
                             /\ \A i \in DOMAIN Popped(it) : Below(Popped(it)[i], r.path)
    BY <1>3, <2>2 DEF Top
  <2>4. /\ Children(files, Top(it)) \in SUBSET Paths
        /\ r.op # "walk_dir" => \A c \in Children(files, Top(it)) : Below(c, r.path)
    BY <1>6, <2>2, <2>3
  <2>5. Sound(r, Walk(it, Children(files, Top(it)), {}, Popped(it)))
    BY <1>7, <2>2, <2>3, <2>4
  <2>6. Sound(r, Walk(it, {}, {}, Popped(it)))
    BY <1>7, <2>2, <2>3
  <2> QED
    BY <1>9, <2>5, <2>6 DEF NextListing
<1>10. CASE it.do = "walk" /\ NextPending(t, steps)
  <2>1. PICK child \in it.left : steps = Walk(it, it.left \ {child}, {child}, it.todo)
    BY <1>10 DEF NextPending
  <2> QED
    BY <1>3, <1>4, <1>7, <2>1
<1>11. CASE it.do = "walk" /\ NextItem(t, steps)
  <2> DEFINE todo(child) == IF IsDirectory(files, child) THEN Append(it.todo, child) ELSE it.todo
             walk(child) == Walk(it, it.left \ {child}, {}, todo(child))
  <2>1. PICK child \in IF it.held = {} THEN it.left ELSE it.held :
          \/ r.op = "walk_dir" /\ steps = walk(child)
          \/ r.op # "walk_dir" /\ Exists(files, child) /\ steps = <<CopyItem(it, child)>> \o walk(child)
    BY <1>11 DEF NextItem
  <2>2. child \in Paths /\ (r.op # "walk_dir" => Below(child, r.path))
    BY <1>3, <1>4, <2>1
  <2>3. /\ todo(child) \in Seq(Paths)
        /\ r.op # "walk_dir" => \A i \in DOMAIN todo(child) : Below(todo(child)[i], r.path)
    <3>1. /\ Append(it.todo, child) \in Seq(Paths)
          /\ \A i \in DOMAIN Append(it.todo, child) :
               \/ Append(it.todo, child)[i] = child
               \/ i \in DOMAIN it.todo /\ Append(it.todo, child)[i] = it.todo[i]
      BY <1>1, <2>2, StackShape
    <3> QED
      BY <1>3, <1>4, <2>2, <3>1
  <2> HIDE DEF todo
  <2>4. Sound(r, walk(child))
    BY <1>3, <1>4, <1>7, <2>3
  <2>5. CASE r.op = "walk_dir"
    BY <2>1, <2>4, <2>5
  <2>6. CASE r.op # "walk_dir"
    <3>1. Rebase(child, r.path, r.dest) \in Paths
      BY <1>3, <1>5, <2>2, <2>6, AskedMoves DEF CopyingOps
    <3>2. Sound(r, <<CopyItem(it, child)>>)
      BY <1>1, <1>2, <1>11, <2>2, <2>6, <3>1, CopyItemFits
    <3> QED
      BY <2>1, <2>4, <2>6, <3>2, SoundConcat
  <2> QED
    BY <2>5, <2>6
<1> QED
  BY <1>1, <1>8, <1>9, <1>10, <1>11 DEF Expands

LEMMA ExpansionGuards ==
    ASSUME AsyncTypeOK, script \in Scripts, NEW t \in Tasks, TaskOK(t), Expansion(t)
    PROVE  Guarded(t)' /\ HandleOK(t)'
<1> DEFINE r == job[t].request
<1>1. /\ r \in Requests /\ job'[t].request = r /\ Guarded(t) /\ HandleOK(t) /\ Turned(t)
  BY JobTypes DEF TaskOK, Turned, Expansion
<1>2. CASE GaveUp(t)
  BY <1>1, <1>2, GivingUpGuards
<1>3. ASSUME NEW steps, Expanded(t, steps), Expands(t, steps) PROVE Guarded(t)' /\ HandleOK(t)'
  <2>1. /\ Busy(t) /\ Now(t).do \in Expanding /\ UNCHANGED fsVars
        /\ job'[t].agenda = steps \o Tail(job[t].agenda)
    BY <1>3 DEF Expanded, At
  <2>2. /\ steps \in Seq(Fitting(r)) /\ Together(r, steps)
        /\ \A i \in DOMAIN steps : \A c \in Needed(r, steps[i]) :
              Led(r, steps, i, c) \/ (Clear(r, steps, i, c) /\ Known(t, c)')
    <3>1. CASE At(t, Emptyings)
      BY <1>1, <1>3, <2>1, <3>1, RemovalExpandsWell
    <3>2. ASSUME Sound(r, steps)
          PROVE  /\ steps \in Seq(Fitting(r)) /\ Together(r, steps)
                 /\ \A i \in DOMAIN steps : \A c \in Needed(r, steps[i]) :
                      Led(r, steps, i, c) \/ (Clear(r, steps, i, c) /\ Known(t, c)')
      BY <3>2 DEF Sound
    <3>3. Sound(r, steps) \/ At(t, Emptyings)
      BY <1>3, <2>1, CopyEntryExpandsWell, WalkExpandsWell DEF At, Expanding
    <3> QED
      BY <3>1, <3>2, <3>3
  <2>3. \A c \in Checks(r) : Now(t) # c /\ Now(t).do \notin Passing(r, c)
    BY <1>1, <2>1, ExpandingPassesNothing
  <2>4. Guarded(t)'
    BY <1>1, <2>1, <2>2, <2>3, GuardsAfter
  <2>5. ~writer'[t].open
    BY <1>1, <2>1 DEF HandleOK, At, Expanding, Emptyings, fsVars
  <2> QED
    BY <2>4, <2>5 DEF HandleOK
<1> QED
  BY <1>2, <1>3 DEF Expansion

LEMMA StepGuards ==
    ASSUME AsyncTypeOK, script \in Scripts, NEW t \in Tasks, TaskOK(t),
           Outcome(t) \/ Expansion(t)
    PROVE  Turned(t) /\ Guarded(t)' /\ HandleOK(t)'
BY OutcomeGuards, ExpansionGuards DEF Outcome, Expansion

-----------------------------------------------------------------------------
(* What a step does to the map, and where.                                  *)

LEMMA ReachOf ==
    ASSUME NEW r, NEW x \in Paths, Makes(r, x) \/ Clears(r, x)
    PROVE  x \in Reach(r)
BY DEF Makes, Clears, Reach

\* A step changes the map at one path at most, which is its own.
Changes(t, x, entry) ==
    /\ Busy(t) /\ WentOn(t)
    /\ x = Now(t).path /\ files' = [files EXCEPT ![x] = entry]
    /\ \/ /\ Now(t).do \in {"create_dir", "ensure_dir"}
          /\ entry = DirectoryEntry /\ ~Exists(files, x)
       \/ Now(t).do = "create_file" /\ entry = FileEntry(<< >>)
       \/ Now(t).do = "drop" /\ entry = FileEntry(writer[t].buf)
       \/ Now(t).do = "remove_file" /\ entry = VacantEntry

LEMMA DropsItsPath ==
    ASSUME AsyncTypeOK, NEW t \in Tasks, Guarded(t), At(t, {"drop"})
    PROVE  /\ writer[t].open /\ writer[t].path = Now(t).path
           /\ Known(t, Do("fill", Now(t).path)) /\ Makes(job[t].request, Now(t).path)
<1> DEFINE c == Do("fill", Now(t).path)
<1>1. Busy(t) /\ Now(t).do = "drop"
  BY DEF At
<1>2. c \in Needed(job[t].request, Now(t)) /\ c.do = "fill" /\ c.path = Now(t).path
  BY <1>1 DEF Needed, Do
<1>3. Known(t, c) /\ Inside(job[t].request, Now(t))
  BY <1>1, <1>2, NowGuarded
<1>4. Held(t, c.path)
  BY <1>2, <1>3 DEF Known
<1> HIDE DEF c
<1>5. writer[t].open /\ writer[t].path = Now(t).path
  BY <1>2, <1>4 DEF Held
<1>6. Makes(job[t].request, Now(t).path)
  BY <1>1, <1>3 DEF Inside, Makings
<1> QED
  BY <1>3, <1>5, <1>6 DEF c

LEMMA StepChanges ==
    ASSUME AsyncTypeOK, NEW t \in Tasks, Guarded(t), Outcome(t) \/ Expansion(t)
    PROVE  files' = files \/ \E x \in Paths, entry \in Entries : Changes(t, x, entry)
<1>1. ASSUME Busy(t) PROVE Now(t).path \in Paths
  BY <1>1, NowTypes
<1>2. /\ DirectoryEntry \in Entries /\ FileEntry(<< >>) \in Entries /\ VacantEntry \in Entries
      /\ FileEntry(writer[t].buf) \in Entries
  <2>1. writer[t] \in Handles(Nat)
    BY DEF AsyncTypeOK, FsTypeOK
  <2> QED
    BY <2>1, EntryTypes, EmptyContent DEF Handles
<1>3. CASE MadeDir(t)
  BY <1>1, <1>2, <1>3 DEF MadeDir, CreateDirInsert, Insert, Changes, At
<1>4. CASE MadeFile(t)
  BY <1>1, <1>2, <1>4 DEF MadeFile, CreateFileInsert, Insert, Changes, At
<1>5. CASE Dropped(t)
  <2>1. Busy(t) /\ WentOn(t) /\ Now(t).do = "drop" /\ writer[t].path = Now(t).path
    BY <1>5, DropsItsPath DEF Dropped, At
  <2>2. files' = [files EXCEPT ![Now(t).path] = FileEntry(writer[t].buf)]
    BY <1>5, <2>1 DEF Dropped, Drop, Insert
  <2> QED
    BY <1>1, <1>2, <2>1, <2>2 DEF Changes
<1>6. CASE Removed(t)
  BY <1>1, <1>2, <1>6 DEF Removed, RemoveFile, Remove, Changes, At
<1>7. CASE Opened(t) \/ Filled(t)
  BY <1>7 DEF Opened, AppendFile, Filled, PollWrite
<1>8. CASE GaveUp(t) \/ Looked(t) \/ \E steps : Expanded(t, steps)
  BY <1>8 DEF GaveUp, Looked, Expanded, fsVars
<1> QED
  BY <1>3, <1>4, <1>5, <1>6, <1>7, <1>8 DEF Outcome, Expansion

LEMMA ChangesOwn ==
    ASSUME AsyncTypeOK, NEW t \in Tasks, Guarded(t), NEW x \in Paths, NEW entry,
           Changes(t, x, entry)
    PROVE  /\ x \in Reach(job[t].request)
           /\ files'[x] = entry /\ \A y \in Paths \ {x} : files'[y] = files[y]
           /\ Now(t).do # "remove_file" => Makes(job[t].request, x)
           /\ Now(t).do = "remove_file" => Clears(job[t].request, x)
<1>1. Busy(t) /\ x = Now(t).path /\ Inside(job[t].request, Now(t))
  BY NowGuarded DEF Changes
<1>2. files \in [Paths -> Entries]
  BY DEF AsyncTypeOK, FsTypeOK, Maps
<1>3. files'[x] = entry /\ \A y \in Paths \ {x} : files'[y] = files[y]
  BY <1>2 DEF Changes
<1>4. Now(t).do # "remove_file" => Makes(job[t].request, x)
  BY <1>1 DEF Changes, Inside, Makings
<1>5. Now(t).do = "remove_file" => Clears(job[t].request, x)
  BY <1>1 DEF Inside, Removals, Clears
<1> QED
  BY <1>3, <1>4, <1>5, ReachOf

\* What a request may not change, none of its steps changes.
LEMMA StepStaysInReach ==
    ASSUME AsyncTypeOK, NEW t \in Tasks, Guarded(t), Outcome(t) \/ Expansion(t),
           NEW y \in Paths, y \notin Reach(job[t].request)
    PROVE  files'[y] = files[y]
<1>1. CASE files' = files
  BY <1>1
<1>2. ASSUME NEW x \in Paths, NEW entry \in Entries, Changes(t, x, entry)
      PROVE  files'[y] = files[y]
  BY <1>2, ChangesOwn
<1> QED
  BY <1>1, <1>2, StepChanges

LEMMA StepTypes ==
    ASSUME AsyncTypeOK, script \in Scripts, NEW t \in Tasks, TaskOK(t),
           Outcome(t) \/ Expansion(t)
    PROVE  AsyncTypeOK'
<1>1. Outcome(t) \/ Expansion(t)
  OBVIOUS
<1>2. Turned(t) /\ Guarded(t)' /\ Guarded(t)
  BY StepGuards DEF TaskOK
<1>3. job' \in [Tasks -> Jobs]
  <2>1. job'[t].agenda \in Seq(Items)
    BY <1>2, FittingIsItems DEF Guarded
  <2> QED
    BY <1>2, <2>1 DEF Turned
<1>4. at' \in [Tasks -> Nat]
  BY <1>2 DEF AsyncTypeOK, Turned
<1>5. files' \in Maps
  <2>1. files \in [Paths -> Entries]
    BY DEF AsyncTypeOK, FsTypeOK, Maps
  <2>2. ASSUME NEW x \in Paths, NEW entry \in Entries, Changes(t, x, entry)
        PROVE  files' \in [Paths -> Entries]
    BY <2>1, <2>2 DEF Changes
  <2> QED
    BY <1>1, <1>2, <2>1, <2>2, StepChanges DEF Maps
<1>6. writer' \in [Tasks -> Handles(Nat)]
  <2>1. writer \in [Tasks -> Handles(Nat)] /\ writer[t] \in Handles(Nat)
    BY DEF AsyncTypeOK, FsTypeOK
  <2>2. writer[t].path \in Paths /\ writer[t].buf \in Contents
    BY <2>1 DEF Handles
  <2>3. CASE MadeFile(t)
    <3>1. Now(t).path \in Paths
      BY <2>3, NowTypes DEF MadeFile, At
    <3>2. OpenHandle(Now(t).path, << >>) \in Handles(Nat)
      BY <3>1, EntryTypes, EmptyContent
    <3> QED
      BY <2>1, <2>3, <3>2 DEF MadeFile, CreateFileInsert
  <2>4. CASE Opened(t)
    <3>1. Now(t).path \in Paths
      BY <2>4, NowTypes DEF Opened, At
    <3>2. files[Now(t).path].content \in Contents
      BY <3>1, KindOfEntry, EntryFields
    <3>3. OpenHandle(Now(t).path, files[Now(t).path].content) \in Handles(Nat)
      BY <3>1, <3>2, EntryTypes
    <3> QED
      BY <2>1, <2>4, <3>3 DEF Opened, AppendFile
  <2>5. CASE Filled(t)
    <3>1. job[t].data \in Contents
      BY JobTypes
    <3>2. writer[t].buf \o job[t].data \in Contents
      BY <2>2, <3>1, ConcatProperties DEF Contents
    <3>3. OpenHandle(writer[t].path, writer[t].buf \o job[t].data) \in Handles(Nat)
      BY <2>2, <3>2, EntryTypes
    <3> QED
      BY <2>1, <2>5, <3>3 DEF Filled, PollWrite
  <2>6. CASE Dropped(t)
    BY <2>1, <2>6, EntryTypes DEF Dropped, Drop
  <2>7. CASE MadeDir(t) \/ Removed(t)
    BY <2>1, <2>7 DEF MadeDir, CreateDirInsert, Removed, RemoveFile
  <2>8. CASE GaveUp(t) \/ Looked(t) \/ \E steps : Expanded(t, steps)
    BY <2>1, <2>8 DEF GaveUp, Looked, Expanded, fsVars
  <2> QED
    BY <1>1, <2>3, <2>4, <2>5, <2>6, <2>7, <2>8 DEF Outcome, Expansion
<1> QED
  BY <1>3, <1>4, <1>5, <1>6 DEF AsyncTypeOK, FsTypeOK, Jobs

-----------------------------------------------------------------------------
(* What another task does leaves a task where it stands.                    *)

LEMMA BelowIsMine ==
    ASSUME NEW t \in Tasks, NEW p \in Paths, Undisturbed(t, p), NEW x \in Paths, Below(x, p)
    PROVE  Mine(t, x)
BY DEF Undisturbed, Mine

\* What t relies on is the same after a step that leaves its job, its handle
\* and what is its own as they are.
Stays(t) ==
    /\ script' = script /\ before' = before
    /\ job'[t] = job[t] /\ at'[t] = at[t] /\ writer'[t] = writer[t]
    /\ \A x \in Paths : Mine(t, x) => files'[x] = files[x]

LEMMA OthersGuarded ==
    ASSUME AsyncTypeOK, script \in Scripts, NEW t \in Tasks, Stays(t), Guarded(t), HandleOK(t)
    PROVE  Guarded(t)' /\ HandleOK(t)'
<1> DEFINE r == job[t].request
           s == job[t].agenda
<1>1. r \in Requests /\ s \in Seq(Fitting(r)) /\ job'[t] = job[t]
  BY JobTypes DEF Guarded, Stays
<1>2. ASSUME NEW c, Known(t, c), c.do # "open" => c.path \in Paths,
             c.do = "list_empty" => Below(c.path, job[t].request.path)
      PROVE  Known(t, c)'
  BY <1>2, KnownStays DEF Stays
<1>3. ASSUME NEW i \in DOMAIN s, NEW c \in Needed(r, s[i]), Known(t, c) PROVE Known(t, c)'
  <2>1. s[i] \in Fitting(r)
    BY <1>1, ElementOfSeq, LenProperties
  <2>2. c \in Checks(r)
    BY <2>1 DEF Checks
  <2> QED
    BY <1>1, <1>2, <1>3, <2>2, ChecksShape
<1>4. Guarded(t)'
  BY <1>1, <1>3 DEF Guarded
<1>5. ASSUME writer[t].open PROVE HandleOK(t)'
  <2>1. PICK x \in Paths : /\ x = writer[t].path /\ Makes(r, x)
                           /\ \/ At(t, {"fill"})
                              \/ /\ Known(t, Do("fill", x))
                                 /\ \/ At(t, {"drop"})
                                    \/ r.op = "move_file" /\ At(t, {"remove_file"})
    BY <1>5 DEF HandleOK
  <2>2. Known(t, Do("fill", x)) => Known(t, Do("fill", x))'
    BY <1>2 DEF Do
  <2>3. /\ At(t, {"fill"}) => At(t, {"fill"})'
        /\ At(t, {"drop"}) => At(t, {"drop"})'
        /\ At(t, {"remove_file"}) => At(t, {"remove_file"})'
    BY <1>1 DEF At, Busy, Now
  <2>4. writer'[t].path = x
    BY <2>1 DEF Stays
  <2> QED
    BY <1>1, <2>1, <2>2, <2>3, <2>4 DEF HandleOK
<1>6. writer'[t] = writer[t]
  BY DEF Stays
<1> QED
  BY <1>4, <1>5, <1>6 DEF HandleOK

\* What is below a path nobody else touches stays, and so do the directories
\* up to that path.
LEMMA OthersOrphanless ==
    ASSUME AsyncTypeOK, NEW t \in Tasks, Stays(t), Orphanless(t)
    PROVE  Orphanless(t)'
<1> DEFINE r == job[t].request
           p == r.path
<1>1. p \in Paths /\ p \in AnyPath /\ job'[t] = job[t] /\ at'[t] = at[t] /\ script' = script
  BY JobTypes, PathsAreSequences DEF Requests, Stays
<1>2. ASSUME at[t] > 0, r.op \in {"remove_dir_all", "move_dir"}, Undisturbed(t, p),
             NEW x \in Paths, x # p, Below(x, p), Exists(files', x)
      PROVE  IsDirectory(files', Parent(x))
  <2>1. files'[x] = files[x]
    BY <1>1, <1>2, BelowIsMine DEF Stays
  <2>2. Parent(x) \in Paths /\ Below(Parent(x), p)
    BY <1>1, <1>2, ParentBelow, PathsAssumption, PathsAreSequences
  <2>3. files'[Parent(x)] = files[Parent(x)]
    BY <1>1, <1>2, <2>2, BelowIsMine DEF Stays
  <2>4. IsDirectory(files, Parent(x))
    BY <1>2, <2>1 DEF Orphanless, Exists
  <2> QED
    BY <2>3, <2>4 DEF IsDirectory
<1>3. (Undisturbed(t, job[t].request.path))' => Undisturbed(t, p)
  BY <1>1 DEF Undisturbed
<1> QED
  BY <1>1, <1>2, <1>3 DEF Orphanless

LEMMA OthersMoveOK ==
    ASSUME AsyncTypeOK, script \in Scripts, NEW t \in Tasks, Stays(t), Asked(t), MoveOK(t)
    PROVE  MoveOK(t)'
<1> DEFINE r == job[t].request
           p == r.path
           q == r.dest
<1>1. /\ p \in Paths /\ q \in Paths /\ p \in AnyPath /\ q \in AnyPath
      /\ job'[t] = job[t] /\ at'[t] = at[t] /\ script' = script /\ before' = before
      /\ writer'[t] = writer[t]
  BY JobTypes, PathsAreSequences DEF Requests, Stays
<1>2. (Alone(t)' <=> Alone(t)) /\ Moved(t)' = Moved(t)
  BY <1>1 DEF Alone, Undisturbed, Moved
<1>3. ASSUME Alone(t), at[t] > 0, Moved(t) # {}
      PROVE  (NotBegun(t) \/ Copying(t) \/ GivenUp(t) \/ Leaving(t))'
  <2>1. \A x \in Paths : Below(x, p) \/ Below(x, q) => files'[x] = files[x]
    BY <1>1, <1>3, BelowIsMine DEF Alone, Stays
  <2>2. Unmoved(t) => Unmoved(t)'
    BY <1>1, <2>1 DEF Unmoved
  <2>3. files'[q] = files[q]
    BY <1>1, <2>1, BelowItself
  <2>4. ASSUME NEW z \in Moved(t) PROVE Arrived(t, z) => Arrived(t, z)'
    <3>1. z \in Paths /\ Below(z, p) /\ r.op \in CopyingOps
      BY DEF Moved, MovingOps, CopyingOps
    <3>2. Rebase(z, p, q) \in Paths
      BY <1>3, <3>1, AskedMoves
    <3>3. Below(Rebase(z, p, q), q)
      BY <1>1, <3>1, RebasedIsBelow, PathsAreSequences
    <3> QED
      BY <1>1, <2>1, <3>2, <3>3 DEF Arrived
  <2>5. \A z : InHandle(t, z) => InHandle(t, z)'
    BY <1>1 DEF InHandle, At, Busy, Now
  <2>6. CASE NotBegun(t)
    <3>1. NotBegun(t)'
      BY <1>1, <2>2, <2>3, <2>6 DEF NotBegun
    <3> QED
      BY <3>1
  <2>7. CASE Copying(t)
    <3>1. Copying(t)'
      BY <1>1, <1>2, <2>2, <2>4, <2>7 DEF Copying
    <3> QED
      BY <3>1
  <2>8. CASE GivenUp(t)
    <3>1. GivenUp(t)'
      BY <1>1, <2>2, <2>8 DEF GivenUp
    <3> QED
      BY <3>1
  <2>9. CASE Leaving(t)
    <3>1. Leaving(t)'
      BY <1>1, <1>2, <2>4, <2>5, <2>9 DEF Leaving
    <3> QED
      BY <3>1
  <2>10. NotBegun(t) \/ Copying(t) \/ GivenUp(t) \/ Leaving(t)
    BY <1>3 DEF MoveOK
  <2> QED
    BY <2>6, <2>7, <2>8, <2>9, <2>10
<1> QED
  BY <1>1, <1>2, <1>3 DEF MoveOK

LEMMA OthersStay ==
    ASSUME AsyncTypeOK, script \in Scripts, NEW t \in Tasks, Stays(t), TaskOK(t)
    PROVE  TaskOK(t)'
<1>1. Asked(t)'
  BY DEF TaskOK, Asked, Stays, Busy
<1> QED
  BY <1>1, OthersGuarded, OthersOrphanless, OthersMoveOK DEF TaskOK

LEMMA StepLeavesOthers ==
    ASSUME AsyncTypeOK, script \in Scripts, NEW u \in Tasks, TaskOK(u),
           Outcome(u) \/ Expansion(u), NEW t \in Tasks, t # u
    PROVE  Stays(t)
<1>1. Outcome(u) \/ Expansion(u)
  OBVIOUS
<1>2. Turned(u)
  BY StepGuards
<1>3. job'[t] = job[t] /\ script' = script /\ before' = before /\ at' = at
  BY <1>2 DEF Turned
<1>4. writer'[t] = writer[t]
  <2>1. writer \in [Tasks -> Handles(Nat)]
    BY DEF AsyncTypeOK, FsTypeOK
  <2> QED
    BY <1>1, <2>1
    DEF Outcome, Expansion, GaveUp, Looked, MadeDir, MadeFile, Opened, Filled, Dropped, Removed,
        Expanded, CreateDirInsert, CreateFileInsert, AppendFile, PollWrite, Drop, RemoveFile, fsVars
<1>5. ASSUME NEW x \in Paths, Mine(t, x) PROVE files'[x] = files[x]
  <2>1. CASE files' = files
    BY <2>1
  <2>2. CASE files' # files
    <3>1. Busy(u) /\ Asked(u) /\ Guarded(u)
      BY <1>1, <2>2, StepChanges DEF TaskOK, Changes
    <3>2. at[u] \in DOMAIN script[u] /\ script[u][at[u]] = job[u].request
      BY <3>1, AskedMoves DEF Asked
    <3>3. x \notin Reach(job[u].request)
      BY <1>5, <3>2 DEF Mine
    <3> QED
      BY <1>1, <3>1, <3>3, StepStaysInReach
  <2> QED
    BY <2>1, <2>2
<1> QED
  BY <1>3, <1>4, <1>5 DEF Stays

LEMMA StepKeepsUntouched ==
    ASSUME AsyncTypeOK, script \in Scripts, NEW t \in Tasks, TaskOK(t),
           Outcome(t) \/ Expansion(t), Untouched
    PROVE  Untouched'
<1>1. Outcome(t) \/ Expansion(t)
  OBVIOUS
<1>2. script' = script /\ before' = before /\ at' = at
  BY StepGuards DEF Turned
<1>3. ASSUME NEW x \in Paths, files'[x] # before[x]
      PROVE  \E u \in Tasks : \E i \in 1 .. at[u] : x \in Reach(script[u][i])
  <2>1. CASE files'[x] = files[x]
    BY <1>3, <2>1 DEF Untouched
  <2>2. CASE files'[x] # files[x]
    <3>1. Guarded(t) /\ Asked(t)
      BY DEF TaskOK
    <3>2. x \in Reach(job[t].request)
      BY <1>1, <2>2, <3>1, StepStaysInReach
    <3>3. Busy(t)
      <4>1. files' # files
        BY <2>2
      <4> QED
        BY <1>1, <3>1, <4>1, StepChanges DEF Changes
    <3>4. at[t] \in 1 .. at[t] /\ script[t][at[t]] = job[t].request
      BY <3>1, <3>3, AskedMoves DEF Asked
    <3> QED
      BY <3>2, <3>4
  <2> QED
    BY <2>1, <2>2
<1> QED
  BY <1>2, <1>3 DEF Untouched

LEMMA StepKeepsAsked ==
    ASSUME AsyncTypeOK, script \in Scripts, NEW t \in Tasks, TaskOK(t),
           Outcome(t) \/ Expansion(t)
    PROVE  Asked(t)'
<1>1. Turned(t) /\ Asked(t)
  BY StepGuards DEF TaskOK
<1>2. Busy(t)
  BY DEF Outcome, Expansion, GaveUp, Looked, MadeDir, MadeFile, Opened, Filled, Dropped,
         Removed, Expanded, At
<1> QED
  BY <1>1, <1>2 DEF Asked, Turned

\* What a move_dir makes below its own path, it makes in a directory, and never
\* a file in the place of one.
LEMMA MakesInDirectory ==
    ASSUME AsyncTypeOK, script \in Scripts, NEW t \in Tasks, TaskOK(t),
           NEW x \in Paths, NEW entry, Changes(t, x, entry), Now(t).do # "remove_file",
           job[t].request.op \in {"remove_dir_all", "move_dir"}, at[t] > 0,
           Undisturbed(t, job[t].request.path), Below(x, job[t].request.path)
    PROVE  /\ x # job[t].request.path => IsDirectory(files, Parent(x))
           /\ IsDirectory(files, x) => entry = DirectoryEntry
<1> DEFINE r == job[t].request
           p == r.path
<1>1. /\ r \in Requests /\ p \in Paths /\ p \in AnyPath /\ x \in AnyPath
      /\ Guarded(t) /\ Busy(t) /\ x = Now(t).path
  BY JobTypes, PathsAreSequences DEF TaskOK, Requests, Changes
<1>2. \A c \in Needed(r, Now(t)) : Known(t, c)
  BY <1>1, NowGuarded
<1>3. Makes(r, x) /\ r.op = "move_dir"
  BY <1>1, ChangesOwn DEF Makes, CopyingOps
<1>4. Mine(t, x) /\ (x # p => Parent(x) \in Paths /\ Mine(t, Parent(x)))
  <2>1. x # p => Parent(x) \in Paths /\ Below(Parent(x), p)
    BY <1>1, ParentBelow, PathsAssumption
  <2> QED
    BY <1>1, <2>1, BelowIsMine
<1>5. \A do, y : Do(do, y).do = do /\ Do(do, y).path = y
  BY DEF Do
<1>6. CASE Now(t).do \in {"create_dir", "create_file"}
  <2>1. Do("parent_is_dir", x) \in Needed(r, Now(t))
    BY <1>1, <1>6 DEF Needed
  <2>2. Known(t, Do("parent_is_dir", x))
    BY <1>2, <2>1
  <2>3. x # p => IsDirectory(files, Parent(x))
    BY <1>4, <1>5, <2>2 DEF Known
  <2>4. Now(t).do = "create_file" => Do("absent", x) \in Needed(r, Now(t))
    BY <1>1, <1>3 DEF Needed, CopyingOps
  <2>5. Now(t).do = "create_file" => ~Exists(files, x)
    BY <1>2, <1>4, <1>5, <2>4 DEF Known
  <2>6. IsDirectory(files, x) => Exists(files, x)
    BY DEF IsDirectory, Exists
  <2> QED
    BY <1>6, <2>3, <2>5, <2>6 DEF Changes
<1>7. CASE Now(t).do = "drop"
  <2>1. Do("fill", x) \in Needed(r, Now(t))
    BY <1>1, <1>7 DEF Needed
  <2>2. Known(t, Do("fill", x))
    BY <1>2, <2>1
  <2>3. Held(t, x)
    BY <1>5, <2>2 DEF Known
  <2>4. IsFile(files, x)
    BY <1>3, <1>4, <2>3 DEF Held
  <2>5. x # p => IsDirectory(files, Parent(x))
    BY <2>4 DEF TaskOK, Orphanless, IsFile, Exists
  <2> QED
    BY <2>4, <2>5 DEF IsFile, IsDirectory
<1>8. Now(t).do # "ensure_dir"
  BY <1>1, <1>3, NowGuarded DEF Inside
<1> QED
  BY <1>6, <1>7, <1>8 DEF Changes

LEMMA StepKeepsOrphanless ==
    ASSUME AsyncTypeOK, script \in Scripts, NEW t \in Tasks, TaskOK(t),
           Outcome(t) \/ Expansion(t)
    PROVE  Orphanless(t)'
<1> DEFINE r == job[t].request
           p == r.path
<1>1. /\ r \in Requests /\ p \in Paths /\ p \in AnyPath /\ Guarded(t)
      /\ Outcome(t) \/ Expansion(t)
      /\ job'[t].request = r /\ at' = at /\ script' = script
  BY JobTypes, PathsAreSequences, StepGuards DEF TaskOK, Requests, Turned
<1>2. ASSUME at[t] > 0, r.op \in {"remove_dir_all", "move_dir"}, Undisturbed(t, p)
      PROVE  \A y \in Paths : y # p /\ Below(y, p) /\ Exists(files', y)
                                => IsDirectory(files', Parent(y))
  <2>1. \A y \in Paths : y # p /\ Below(y, p) /\ Exists(files, y)
                                => IsDirectory(files, Parent(y))
    BY <1>2 DEF TaskOK, Orphanless
  <2>2. \A y \in Paths : y # p /\ Below(y, p) =>
            /\ Parent(y) \in Paths /\ Below(Parent(y), p)
            /\ y # Root /\ Parent(y) # y
    BY <1>1, ParentBelow, ParentIsShorter, PathsAssumption, PathsAreSequences
  <2>3. CASE files' = files
    BY <2>1, <2>3
  <2>4. ASSUME NEW x \in Paths, NEW entry, Changes(t, x, entry),
               NEW y \in Paths, y # p, Below(y, p), Exists(files', y)
        PROVE  IsDirectory(files', Parent(y))
    <3>1. files'[x] = entry /\ \A z \in Paths \ {x} : files'[z] = files[z]
      BY <1>1, <2>4, ChangesOwn
    <3>2. CASE Now(t).do = "remove_file"
      <4>1. Do("list_empty", x) \in Needed(r, Now(t)) /\ Busy(t) /\ entry = VacantEntry
        BY <1>2, <2>4, <3>2 DEF Changes, Needed
      <4>2. Known(t, Do("list_empty", x))
        BY <1>1, <4>1, NowGuarded
      <4>3. Children(files, x) = {}
        BY <1>2, <4>2 DEF Known, Do
      <4>4. y # x /\ Exists(files, y)
        BY <2>4, <3>1, <4>1 DEF Exists, VacantEntry
      <4>5. IsDirectory(files, Parent(y))
        BY <2>1, <2>4, <4>4
      <4>6. Parent(y) # x
        BY <2>2, <2>4, <4>3, <4>4 DEF Children
      <4> QED
        BY <2>2, <2>4, <3>1, <4>5, <4>6 DEF IsDirectory
    <3>3. CASE Now(t).do # "remove_file"
      <4>1. Below(x, p) => /\ x # p => IsDirectory(files, Parent(x))
                           /\ IsDirectory(files, x) => entry = DirectoryEntry
        BY <1>2, <2>4, <3>3, MakesInDirectory
      <4>2. IsDirectory(files, Parent(y))
        <5>1. CASE y = x
          BY <2>4, <4>1, <5>1
        <5>2. CASE y # x
          BY <2>1, <2>4, <3>1, <5>2 DEF Exists
        <5> QED
          BY <5>1, <5>2
      <4>3. CASE Parent(y) = x
        <5>1. entry = DirectoryEntry
          BY <2>2, <2>4, <4>1, <4>2, <4>3
        <5> QED
          BY <3>1, <4>3, <5>1 DEF IsDirectory, DirectoryEntry
      <4>4. CASE Parent(y) # x
        BY <2>2, <2>4, <3>1, <4>2, <4>4 DEF IsDirectory
      <4> QED
        BY <4>3, <4>4
    <3> QED
      BY <3>2, <3>3
  <2> QED
    BY <1>1, <2>3, <2>4, StepChanges
<1>3. (Undisturbed(t, job[t].request.path))' => Undisturbed(t, p)
  BY <1>1 DEF Undisturbed
<1> QED
  BY <1>1, <1>2, <1>3 DEF Orphanless

-----------------------------------------------------------------------------
(* A move that nobody disturbs.                                             *)

\* What is known of a file that is moved.
LEMMA MovedFile ==
    ASSUME AsyncTypeOK, script \in Scripts, before \in Trees, NEW t \in Tasks, Asked(t),
           at[t] > 0, NEW z \in Moved(t)
    PROVE  LET r == job[t].request
               x == Rebase(z, r.path, r.dest)
           IN /\ r.op \in MovingOps /\ (r.op = "move_dir" => z # r.path)
              /\ z \in Paths /\ Below(z, r.path) /\ IsFile(before, z)
              /\ before[z] = FileEntry(before[z].content)
              /\ x \in Paths /\ Below(x, r.dest) /\ Source(r, x) = z
              /\ Exists(before, r.path) /\ (z # r.path => IsDirectory(before, r.path))
<1> DEFINE r == job[t].request
           p == r.path
           q == r.dest
           x == Rebase(z, p, q)
<1>1. r.op \in MovingOps /\ z \in Paths /\ Below(z, p) /\ IsFile(before, z)
      /\ (r.op = "move_dir" => z # p)
  BY DEF Moved
<1>2. p \in Paths /\ q \in Paths /\ p \in AnyPath /\ q \in AnyPath /\ z \in AnyPath
  BY <1>1, JobTypes, PathsAreSequences DEF Requests
<1>3. x \in Paths
  BY <1>1, AskedMoves DEF CopyingOps, MovingOps
<1>4. Below(x, q) /\ Rebase(x, q, p) = z
  BY <1>1, <1>2, RebasedIsBelow, RebaseBack
<1>5. before \in Maps /\ IsTree(before)
  BY TreesAssumption
<1>6. before[z] = FileEntry(before[z].content)
  <2>1. before[z] \in Entries
    BY <1>1, <1>5 DEF Maps
  <2> QED
    BY <1>1, <2>1 DEF Entries, VacantEntry, IsFile, FileEntry
<1>7. IsFile(before, z) => Exists(before, z)
  BY DEF IsFile, Exists
<1>8. z # p => IsDirectory(before, p)
  BY <1>1, <1>2, <1>5, <1>7, ChildTowards
<1>9. Exists(before, p)
  BY <1>1, <1>7, <1>8 DEF IsDirectory, Exists
<1> QED
  BY <1>1, <1>3, <1>4, <1>6, <1>8, <1>9 DEF Source

LEMMA ApartNeverMeet ==
    ASSUME NEW p \in Paths, NEW q \in Paths, Apart(p, q), NEW x \in Paths, Below(x, p)
    PROVE  ~Below(x, q)
BY BelowBoth, PathsAreSequences DEF Apart

\* The source is left alone until something of it is removed.
LEMMA MakingKeepsUnmoved ==
    ASSUME AsyncTypeOK, NEW t \in Tasks, Guarded(t), Turned(t), Outcome(t) \/ Expansion(t),
           job[t].request.op \in MovingOps, Apart(job[t].request.path, job[t].request.dest),
           Unmoved(t), ~At(t, {"remove_file"})
    PROVE  Unmoved(t)'
<1> DEFINE r == job[t].request
           p == r.path
           q == r.dest
<1>1. p \in Paths /\ q \in Paths /\ job'[t].request = r /\ before' = before
  BY JobTypes DEF Requests, Turned
<1>2. CASE files' = files
  BY <1>1, <1>2 DEF Unmoved
<1>3. ASSUME NEW x \in Paths, NEW entry, Changes(t, x, entry) PROVE Unmoved(t)'
  <2>1. Now(t).do # "remove_file"
    BY <1>3 DEF Changes, At
  <2>2. Makes(r, x) /\ \A y \in Paths \ {x} : files'[y] = files[y]
    BY <1>3, <2>1, ChangesOwn
  <2>3. Below(x, q)
    BY <2>2 DEF Makes, MovingOps
  <2>4. ~Below(x, p)
    BY <1>1, <2>3, ApartNeverMeet
  <2> QED
    BY <1>1, <2>2, <2>4 DEF Unmoved
<1> QED
  BY <1>2, <1>3, StepChanges

\* What has arrived stays, and what is dropped arrives.
LEMMA ArrivedStays ==
    ASSUME AsyncTypeOK, script \in Scripts, before \in Trees, NEW t \in Tasks, TaskOK(t),
           Turned(t), Outcome(t) \/ Expansion(t), at[t] > 0, Alone(t),
           Apart(job[t].request.path, job[t].request.dest), NEW z \in Moved(t),
           Arrived(t, z) \/ (/\ Dropped(t)
                             /\ Now(t).path = Rebase(z, job[t].request.path, job[t].request.dest))
    PROVE  Arrived(t, z)'
<1> DEFINE r == job[t].request
           p == r.path
           q == r.dest
<1>1. /\ p \in Paths /\ q \in Paths /\ job'[t].request = r /\ before' = before
      /\ Guarded(t) /\ Asked(t)
  BY JobTypes DEF Requests, Turned, TaskOK
<1>2. PICK x \in Paths : /\ x = Rebase(z, p, q) /\ Below(x, q) /\ Source(r, x) = z
                         /\ IsFile(before, z) /\ before[z] = FileEntry(before[z].content)
                         /\ r.op \in MovingOps
  BY <1>1, MovedFile
<1>3. Arrived(t, z) => files[x] = before[z]
  BY <1>2 DEF Arrived
<1>4. files'[x] = before[z] => Arrived(t, z)'
  BY <1>1, <1>2 DEF Arrived
<1>5. Mine(t, x)
  BY <1>1, <1>2, BelowIsMine DEF Alone
<1>6. ASSUME NEW y \in Paths, NEW entry, Changes(t, y, entry), y # x, ~Dropped(t) \/ Now(t).path # x
      PROVE  Arrived(t, z)'
  BY <1>1, <1>2, <1>3, <1>4, <1>6, ChangesOwn
<1>7. ASSUME NEW entry, Changes(t, x, entry) PROVE Arrived(t, z)'
  <2>0. x = Now(t).path /\ Busy(t)
    BY <1>7 DEF Changes
  <2>1. files'[x] = entry /\ x = Now(t).path /\ Busy(t)
    BY <1>1, <1>7, <2>0, ChangesOwn
  <2>2. Now(t).do # "remove_file"
    <3>1. Now(t).do = "remove_file" => Below(x, p)
      BY <1>1, <1>7, ChangesOwn DEF Clears
    <3> QED
      BY <1>1, <1>2, <3>1, ApartNeverMeet
  <2>3. CASE Now(t).do = "drop"
    <3>1. Known(t, Do("fill", x))
      BY <1>1, <2>1, <2>3, DropsItsPath DEF At
    <3>2. RightData(t, writer[t].buf, z)
      BY <1>2, <3>1 DEF Known, Do
    <3>3. writer[t].buf = before[z].content
      BY <3>2 DEF RightData
    <3>4. entry = FileEntry(writer[t].buf)
      BY <1>7, <2>3 DEF Changes
    <3> QED
      BY <1>2, <1>4, <2>1, <3>3, <3>4
  <2>4. CASE Now(t).do # "drop"
    <3>1. files[x] = before[z]
      BY <1>3, <2>4 DEF Dropped, At
    <3>2. Exists(files, x)
      BY <1>2, <3>1 DEF IsFile, Exists
    <3>3. Now(t).do = "create_file"
      BY <1>7, <2>2, <2>4, <3>2 DEF Changes
    <3>4. Do("absent", x) \in Needed(r, Now(t))
      BY <1>2, <2>1, <3>3 DEF Needed, CopyingOps, MovingOps
    <3>5. Known(t, Do("absent", x))
      BY <1>1, <2>1, <3>4, NowGuarded
    <3> QED
      BY <1>5, <3>2, <3>5 DEF Known, Do
  <2> QED
    BY <2>3, <2>4
<1>8. CASE files' = files
  <2>1. Arrived(t, z) => Arrived(t, z)'
    BY <1>3, <1>4, <1>8
  <2>2. ASSUME Dropped(t), Now(t).path = x PROVE Arrived(t, z)'
    <3>1. At(t, {"drop"}) /\ Busy(t) /\ Now(t).do = "drop" /\ writer[t].path = x
      BY <1>1, <2>2, DropsItsPath DEF Dropped, At
    <3>2. files' = [files EXCEPT ![x] = FileEntry(writer[t].buf)] /\ WentOn(t)
      BY <2>2, <3>1 DEF Dropped, Drop, Insert
    <3>3. Changes(t, x, FileEntry(writer[t].buf))
      BY <2>2, <3>1, <3>2 DEF Changes
    <3> QED
      BY <1>7, <3>3
  <2> QED
    BY <1>2, <2>1, <2>2
<1>9. ASSUME NEW y \in Paths, NEW entry, Changes(t, y, entry) PROVE Arrived(t, z)'
  <2>1. y = Now(t).path
    BY <1>9 DEF Changes
  <2> QED
    BY <1>6, <1>7, <1>9, <2>1
<1> QED
  BY <1>1, <1>8, <1>9, StepChanges

\* move_dir: the walk comes before the removal, and nothing else removes.
LEMMA MoveDirShape ==
    ASSUME NEW p \in Paths, NEW q \in Paths
    PROVE  LET s == MoveDirSteps(p, q) IN
           /\ s \in Seq(Items) /\ Len(s) = 7 /\ s[1] = Do("absent", q)
           /\ s[2] = Do("parent_exists", q) /\ s[3] = Do("parent_is_dir", q)
           /\ s[4] = Do("ensure_parent", q) /\ s[5] = Do("create_dir", q)
           /\ s[6].do = "walk_dir" /\ s[7] = Do("remove_dir_all", p)
<1> DEFINE a == Do("absent", q)
           m == CreateDirSteps(q)
           w == [Do("walk_dir", p) EXCEPT !.dest = q]
           d == Do("remove_dir_all", p)
           u == <<a>> \o m
           v == u \o <<w>>
           s == Append(v, d)
<1>1. /\ m \in Seq(Items) /\ Len(m) = 4
      /\ m[1] = Do("parent_exists", q) /\ m[2] = Do("parent_is_dir", q)
      /\ m[3] = Do("ensure_parent", q) /\ m[4] = Do("create_dir", q)
  BY MakingShape DEF CreateDirSteps
<1>2. a \in Items /\ d \in Items /\ w \in Items /\ w.do = "walk_dir"
  BY DoItem, WalkDirItem DEF Steps
<1>3. MoveDirSteps(p, q) = s
  BY DEF MoveDirSteps, CopyDirSteps
<1> HIDE DEF a, m, w, d
<1>4. <<a>> \in Seq(Items) /\ <<w>> \in Seq(Items) /\ Len(<<a>>) = 1 /\ Len(<<w>>) = 1
      /\ <<a>>[1] = a /\ <<w>>[1] = w
  BY <1>2
<1>5. /\ u \in Seq(Items) /\ Len(u) = 5 /\ u[1] = a /\ u[2] = m[1] /\ u[3] = m[2]
      /\ u[4] = m[3] /\ u[5] = m[4]
  <2> DEFINE h == <<a>>
  <2>1. h \in Seq(Items) /\ Len(h) = 1 /\ h[1] = a
    BY <1>4
  <2> HIDE DEF h
  <2>2. /\ h \o m \in Seq(Items) /\ Len(h \o m) = Len(h) + Len(m)
        /\ DOMAIN h = 1 .. Len(h) /\ DOMAIN m = 1 .. Len(m)
        /\ \A i \in DOMAIN h : (h \o m)[i] = h[i]
        /\ \A i \in DOMAIN m : (h \o m)[Len(h) + i] = m[i]
    <3>1. h \in Seq(Items) /\ m \in Seq(Items)
      BY <1>1, <2>1
    <3> QED
      BY <3>1, AgendaConcat
  <2>3. (h \o m)[1 + 1] = m[1] /\ (h \o m)[1 + 2] = m[2] /\ (h \o m)[1 + 3] = m[3]
        /\ (h \o m)[1 + 4] = m[4] /\ (h \o m)[1] = a
    BY <1>1, <2>1, <2>2
  <2> QED
    BY <1>1, <2>1, <2>2, <2>3 DEF h
<1> HIDE DEF u
<1>6. v \in Seq(Items) /\ Len(v) = 6 /\ v[6] = w /\ \A i \in 1 .. 5 : v[i] = u[i]
  <2> DEFINE h == <<w>>
  <2>1. h \in Seq(Items) /\ Len(h) = 1 /\ h[1] = w
    BY <1>4
  <2> HIDE DEF h
  <2>2. /\ u \o h \in Seq(Items) /\ Len(u \o h) = Len(u) + Len(h)
        /\ DOMAIN h = 1 .. Len(h) /\ DOMAIN u = 1 .. Len(u)
        /\ \A i \in DOMAIN u : (u \o h)[i] = u[i]
        /\ \A i \in DOMAIN h : (u \o h)[Len(u) + i] = h[i]
    <3>1. h \in Seq(Items) /\ u \in Seq(Items)
      BY <1>5, <2>1
    <3> QED
      BY <3>1, AgendaConcat
  <2>3. (u \o h)[5 + 1] = w
    BY <1>5, <2>1, <2>2
  <2> QED
    BY <1>5, <2>1, <2>2, <2>3 DEF h
<1> HIDE DEF v
<1>7. s \in Seq(Items) /\ Len(s) = 7 /\ s[7] = d /\ \A i \in 1 .. 6 : s[i] = v[i]
  <2>1. v \in Seq(Items) /\ d \in Items
    BY <1>2, <1>6
  <2>2. /\ Append(v, d) \in Seq(Items) /\ Len(Append(v, d)) = Len(v) + 1
        /\ \A i \in 1 .. Len(v) : Append(v, d)[i] = v[i]
        /\ Append(v, d)[Len(v) + 1] = d
    BY <2>1, AppendProperties
  <2>3. Append(v, d)[6 + 1] = d
    BY <1>6, <2>2
  <2> QED
    BY <1>6, <2>2, <2>3
<1> HIDE DEF s
<1>8. /\ s[1] = a /\ s[2] = m[1] /\ s[3] = m[2] /\ s[4] = m[3] /\ s[5] = m[4] /\ s[6] = w
  BY <1>5, <1>6, <1>7
<1> QED
  BY <1>1, <1>2, <1>3, <1>7, <1>8 DEF a, d

LEMMA MoveStays ==
    ASSUME NEW t \in Tasks, Turned(t)
    PROVE  (Alone(t)' <=> Alone(t)) /\ Moved(t)' = Moved(t)
BY DEF Turned, Alone, Undisturbed, Moved

\* The stages after a step, in terms of the agenda s it leaves.
LEMMA CopyingAfter ==
    ASSUME NEW t \in Tasks, Turned(t), NEW s, job'[t].agenda = s,
           Apart(job[t].request.path, job[t].request.dest), Unmoved(t)',
           \A z \in Moved(t) : \/ Arrived(t, z)'
                               \/ \E i \in DOMAIN s : Reaches(job[t].request, s[i], z),
           \A i \in DOMAIN s :
              /\ s[i].do \notin {"list", "children", "list_empty"}
              /\ s[i].do = "remove_file" => job[t].request.op = "move_file" /\ i + 1 = Len(s)
              /\ s[i].do = "remove_dir_all" => job[t].request.op = "move_dir" /\ i = Len(s)
    PROVE  Copying(t)'
<1>1. job'[t].request = job[t].request /\ Moved(t)' = Moved(t)
  BY MoveStays DEF Turned
<1> QED
  BY <1>1 DEF Copying

LEMMA GivenUpAfter ==
    ASSUME NEW t \in Tasks, Turned(t), NEW s, job'[t].agenda = s, Unmoved(t)',
           \A i \in DOMAIN s : s[i].do = "drop" /\ Apart(job[t].request.path, job[t].request.dest)
    PROVE  GivenUp(t)'
BY DEF GivenUp, Turned

LEMMA LeavingAfter ==
    ASSUME NEW t \in Tasks, Turned(t), NEW s, job'[t].agenda = s,
           Apart(job[t].request.path, job[t].request.dest),
           \A z \in Moved(t) : Arrived(t, z)' \/ InHandle(t, z)',
           \A i \in DOMAIN s :
              \/ job[t].request.op = "move_file" /\ s[i].do = "drop"
              \/ job[t].request.op = "move_dir" /\ s[i].do \in Removals
    PROVE  Leaving(t)'
<1>1. job'[t].request = job[t].request /\ Moved(t)' = Moved(t)
  BY MoveStays DEF Turned
<1> QED
  BY <1>1 DEF Leaving

LEMMA UnmovedStays ==
    ASSUME AsyncTypeOK, NEW t \in Tasks, Turned(t), UNCHANGED fsVars, Unmoved(t)
    PROVE  Unmoved(t)'
BY DEF Unmoved, Turned, fsVars

\* Giving up before anything has been removed.
LEMMA MoveGivesUp ==
    ASSUME AsyncTypeOK, NEW t \in Tasks, TaskOK(t), Turned(t), GaveUp(t), Unmoved(t),
           Apart(job[t].request.path, job[t].request.dest) \/ At(t, {"absent"})
    PROVE  GivenUp(t)'
<1>1. Unmoved(t)'
  BY UnmovedStays DEF GaveUp
<1>2. CASE At(t, {"absent"})
  <2>1. ~writer[t].open
    BY <1>2 DEF TaskOK, HandleOK, At
  <2>2. job'[t].agenda = << >>
    BY <2>1 DEF GaveUp
  <2> QED
    BY <1>1, <2>2 DEF GivenUp
<1>3. CASE Apart(job[t].request.path, job[t].request.dest)
  <2>1. job'[t].agenda = << >> \/ job'[t].agenda = <<Do("drop", writer[t].path)>>
    BY DEF GaveUp
  <2>2. \A i \in DOMAIN job'[t].agenda : job'[t].agenda[i].do = "drop"
    <3> DEFINE d == Do("drop", writer[t].path)
    <3>1. d.do = "drop"
      BY DEF Do
    <3> HIDE DEF d
    <3>2. DOMAIN <<d>> = {1} /\ <<d>>[1] = d
      OBVIOUS
    <3>3. job'[t].agenda = << >> \/ job'[t].agenda = <<d>>
      BY <2>1 DEF d
    <3> QED
      BY <3>1, <3>2, <3>3
  <2> QED
    BY <1>1, <1>3, <2>2, GivenUpAfter
<1> QED
  BY <1>2, <1>3

LEMMA MoveBegins ==
    ASSUME AsyncTypeOK, script \in Scripts, before \in Trees, NEW t \in Tasks, TaskOK(t),
           Outcome(t) \/ Expansion(t), Alone(t), at[t] > 0, Moved(t) # {}, NotBegun(t)
    PROVE  Copying(t)' \/ GivenUp(t)'
<1> DEFINE r == job[t].request
           p == r.path
           q == r.dest
           s == job[t].agenda
           u == Tail(s)
<1>1. /\ r \in Requests /\ p \in Paths /\ q \in Paths /\ Asked(t)
      /\ Turned(t) /\ (Outcome(t) \/ Expansion(t))
      /\ Unmoved(t) /\ files[q] = before[q]
  BY JobTypes, StepGuards DEF Requests, TaskOK, NotBegun
<1>2. PICK m \in Moved(t) : TRUE
  OBVIOUS
<1>3. /\ r.op \in MovingOps /\ m \in Paths /\ Below(m, p) /\ Exists(before, p)
      /\ m # p => IsDirectory(before, p)
  BY <1>1, MovedFile
<1>4. /\ s \in Seq(Items) /\ s # << >> /\ s[1] = Do("absent", q)
      /\ s = IF r.op = "move_file" THEN MoveFileSteps(p, q) ELSE MoveDirSteps(p, q)
  <2>1. s = StepsOf(r)
    BY DEF NotBegun
  <2>2. CASE r.op = "move_file"
    <3>1. s = MoveFileSteps(p, q)
      BY <2>1, <2>2 DEF StepsOf
    <3> HIDE DEF s
    <3>2. s \in Seq(Items) /\ Len(s) = 9 /\ s[1] = Do("absent", q)
      BY <1>1, <3>1, MoveShape
    <3> QED
      BY <2>2, <3>1, <3>2
  <2>3. CASE r.op = "move_dir"
    <3>1. s = MoveDirSteps(p, q)
      BY <2>1, <2>3 DEF StepsOf
    <3> HIDE DEF s
    <3>2. s \in Seq(Items) /\ Len(s) = 7 /\ s[1] = Do("absent", q)
      BY <1>1, <3>1, MoveDirShape
    <3> QED
      BY <2>3, <3>1, <3>2
  <2> QED
    BY <1>3, <2>2, <2>3 DEF MovingOps
<1>5. Busy(t) /\ Now(t).do = "absent" /\ Now(t).path = q /\ At(t, {"absent"})
  <2>1. Busy(t)
    BY <1>4 DEF Busy
  <2>2. Now(t) = Do("absent", q)
    BY <1>4, <2>1, NowIsFirst
  <2> QED
    BY <2>1, <2>2 DEF Do, At
<1>6. CASE GaveUp(t)
  BY <1>1, <1>5, <1>6, MoveGivesUp
<1>7. CASE Looked(t)
  <2>1. ~Exists(before, q) /\ UNCHANGED fsVars /\ job'[t].agenda = u
    BY <1>1, <1>5, <1>7 DEF Looked, WentOn, Exists
  <2>2. Apart(p, q)
    <3>1. ~Below(q, p)
      <4>1. Below(q, p) => q = p
        BY <1>1, <1>3, AskedMoves DEF CopyingOps, MovingOps
      <4> QED
        BY <1>3, <2>1, <4>1
    <3>2. ASSUME Below(p, q) PROVE FALSE
      <4>1. p # q
        BY <1>3, <2>1
      <4>2. before \in Maps /\ IsTree(before)
        BY TreesAssumption
      <4>3. IsDirectory(before, q)
        BY <1>1, <1>3, <3>2, <4>1, <4>2, ChildTowards
      <4> QED
        BY <2>1, <4>3 DEF IsDirectory, Exists
    <3> QED
      BY <3>1, <3>2 DEF Apart
  <2>3. Unmoved(t)'
    BY <1>1, <2>1, UnmovedStays
  <2>4. /\ Len(s) \in Nat \ {0} /\ DOMAIN u = 1 .. Len(s) - 1 /\ Len(u) = Len(s) - 1
        /\ \A i \in 1 .. Len(s) - 1 : u[i] = s[i + 1]
    <3> HIDE DEF s
    <3>1. s \in Seq(Items) /\ s # << >>
      BY <1>4
    <3> QED
      BY <3>1, AgendaTail
  <2> HIDE DEF u, s
  <2>5. CASE r.op = "move_file"
    <3>1. /\ Len(s) = 9 /\ s[2] = Do("open", p) /\ s[3].do = "parent_exists"
          /\ s[4].do = "parent_is_dir" /\ s[5].do = "ensure_parent" /\ s[6].do = "create_file"
          /\ s[7].do = "fill" /\ s[8].do = "remove_file" /\ s[9] = Do("drop", q)
      <4>1. s = MoveFileSteps(p, q)
        BY <1>4, <2>5
      <4>2. /\ Len(s) = 9 /\ s[2] = Do("open", p) /\ s[3] = Do("parent_exists", q)
            /\ s[4] = Do("parent_is_dir", q) /\ s[5] = Do("ensure_parent", q)
            /\ s[6] = Do("create_file", q) /\ s[7] = Do("fill", q)
            /\ s[8] = Do("remove_file", p) /\ s[9] = Do("drop", q)
        BY <1>1, <4>1, MoveShape
      <4> QED
        BY <4>2 DEF Do
    <3>2. /\ DOMAIN u = 1 .. 8 /\ Len(u) = 8 /\ u[1] = Do("open", p)
          /\ u[2].do = "parent_exists"
          /\ u[3].do = "parent_is_dir" /\ u[4].do = "ensure_parent" /\ u[5].do = "create_file"
          /\ u[6].do = "fill" /\ u[7].do = "remove_file" /\ u[8] = Do("drop", q)
      <4>1. /\ u[1] = s[1 + 1] /\ u[2] = s[2 + 1] /\ u[3] = s[3 + 1] /\ u[4] = s[4 + 1]
            /\ u[5] = s[5 + 1] /\ u[6] = s[6 + 1] /\ u[7] = s[7 + 1] /\ u[8] = s[8 + 1]
        BY <2>4, <3>1
      <4> QED
        BY <2>4, <3>1, <4>1
    <3>3. ASSUME NEW z \in Moved(t) PROVE \E i \in DOMAIN u : Reaches(r, u[i], z)
      <4>1. CASE z = p
        <5>1. Rebase(z, p, q) = q
          BY <1>1, <4>1, RebaseOfTop, PathsAreSequences
        <5>2. 8 \in DOMAIN u /\ u[8].do = "drop" /\ u[8].path = q
          BY <3>2 DEF Do
        <5> QED
          BY <5>1, <5>2 DEF Reaches
      <4>2. CASE z # p
        <5>1. 1 \in DOMAIN u /\ u[1].do = "open" /\ u[1].path = p
          BY <3>2 DEF Do
        <5> QED
          BY <2>5, <4>2, <5>1 DEF Reaches
      <4> QED
        BY <4>1, <4>2
    <3>4. \A i \in DOMAIN u :
             /\ u[i].do \notin {"list", "children", "list_empty", "remove_dir_all"}
             /\ u[i].do = "remove_file" => i + 1 = Len(u)
      <4>1. u[1].do = "open" /\ u[8].do = "drop"
        BY <3>2 DEF Do
      <4>2. \A i \in DOMAIN u : i = 1 \/ i = 2 \/ i = 3 \/ i = 4 \/ i = 5 \/ i = 6 \/ i = 7 \/ i = 8
        BY <3>2
      <4> QED
        BY <3>2, <4>1, <4>2
    <3> QED
      <4>1. Copying(t)'
        BY <1>1, <2>1, <2>2, <2>3, <2>5, <3>3, <3>4, CopyingAfter
      <4> QED
        BY <4>1
  <2>6. CASE r.op = "move_dir"
    <3>1. /\ Len(s) = 7 /\ s[2].do = "parent_exists" /\ s[3].do = "parent_is_dir"
          /\ s[4].do = "ensure_parent" /\ s[5].do = "create_dir"
          /\ s[6].do = "walk_dir" /\ s[7].do = "remove_dir_all"
      <4>1. s = MoveDirSteps(p, q)
        BY <1>4, <2>6
      <4>2. /\ Len(s) = 7 /\ s[2] = Do("parent_exists", q) /\ s[3] = Do("parent_is_dir", q)
            /\ s[4] = Do("ensure_parent", q) /\ s[5] = Do("create_dir", q)
            /\ s[6].do = "walk_dir" /\ s[7] = Do("remove_dir_all", p)
        BY <1>1, <4>1, MoveDirShape
      <4> QED
        BY <4>2 DEF Do
    <3>2. /\ DOMAIN u = 1 .. 6 /\ Len(u) = 6
          /\ u[1].do = "parent_exists" /\ u[2].do = "parent_is_dir"
          /\ u[3].do = "ensure_parent" /\ u[4].do = "create_dir"
          /\ u[5].do = "walk_dir" /\ u[6].do = "remove_dir_all"
      <4>1. /\ u[1] = s[1 + 1] /\ u[2] = s[2 + 1] /\ u[3] = s[3 + 1] /\ u[4] = s[4 + 1]
            /\ u[5] = s[5 + 1] /\ u[6] = s[6 + 1]
        BY <2>4, <3>1
      <4> QED
        BY <2>4, <3>1, <4>1
    <3>3. ASSUME NEW z \in Moved(t) PROVE \E i \in DOMAIN u : Reaches(r, u[i], z)
      <4>1. 5 \in DOMAIN u
        BY <3>2
      <4> QED
        BY <3>2, <4>1 DEF Reaches
    <3>4. \A i \in DOMAIN u :
             /\ u[i].do \notin {"list", "children", "list_empty", "remove_file"}
             /\ u[i].do = "remove_dir_all" => i = Len(u)
      <4>1. \A i \in DOMAIN u : i = 1 \/ i = 2 \/ i = 3 \/ i = 4 \/ i = 5 \/ i = 6
        BY <3>2
      <4> QED
        BY <3>2, <4>1
    <3> QED
      <4>1. Copying(t)'
        BY <1>1, <2>1, <2>2, <2>3, <2>6, <3>3, <3>4, CopyingAfter
      <4> QED
        BY <4>1
  <2> QED
    BY <1>3, <2>5, <2>6 DEF MovingOps
<1> QED
  BY <1>1, <1>5, <1>6, <1>7
  DEF Outcome, Expansion, MadeDir, MadeFile, Opened, Filled, Dropped, Removed, Expanded, At,
      Expanding, Emptyings

\* A file that a move is on its way to copying and the present step reaches.
LEMMA ReachedNow ==
    ASSUME AsyncTypeOK, script \in Scripts, before \in Trees, NEW t \in Tasks, TaskOK(t),
           at[t] > 0, Unmoved(t), NEW z \in Moved(t), Outcome(t), Busy(t),
           Reaches(job[t].request, Now(t), z)
    PROVE  \/ GaveUp(t)
           \/ Dropped(t) /\ Now(t).path = Rebase(z, job[t].request.path, job[t].request.dest)
<1> DEFINE r == job[t].request
           p == r.path
<1>1. /\ p \in Paths /\ Asked(t) /\ z \in Paths /\ Below(z, p)
      /\ z # p => IsDirectory(before, p)
  BY JobTypes, MovedFile DEF Requests, TaskOK
<1>2. CASE Now(t).do = "drop"
  BY <1>2 DEF Reaches, Outcome, GaveUp, Looked, MadeDir, MadeFile, Opened, Filled, Removed, At, Looks
<1>3. CASE Now(t).do = "open" /\ r.op = "move_file" /\ Now(t).path = p /\ z # p
  <2>1. files[p] = before[p]
    BY <1>1, PathsAreSequences, BelowItself DEF Unmoved
  <2>2. ~IsFile(files, p)
    BY <1>1, <1>3, <2>1 DEF IsDirectory, IsFile
  <2>3. ~Looked(t)
    BY <1>3, <2>2 DEF Looked
  <2> QED
    BY <1>3, <2>3 DEF Outcome, MadeDir, MadeFile, Opened, Filled, Dropped, Removed, At
<1>4. CASE Now(t).do \in {"copy_entry", "walk_dir", "walk"}
  BY <1>4 DEF Outcome, Looked, MadeDir, MadeFile, Opened, Filled, Dropped, Removed, At, Looks
<1> QED
  BY <1>2, <1>3, <1>4 DEF Reaches

LEMMA AgendaGoesOn ==
    ASSUME AsyncTypeOK, NEW t \in Tasks, Busy(t)
    PROVE  LET s == job[t].agenda
               u == Tail(s)
           IN /\ s \in Seq(Items) /\ u \in Seq(Items) /\ s[1] = Now(t)
              /\ Len(s) \in Nat \ {0} /\ DOMAIN s = 1 .. Len(s)
              /\ Len(u) = Len(s) - 1 /\ DOMAIN u = 1 .. Len(s) - 1
              /\ \A i \in DOMAIN u : u[i] = s[i + 1] /\ i + 1 \in DOMAIN s
              /\ \A i \in DOMAIN s : i = 1 \/ \E k \in DOMAIN u : i = k + 1
<1> DEFINE s == job[t].agenda
           u == Tail(s)
<1>1. s \in Seq(Items) /\ s # << >>
  BY JobTypes DEF Busy
<1>2. s[1] = Now(t)
  BY <1>1, AgendaTail DEF Now
<1> HIDE DEF s
<1>3. /\ Len(s) \in Nat \ {0} /\ DOMAIN s = 1 .. Len(s)
      /\ u \in Seq(Items) /\ Len(u) = Len(s) - 1 /\ DOMAIN u = 1 .. Len(s) - 1
      /\ \A i \in 1 .. Len(s) - 1 : u[i] = s[i + 1] /\ i + 1 \in DOMAIN s
  BY <1>1, AgendaTail
<1>4. ASSUME NEW i \in DOMAIN s, i # 1 PROVE \E k \in DOMAIN u : i = k + 1
  <2>1. i - 1 \in 1 .. Len(s) - 1 /\ i = (i - 1) + 1
    BY <1>3, <1>4
  <2> QED
    BY <1>3, <2>1
<1> QED
  BY <1>1, <1>2, <1>3, <1>4 DEF s

LEMMA CopyingGoesOn ==
    ASSUME AsyncTypeOK, script \in Scripts, before \in Trees, NEW t \in Tasks, TaskOK(t),
           Outcome(t), ~GaveUp(t), ~At(t, {"remove_file"}), Busy(t),
           Alone(t), at[t] > 0, Moved(t) # {}, Copying(t)
    PROVE  Copying(t)'
<1> DEFINE r == job[t].request
           p == r.path
           q == r.dest
           s == job[t].agenda
           u == Tail(s)
<1>1. /\ Turned(t) /\ Guarded(t) /\ Asked(t) /\ Apart(p, q) /\ Unmoved(t) /\ r.op \in MovingOps
      /\ \A z \in Moved(t) : Arrived(t, z) \/ \E i \in DOMAIN s : Reaches(r, s[i], z)
      /\ \A i \in DOMAIN s :
             /\ s[i].do \notin {"list", "children", "list_empty"}
             /\ s[i].do = "remove_file" => r.op = "move_file" /\ i + 1 = Len(s)
             /\ s[i].do = "remove_dir_all" => r.op = "move_dir" /\ i = Len(s)
  BY DEF Outcome, TaskOK, Copying, Moved
<1>2. job'[t].agenda = u
  BY DEF Outcome, Looked, MadeDir, MadeFile, Opened, Filled, Dropped, Removed, WentOn
<1>3. /\ s[1] = Now(t) /\ Len(s) \in Nat \ {0} /\ DOMAIN s = 1 .. Len(s)
      /\ Len(u) = Len(s) - 1 /\ DOMAIN u = 1 .. Len(s) - 1
      /\ \A i \in DOMAIN u : u[i] = s[i + 1] /\ i + 1 \in DOMAIN s
      /\ \A i \in DOMAIN s : i = 1 \/ \E k \in DOMAIN u : i = k + 1
  BY AgendaGoesOn
<1>4. Unmoved(t)'
  BY <1>1, MakingKeepsUnmoved
<1> HIDE DEF u, s
<1>5. ASSUME NEW z \in Moved(t)
      PROVE  Arrived(t, z)' \/ \E i \in DOMAIN u : Reaches(r, u[i], z)
  <2>1. CASE Arrived(t, z)
    BY <1>1, <2>1, ArrivedStays
  <2>2. ASSUME Reaches(r, Now(t), z) PROVE Arrived(t, z)'
    <3>1. Dropped(t) /\ Now(t).path = Rebase(z, p, q)
      BY <1>1, <2>2, ReachedNow
    <3> QED
      BY <1>1, <3>1, ArrivedStays
  <2> QED
    BY <1>1, <1>3, <2>1, <2>2
<1>6. \A i \in DOMAIN u :
             /\ u[i].do \notin {"list", "children", "list_empty"}
             /\ u[i].do = "remove_file" => r.op = "move_file" /\ i + 1 = Len(u)
             /\ u[i].do = "remove_dir_all" => r.op = "move_dir" /\ i = Len(u)
  <2>1. ASSUME NEW i \in DOMAIN u
        PROVE  /\ (i + 1) + 1 = Len(s) => i + 1 = Len(u)
               /\ i + 1 = Len(s) => i = Len(u)
    BY <1>3, <2>1
  <2> QED
    BY <1>1, <1>3, <2>1
<1> QED
  BY <1>1, <1>2, <1>4, <1>5, <1>6, CopyingAfter

\* move_file removes its source when what it held is in the handle.
LEMMA CopyingRemoves ==
    ASSUME AsyncTypeOK, script \in Scripts, before \in Trees, NEW t \in Tasks, TaskOK(t),
           Removed(t), Turned(t),
           Alone(t), at[t] > 0, Moved(t) # {}, Copying(t)
    PROVE  Leaving(t)'
<1> DEFINE r == job[t].request
           p == r.path
           q == r.dest
           s == job[t].agenda
           u == Tail(s)
<1>1. /\ Guarded(t) /\ Asked(t) /\ Apart(p, q) /\ Busy(t) /\ Now(t).do = "remove_file"
      /\ job'[t].agenda = u /\ writer' = writer /\ job'[t].request = r /\ before' = before
      /\ \A z \in Moved(t) : Arrived(t, z) \/ \E i \in DOMAIN s : Reaches(r, s[i], z)
      /\ \A i \in DOMAIN s :
             s[i].do = "remove_file" => r.op = "move_file" /\ i + 1 = Len(s)
  BY DEF Removed, RemoveFile, WentOn, At, TaskOK, Copying, Turned
<1>2. /\ s[1] = Now(t) /\ Len(s) \in Nat \ {0} /\ DOMAIN s = 1 .. Len(s)
      /\ Len(u) = Len(s) - 1 /\ DOMAIN u = 1 .. Len(s) - 1
      /\ \A i \in DOMAIN u : u[i] = s[i + 1] /\ i + 1 \in DOMAIN s
      /\ \A i \in DOMAIN s : i = 1 \/ \E k \in DOMAIN u : i = k + 1
  BY <1>1, AgendaGoesOn
<1> HIDE DEF u, s
<1>3. /\ r.op = "move_file" /\ DOMAIN u = {1} /\ 1 \in DOMAIN u
      /\ 1 \in DOMAIN s /\ 2 \in DOMAIN s /\ u[1] = s[2]
  <2>1. 1 \in DOMAIN s /\ r.op = "move_file" /\ 1 + 1 = Len(s)
    BY <1>1, <1>2
  <2>2. Len(s) = 2 /\ DOMAIN u = 1 .. 1 /\ DOMAIN s = 1 .. 2
    <3>1. DOMAIN u = 1 .. Len(s) - 1 /\ DOMAIN s = 1 .. Len(s)
      BY <1>2
    <3>2. Len(s) = 2
      BY <2>1
    <3>3. DOMAIN u = 1 .. 2 - 1 /\ DOMAIN s = 1 .. 2
      BY <3>1, <3>2
    <3>4. 2 - 1 = 1
      OBVIOUS
    <3> QED
      BY <3>2, <3>3, <3>4
  <2>3. DOMAIN u = {1} /\ 1 \in DOMAIN u /\ 2 \in DOMAIN s /\ 1 + 1 = 2
    BY <2>2
  <2> QED
    BY <1>2, <2>1, <2>3
<1>4. At(t, {"drop"})'
  BY <1>1, <1>3, NowGuarded DEF Removed
<1>5. u[1].do = "drop" /\ writer[t].open /\ writer[t].path = u[1].path
  <2> DEFINE c == Do("fill", s[2].path)
  <2>1. s[1].do = "remove_file" /\ Together(r, s)
    BY <1>1, <1>2 DEF Guarded, s
  <2>2. s[2].do = "drop"
    BY <1>3, <2>1 DEF Together
  <2>3. c \in Needed(r, s[2]) /\ c.do = "fill" /\ c.path = s[2].path
    BY <2>2 DEF Needed, Do
  <2>4. Led(r, s, 2, c) \/ Known(t, c)
    BY <1>1, <1>3, <2>3 DEF Guarded, s
  <2>5. ~Led(r, s, 2, c)
    <3>1. \A j \in DOMAIN s : j < 2 => j = 1
      BY <1>2
    <3> QED
      BY <2>1, <2>3, <3>1 DEF Led
  <2>6. Held(t, c.path)
    BY <2>3, <2>4, <2>5 DEF Known
  <2> QED
    BY <1>3, <2>2, <2>3, <2>6 DEF Held
<1>6. RightData(t, writer[t].buf, Source(r, q)) /\ writer[t].path = q
  <2>1. Do("fill", q) \in Needed(r, Now(t))
    BY <1>1, <1>3 DEF Needed
  <2>2. Known(t, Do("fill", q))
    BY <1>1, <2>1, NowGuarded
  <2> QED
    BY <2>2 DEF Known, Held, Do
<1>7. ASSUME NEW z \in Moved(t) PROVE Arrived(t, z)' \/ InHandle(t, z)'
  <2>1. CASE Arrived(t, z)
    BY <1>1, <2>1, ArrivedStays DEF Outcome
  <2>2. CASE Reaches(r, u[1], z)
    <3>1. Rebase(z, p, q) = q
      BY <1>5, <1>6, <2>2 DEF Reaches
    <3>2. Source(r, q) = z
      BY <1>1, <3>1, MovedFile
    <3>3. writer[t].buf = before[z].content
      BY <1>6, <3>2 DEF RightData
    <3> QED
      BY <1>1, <1>4, <1>5, <1>6, <3>1, <3>3 DEF InHandle
  <2>3. ~Reaches(r, s[1], z)
    BY <1>1, <1>2 DEF Reaches
  <2>4. ASSUME NEW i \in DOMAIN s, Reaches(r, s[i], z) PROVE Reaches(r, u[1], z)
    <3>1. i # 1
      BY <2>3, <2>4
    <3>2. PICK k \in DOMAIN u : i = k + 1
      BY <1>2, <3>1
    <3>3. k = 1 /\ u[1] = s[i]
      BY <1>2, <1>3, <3>2
    <3> QED
      BY <2>4, <3>3
  <2> QED
    BY <1>1, <2>1, <2>2, <2>4
<1> QED
  BY <1>1, <1>3, <1>5, <1>7, LeavingAfter

\* What a walk has on its list leads on to every file that is still to be copied.
LEMMA StillTowards ==
    ASSUME AsyncTypeOK, script \in Scripts, before \in Trees, NEW t \in Tasks, Asked(t), at[t] > 0,
           Unmoved(t), NEW z \in Moved(t), NEW d \in Paths, Below(d, job[t].request.path),
           Below(z, d), z # d
    PROVE  IsDirectory(files, d) /\ \E c \in Children(files, d) : Below(z, c)
<1> DEFINE p == job[t].request.path
<1>1. /\ z \in Paths /\ Exists(before, z) /\ before \in Maps /\ IsTree(before)
      /\ p \in Paths
  BY TreesAssumption, JobTypes DEF Moved, IsFile, Exists, Requests
<1> HIDE DEF p
<1>2. IsDirectory(before, d)
  BY <1>1, ChildTowards
<1>3. PICK c \in Children(before, d) : Below(z, c)
  BY <1>1, ChildTowards
<1>4. d \in AnyPath /\ p \in AnyPath /\ Below(d, p)
  BY <1>1, PathsAreSequences DEF p
<1>5. Below(c, p)
  BY <1>4, ChildrenAreBelow
<1>6. c \in Paths /\ files[c] = before[c] /\ files[d] = before[d]
  BY <1>3, <1>4, <1>5 DEF Children, Unmoved, p
<1>7. c \in Children(files, d)
  BY <1>3, <1>6 DEF Children, Exists
<1> QED
  BY <1>2, <1>3, <1>6, <1>7 DEF IsDirectory

\* A walk that still has something to look at is one step.
LEMMA WalkShape ==
    ASSUME NEW it \in Items, NEW left \in SUBSET Paths, NEW held \in SUBSET Paths,
           NEW todo \in Seq(Paths)
    PROVE  LET w == Walk(it, left, held, todo) IN
           /\ w \in Seq(Items) /\ \A i \in DOMAIN w : w[i].do = "walk"
           /\ \/ left \cup held = {} /\ todo = << >>
              \/ /\ 1 \in DOMAIN w /\ w[1].do = "walk"
                 /\ w[1].left = left /\ w[1].held = held /\ w[1].todo = todo
<1> DEFINE m == [it EXCEPT !.do = "walk", !.left = left, !.held = held, !.todo = todo]
           w == Walk(it, left, held, todo)
<1>1. /\ m \in Items /\ m.do = "walk"
      /\ m.left = left /\ m.held = held /\ m.todo = todo
  BY DEF Items, Steps
<1> HIDE DEF m
<1>2. CASE left \cup held = {} /\ todo = << >>
  <2>1. w = << >>
    BY <1>2 DEF Walk
  <2>2. << >> \in Seq(Items) /\ DOMAIN << >> = {}
    BY EmptySeq
  <2> QED
    BY <1>2, <2>1, <2>2
<1>3. CASE ~(left \cup held = {} /\ todo = << >>)
  <2>1. w = <<m>>
    BY <1>3 DEF Walk, m
  <2>2. <<m>> \in Seq(Items) /\ DOMAIN <<m>> = {1} /\ <<m>>[1] = m
    BY <1>1
  <2> QED
    BY <1>1, <2>1, <2>2
<1> QED
  BY <1>2, <1>3

LEMMA WalkReaches ==
    ASSUME NEW it \in Items, NEW left \in SUBSET Paths, NEW held \in SUBSET Paths,
           NEW todo \in Seq(Paths), NEW r, NEW z,
           \/ \E c \in left \cup held : Below(z, c)
           \/ \E i \in DOMAIN todo : Below(z, todo[i]) /\ z # todo[i]
    PROVE  LET w == Walk(it, left, held, todo) IN
           \E i \in DOMAIN w : Reaches(r, w[i], z)
<1> DEFINE w == Walk(it, left, held, todo)
<1>1. /\ 1 \in DOMAIN w /\ w[1].do = "walk"
      /\ w[1].left = left /\ w[1].held = held /\ w[1].todo = todo
  <2>1. ~(left \cup held = {} /\ todo = << >>)
    <3>1. DOMAIN << >> = {}
      OBVIOUS
    <3> QED
      BY <3>1
  <2>2. \/ left \cup held = {} /\ todo = << >>
        \/ /\ 1 \in DOMAIN w /\ w[1].do = "walk"
           /\ w[1].left = left /\ w[1].held = held /\ w[1].todo = todo
    BY WalkShape
  <2> QED
    BY <2>1, <2>2
<1> HIDE DEF w
<1>2. Reaches(r, w[1], z)
  BY <1>1 DEF Reaches
<1> QED
  BY <1>1, <1>2 DEF w

LEMMA ListingReaches ==
    ASSUME AsyncTypeOK, script \in Scripts, before \in Trees, NEW t \in Tasks, TaskOK(t),
           at[t] > 0, Unmoved(t), job[t].request.op = "move_dir", NEW z \in Moved(t),
           At(t, {"walk_dir", "walk"}), NEW steps,
           \/ /\ Now(t).do = "walk_dir"
              /\ steps = Walk(Now(t), Children(files, Now(t).path), {}, << >>)
           \/ Now(t).do = "walk" /\ NextListing(t, steps),
           Reaches(job[t].request, Now(t), z)
    PROVE  \E i \in DOMAIN steps : Reaches(job[t].request, steps[i], z)
<1> DEFINE r == job[t].request
           p == r.path
           it == Now(t)
<1>1. /\ Busy(t) /\ Asked(t) /\ it \in Items /\ r.op = "move_dir" /\ p \in Paths /\ p \in AnyPath
      /\ Inside(r, it)
  BY JobTypes, NowTypes, NowGuarded, PathsAreSequences DEF At, TaskOK, Requests
<1>2. /\ it.path = p /\ \A c \in Ahead(it) : Below(c, p)
  BY <1>1 DEF Inside, At
<1>3. z \in Paths /\ Below(z, p) /\ z # p
  BY <1>1 DEF Moved
<1>4. ASSUME NEW d \in Paths, Below(d, p), Below(z, d), z # d, NEW todo \in Seq(Paths),
             steps = Walk(it, Children(files, d), {}, todo)
      PROVE  \E i \in DOMAIN steps : Reaches(r, steps[i], z)
  <2>1. \E c \in Children(files, d) \cup {} : Below(z, c)
    BY <1>1, <1>4, StillTowards
  <2>2. Children(files, d) \in SUBSET Paths
    BY DEF Children
  <2> QED
    BY <1>1, <1>4, <2>1, <2>2, WalkReaches
<1>5. CASE it.do = "walk_dir"
  <2>1. steps = Walk(it, Children(files, p), {}, << >>) /\ << >> \in Seq(Paths)
    BY <1>2, <1>5, EmptySeq
  <2> QED
    BY <1>1, <1>3, <1>4, <2>1, BelowItself
<1>6. CASE it.do = "walk" /\ NextListing(t, steps)
  <2>1. /\ it.left \cup it.held = {} /\ steps = Walk(it, Children(files, Top(it)), {}, Popped(it))
    BY <1>1, <1>6 DEF NextListing
  <2>2. PICK i \in DOMAIN it.todo : Below(z, it.todo[i]) /\ z # it.todo[i]
    BY <1>6, <2>1 DEF Reaches
  <2>3. it.todo # << >> /\ it.todo[i] \in Ahead(it)
    BY <2>2 DEF Ahead
  <2>4. /\ Top(it) \in Paths /\ Len(it.todo) \in DOMAIN it.todo /\ Popped(it) \in Seq(Paths)
        /\ i = Len(it.todo) \/ (i \in DOMAIN Popped(it) /\ Popped(it)[i] = it.todo[i])
    BY <1>1, <2>2, <2>3, StackShape
  <2>5. CASE i = Len(it.todo)
    <3>1. Top(it) = it.todo[i]
      BY <2>5 DEF Top
    <3> QED
      BY <1>2, <1>4, <2>1, <2>2, <2>3, <2>4, <3>1
  <2>6. CASE i \in DOMAIN Popped(it) /\ Popped(it)[i] = it.todo[i]
    <3>1. Children(files, Top(it)) \in SUBSET Paths
      BY DEF Children
    <3> QED
      BY <1>1, <2>1, <2>2, <2>4, <2>6, <3>1, WalkReaches
  <2> QED
    BY <2>4, <2>5, <2>6
<1> QED
  BY <1>5, <1>6 DEF At

LEMMA PendingReaches ==
    ASSUME AsyncTypeOK, NEW t \in Tasks, At(t, {"walk"}), NEW steps, NextPending(t, steps),
           NEW r, NEW z, Reaches(r, Now(t), z)
    PROVE  \E i \in DOMAIN steps : Reaches(r, steps[i], z)
<1> DEFINE it == Now(t)
<1>1. /\ Busy(t) /\ it \in Items /\ it.do = "walk" /\ it.left \in SUBSET Paths
      /\ it.todo \in Seq(Paths)
  BY NowTypes DEF At
<1>2. PICK child \in it.left : it.held = {} /\ steps = Walk(it, it.left \ {child}, {child}, it.todo)
  BY DEF NextPending
<1>3. it.left \cup it.held = (it.left \ {child}) \cup {child}
  BY <1>2
<1>4. /\ it.left \ {child} \in SUBSET Paths /\ {child} \in SUBSET Paths
  BY <1>1, <1>2
<1>5. \/ \E c \in it.left \cup it.held : Below(z, c)
      \/ \E i \in DOMAIN it.todo : Below(z, it.todo[i]) /\ z # it.todo[i]
  BY <1>1 DEF Reaches
<1> HIDE DEF it
<1> QED
  BY <1>1, <1>2, <1>3, <1>4, <1>5, WalkReaches

LEMMA ItemReaches ==
    ASSUME AsyncTypeOK, script \in Scripts, before \in Trees, NEW t \in Tasks, TaskOK(t),
           at[t] > 0, Unmoved(t), job[t].request.op = "move_dir", NEW z \in Moved(t),
           At(t, {"walk"}), NEW steps, NextItem(t, steps), Reaches(job[t].request, Now(t), z)
    PROVE  \E i \in DOMAIN steps : Reaches(job[t].request, steps[i], z)
<1> DEFINE r == job[t].request
           p == r.path
           it == Now(t)
           todo(child) == IF IsDirectory(files, child) THEN Append(it.todo, child) ELSE it.todo
           walk(child) == Walk(it, it.left \ {child}, {}, todo(child))
<1>1. /\ Busy(t) /\ Asked(t) /\ it \in Items /\ r.op = "move_dir" /\ r \in Requests /\ it.do = "walk"
      /\ Inside(r, it) /\ it \in Fitting(r)
  BY JobTypes, NowTypes, NowGuarded DEF At, TaskOK
<1>2. /\ \A c \in Ahead(it) : Below(c, p)
      /\ \A c, d \in it.held : c = d
  BY <1>1 DEF Inside
<1>3. PICK child \in IF it.held = {} THEN it.left ELSE it.held :
           /\ Exists(files, child)
           /\ steps = <<CopyItem(it, child)>> \o walk(child)
  BY <1>1 DEF NextItem
<1>4. /\ child \in Paths /\ Below(child, p) /\ child \in it.left \cup it.held
      /\ it.left \in SUBSET Paths /\ it.todo \in Seq(Paths)
  BY <1>1, <1>2, <1>3, NowTypes DEF Ahead
<1>5. todo(child) \in Seq(Paths) /\ \A i \in DOMAIN it.todo : i \in DOMAIN todo(child)
                                                     /\ todo(child)[i] = it.todo[i]
  BY <1>1, <1>4, StackShape
<1>6. it.left \ {child} \in SUBSET Paths
  BY <1>4
<1>7. Rebase(child, p, r.dest) \in Paths
  BY <1>1, <1>4, AskedMoves DEF CopyingOps
<1>8. /\ CopyItem(it, child) \in Items /\ CopyItem(it, child).do = "copy_entry"
      /\ CopyItem(it, child).path = child
  BY <1>1, <1>4, <1>7, CopyItemFits DEF Fitting
<1>9. walk(child) \in Seq(Items)
  BY <1>1, <1>5, <1>6, WalkShape
<1> HIDE DEF todo
<1> DEFINE h == <<CopyItem(it, child)>>
           u == walk(child)
<1>10. h \in Seq(Items) /\ u \in Seq(Items) /\ 1 \in DOMAIN h /\ h[1] = CopyItem(it, child)
  BY <1>8, <1>9
<1>11. steps = h \o u
  BY <1>3
<1> HIDE DEF h, u
<1>12. /\ \A i \in DOMAIN h : i \in DOMAIN steps /\ steps[i] = h[i]
       /\ \A i \in DOMAIN u : Len(h) + i \in DOMAIN steps /\ steps[Len(h) + i] = u[i]
  BY <1>10, <1>11, AgendaConcat
<1>13. CASE z = child
  <2>1. Reaches(r, h[1], z)
    BY <1>8, <1>10, <1>13 DEF Reaches
  <2> QED
    BY <1>10, <1>12, <2>1
<1>14. CASE z # child
  <2>1. ASSUME Below(z, child)
        PROVE  \E i \in DOMAIN todo(child) : Below(z, todo(child)[i]) /\ z # todo(child)[i]
    <3>1. IsDirectory(files, child)
      BY <1>1, <1>4, <1>14, <2>1, StillTowards
    <3>2. \E i \in DOMAIN Append(it.todo, child) : Append(it.todo, child)[i] = child
      BY <1>1, <1>4, StackShape
    <3> QED
      BY <1>14, <2>1, <3>1, <3>2 DEF todo
  <2>2. \/ \E c \in it.left \cup it.held : Below(z, c)
        \/ \E i \in DOMAIN it.todo : Below(z, it.todo[i]) /\ z # it.todo[i]
    BY <1>1 DEF Reaches
  <2>3. \/ \E c \in (it.left \ {child}) \cup {} : Below(z, c)
        \/ \E i \in DOMAIN todo(child) : Below(z, todo(child)[i]) /\ z # todo(child)[i]
    <3>1. \A c \in it.left \cup it.held : c = child \/ c \in it.left \ {child}
      BY <1>2, <1>3
    <3> QED
      BY <1>5, <2>1, <2>2, <3>1
  <2>4. PICK i \in DOMAIN u : Reaches(r, u[i], z)
    BY <1>1, <1>5, <1>6, <2>3, WalkReaches DEF u
  <2> QED
    BY <1>12, <2>4
<1> QED
  BY <1>13, <1>14

LEMMA CopyEntryReaches ==
    ASSUME AsyncTypeOK, script \in Scripts, before \in Trees, NEW t \in Tasks, TaskOK(t),
           Unmoved(t), NEW z \in Moved(t), At(t, {"copy_entry"}), NEW steps, Expands(t, steps),
           Reaches(job[t].request, Now(t), z)
    PROVE  \E i \in DOMAIN steps : Reaches(job[t].request, steps[i], z)
<1> DEFINE r == job[t].request
           it == Now(t)
           q == it.dest
<1>1. /\ Busy(t) /\ it.do = "copy_entry" /\ r \in Requests /\ it.path \in Paths /\ q \in Paths
      /\ Inside(r, it)
  BY JobTypes, NowTypes, NowGuarded DEF At, TaskOK
<1>2. it.path = z /\ z \in Paths /\ Below(z, r.path) /\ IsFile(before, z)
  BY <1>1 DEF Reaches, Moved
<1>3. q = Rebase(z, r.path, r.dest)
  BY <1>1, <1>2 DEF Inside
<1>4. IsFile(files, z)
  BY <1>2 DEF Unmoved, IsFile
<1>5. steps = CopyFileSteps(z, q)
  BY <1>1, <1>2, <1>4 DEF Expands
<1> HIDE DEF q
<1>6. Len(steps) = 8 /\ steps \in Seq(Items) /\ steps[8] = Do("drop", q)
  BY <1>1, <1>2, <1>5, CopyShape
<1>7. 8 \in DOMAIN steps
  BY <1>6
<1>8. Reaches(r, steps[8], z)
  BY <1>3, <1>6 DEF Reaches, Do
<1> QED
  BY <1>7, <1>8

\* None of what a walk puts in its place removes anything.
Harmless(steps) == steps \in Seq(Items) /\ \A i \in DOMAIN steps : steps[i].do \notin Removals

LEMMA CopyEntryIsHarmless ==
    ASSUME AsyncTypeOK, NEW t \in Tasks, At(t, {"copy_entry"}), NEW steps, Expands(t, steps)
    PROVE  Harmless(steps)
<1> DEFINE p == Now(t).path
           q == Now(t).dest
<1>1. Busy(t) /\ Now(t).do = "copy_entry" /\ p \in Paths /\ q \in Paths
  BY NowTypes DEF At
<1>2. steps = CopyFileSteps(p, q) \/ steps = CreateDirSteps(q)
  BY <1>1 DEF Expands
<1> HIDE DEF p, q
<1>3. CASE steps = CopyFileSteps(p, q)
  <2>1. /\ steps \in Seq(Items) /\ Len(steps) = 8
        /\ steps[1] = Do("absent", q) /\ steps[2] = Do("open", p)
        /\ steps[3] = Do("parent_exists", q) /\ steps[4] = Do("parent_is_dir", q)
        /\ steps[5] = Do("ensure_parent", q) /\ steps[6] = Do("create_file", q)
        /\ steps[7] = Do("fill", q) /\ steps[8] = Do("drop", q)
    BY <1>1, <1>3, CopyShape
  <2>2. \A i \in DOMAIN steps : i \in 1 .. 8
    BY <2>1
  <2>3. \A i \in 1 .. 8 : steps[i].do \notin Removals
    BY <2>1 DEF Do, Removals
  <2> QED
    BY <2>1, <2>2, <2>3 DEF Harmless
<1>4. CASE steps = CreateDirSteps(q)
  <2>1. /\ steps \in Seq(Items) /\ Len(steps) = 4
        /\ steps[1] = Do("parent_exists", q) /\ steps[2] = Do("parent_is_dir", q)
        /\ steps[3] = Do("ensure_parent", q) /\ steps[4] = Do("create_dir", q)
    BY <1>1, <1>4, MakingShape DEF CreateDirSteps
  <2>2. \A i \in DOMAIN steps : i \in 1 .. 4
    BY <2>1
  <2>3. \A i \in 1 .. 4 : steps[i].do \notin Removals
    BY <2>1 DEF Do, Removals
  <2> QED
    BY <2>1, <2>2, <2>3 DEF Harmless
<1> QED
  BY <1>2, <1>3, <1>4

LEMMA WalkIsHarmless ==
    ASSUME NEW it \in Items, NEW left \in SUBSET Paths, NEW held \in SUBSET Paths,
           NEW todo \in Seq(Paths)
    PROVE  Harmless(Walk(it, left, held, todo))
<1> DEFINE w == Walk(it, left, held, todo)
<1>1. w \in Seq(Items) /\ \A i \in DOMAIN w : w[i].do = "walk"
  BY WalkShape
<1> QED
  BY <1>1 DEF Harmless, Removals

LEMMA WalkingIsHarmless ==
    ASSUME AsyncTypeOK, script \in Scripts, NEW t \in Tasks, TaskOK(t), at[t] > 0,
           job[t].request.op = "move_dir", At(t, {"walk_dir", "walk"}), NEW steps,
           Expands(t, steps)
    PROVE  Harmless(steps)
<1> DEFINE r == job[t].request
           it == Now(t)
<1>1. /\ Busy(t) /\ Asked(t) /\ it \in Items /\ r.op = "move_dir" /\ r \in Requests
      /\ Inside(r, it) /\ it \in Fitting(r)
      /\ it.left \in SUBSET Paths /\ it.held \in SUBSET Paths /\ it.todo \in Seq(Paths)
  BY JobTypes, NowTypes, NowGuarded DEF At, TaskOK
<1>2. \A d : Children(files, d) \in SUBSET Paths
  BY DEF Children
<1>3. CASE it.do = "walk_dir"
  <2>1. steps = Walk(it, Children(files, it.path), {}, << >>) /\ << >> \in Seq(Paths)
    BY <1>3, EmptySeq DEF Expands
  <2> QED
    BY <1>1, <1>2, <2>1, WalkIsHarmless
<1>4. CASE it.do = "walk" /\ NextListing(t, steps)
  <2>1. it.left \cup it.held = {} /\ steps = Walk(it, Children(files, Top(it)), {}, Popped(it))
    BY <1>1, <1>4 DEF NextListing
  <2>2. it.todo # << >>
    BY <1>1, <1>4, <2>1 DEF Inside
  <2>3. Popped(it) \in Seq(Paths)
    BY <1>1, <2>2, StackShape
  <2> QED
    BY <1>1, <1>2, <2>1, <2>3, WalkIsHarmless
<1>5. CASE it.do = "walk" /\ NextPending(t, steps)
  <2>1. PICK child \in it.left : steps = Walk(it, it.left \ {child}, {child}, it.todo)
    BY <1>5 DEF NextPending
  <2>2. it.left \ {child} \in SUBSET Paths /\ {child} \in SUBSET Paths
    BY <1>1
  <2> QED
    BY <1>1, <2>1, <2>2, WalkIsHarmless
<1>6. CASE it.do = "walk" /\ NextItem(t, steps)
  <2> DEFINE todo(child) == IF IsDirectory(files, child) THEN Append(it.todo, child) ELSE it.todo
             walk(child) == Walk(it, it.left \ {child}, {}, todo(child))
  <2>1. PICK child \in IF it.held = {} THEN it.left ELSE it.held :
             steps = <<CopyItem(it, child)>> \o walk(child)
    BY <1>1, <1>6 DEF NextItem
  <2>2. child \in Paths /\ child \in Ahead(it)
    BY <1>1, <2>1 DEF Ahead
  <2>3. Below(child, r.path)
    BY <1>1, <1>6, <2>2 DEF Inside
  <2>4. Rebase(child, r.path, r.dest) \in Paths
    BY <1>1, <2>2, <2>3, AskedMoves DEF CopyingOps
  <2>5. CopyItem(it, child) \in Items /\ CopyItem(it, child).do = "copy_entry"
    BY <1>1, <1>6, <2>2, <2>3, <2>4, CopyItemFits DEF Fitting
  <2>6. todo(child) \in Seq(Paths) /\ it.left \ {child} \in SUBSET Paths
    BY <1>1, <2>2, StackShape
  <2>7. Harmless(walk(child))
    BY <1>1, <2>6, WalkIsHarmless
  <2> DEFINE h == <<CopyItem(it, child)>>
             u == walk(child)
  <2>8. /\ h \in Seq(Items) /\ \A i \in DOMAIN h : h[i].do \notin Removals
    BY <2>5 DEF Removals
  <2>9. /\ u \in Seq(Items) /\ \A i \in DOMAIN u : u[i].do \notin Removals
    BY <2>7 DEF Harmless
  <2>10. steps = h \o u
    BY <2>1
  <2> HIDE DEF h, u
  <2>11. /\ h \o u \in Seq(Items)
         /\ \A i \in DOMAIN h : (h \o u)[i] = h[i]
         /\ \A i \in DOMAIN u : (h \o u)[Len(h) + i] = u[i]
         /\ \A i \in DOMAIN (h \o u) : i \in DOMAIN h \/ \E k \in DOMAIN u : i = Len(h) + k
    BY <2>8, <2>9, AgendaConcat
  <2> QED
    BY <2>8, <2>9, <2>10, <2>11 DEF Harmless
<1> QED
  BY <1>3, <1>4, <1>5, <1>6 DEF At, Expands

LEMMA WalkStillReaches ==
    ASSUME AsyncTypeOK, script \in Scripts, before \in Trees, NEW t \in Tasks, TaskOK(t),
           at[t] > 0, Unmoved(t), job[t].request.op = "move_dir",
           At(t, {"walk_dir", "walk", "copy_entry"}), NEW steps, Expands(t, steps)
    PROVE  /\ Harmless(steps)
           /\ \A z \in Moved(t) : Reaches(job[t].request, Now(t), z)
                 => \E i \in DOMAIN steps : Reaches(job[t].request, steps[i], z)
<1>1. CASE At(t, {"copy_entry"})
  BY <1>1, CopyEntryReaches, CopyEntryIsHarmless
<1>2. CASE At(t, {"walk_dir", "walk"})
  <2>1. Harmless(steps)
    BY <1>2, WalkingIsHarmless
  <2>2. ASSUME NEW z \in Moved(t), Reaches(job[t].request, Now(t), z)
        PROVE  \E i \in DOMAIN steps : Reaches(job[t].request, steps[i], z)
    <3>1. CASE At(t, {"walk_dir"}) \/ NextListing(t, steps)
      BY <1>2, <2>2, <3>1, ListingReaches DEF At, Expands
    <3>2. CASE At(t, {"walk"}) /\ NextPending(t, steps)
      BY <2>2, <3>2, PendingReaches
    <3>3. CASE At(t, {"walk"}) /\ NextItem(t, steps)
      BY <2>2, <3>3, ItemReaches
    <3> QED
      BY <1>2, <3>1, <3>2, <3>3 DEF At, Expands
  <2> QED
    BY <2>1, <2>2
<1> QED
  BY <1>1, <1>2 DEF At

\* move_dir goes on with its walk.
LEMMA CopyingWalksOn ==
    ASSUME AsyncTypeOK, script \in Scripts, before \in Trees, NEW t \in Tasks, TaskOK(t),
           Turned(t), NEW steps, Expanded(t, steps), Expands(t, steps),
           At(t, {"walk_dir", "walk", "copy_entry"}),
           Alone(t), at[t] > 0, Moved(t) # {}, Copying(t)
    PROVE  Copying(t)'
<1> DEFINE r == job[t].request
           p == r.path
           q == r.dest
           s == job[t].agenda
           u == Tail(s)
           w == steps \o u
<1>1. /\ Asked(t) /\ Apart(p, q) /\ Unmoved(t) /\ r.op \in MovingOps /\ Busy(t)
      /\ job'[t].agenda = w /\ UNCHANGED fsVars
      /\ \A z \in Moved(t) : Arrived(t, z) \/ \E i \in DOMAIN s : Reaches(r, s[i], z)
      /\ \A i \in DOMAIN s :
             /\ s[i].do \notin {"list", "children", "list_empty"}
             /\ s[i].do = "remove_file" => r.op = "move_file" /\ i + 1 = Len(s)
             /\ s[i].do = "remove_dir_all" => r.op = "move_dir" /\ i = Len(s)
  BY DEF Expanded, TaskOK, Copying, Moved, At
<1>2. /\ s[1] = Now(t) /\ Len(s) \in Nat \ {0} /\ u \in Seq(Items)
      /\ Len(u) = Len(s) - 1 /\ DOMAIN u = 1 .. Len(s) - 1
      /\ \A i \in DOMAIN u : u[i] = s[i + 1] /\ i + 1 \in DOMAIN s
      /\ \A i \in DOMAIN s : i = 1 \/ \E k \in DOMAIN u : i = k + 1
  BY <1>1, AgendaGoesOn
<1>3. r.op = "move_dir"
  <2>1. Inside(r, Now(t))
    BY <1>1, NowGuarded DEF TaskOK
  <2> QED
    BY <1>1, <2>1 DEF Inside, At, MovingOps
<1>4. /\ Harmless(steps)
      /\ \A z \in Moved(t) : Reaches(r, Now(t), z) => \E i \in DOMAIN steps : Reaches(r, steps[i], z)
  BY <1>1, <1>3, WalkStillReaches
<1>5. Unmoved(t)'
  BY <1>1, UnmovedStays
<1>6. Expansion(t)
  BY DEF Expansion
<1> HIDE DEF u, s
<1>7. /\ Len(steps) \in Nat /\ Len(u) \in Nat /\ Len(w) = Len(steps) + Len(u)
      /\ \A i \in DOMAIN steps : i \in DOMAIN w /\ w[i] = steps[i]
      /\ \A i \in DOMAIN u : Len(steps) + i \in DOMAIN w /\ w[Len(steps) + i] = u[i]
      /\ \A i \in DOMAIN w : i \in DOMAIN steps \/ \E k \in DOMAIN u : i = Len(steps) + k
  <2>1. steps \in Seq(Items) /\ u \in Seq(Items)
    BY <1>2, <1>4 DEF Harmless
  <2> QED
    BY <2>1, AgendaConcat
<1> HIDE DEF w
<1>8. ASSUME NEW z \in Moved(t)
      PROVE  Arrived(t, z)' \/ \E i \in DOMAIN w : Reaches(r, w[i], z)
  <2>1. CASE Arrived(t, z)
    BY <1>1, <1>6, <2>1, ArrivedStays
  <2>2. CASE Reaches(r, Now(t), z)
    BY <1>4, <1>7, <2>2
  <2>3. ASSUME NEW k \in DOMAIN u, Reaches(r, u[k], z) PROVE \E i \in DOMAIN w : Reaches(r, w[i], z)
    BY <1>7, <2>3
  <2> QED
    BY <1>1, <1>2, <2>1, <2>2, <2>3
<1>9. ASSUME NEW i \in DOMAIN w
      PROVE  /\ w[i].do \notin {"list", "children", "list_empty"}
             /\ w[i].do = "remove_file" => r.op = "move_file" /\ i + 1 = Len(w)
             /\ w[i].do = "remove_dir_all" => r.op = "move_dir" /\ i = Len(w)
  <2>1. CASE i \in DOMAIN steps
    BY <1>4, <1>7, <2>1 DEF Harmless, Removals
  <2>2. ASSUME NEW k \in DOMAIN u, i = Len(steps) + k
        PROVE  /\ w[i].do \notin {"list", "children", "list_empty", "remove_file"}
               /\ w[i].do = "remove_dir_all" => i = Len(w)
    <3>1. w[i] = u[k] /\ u[k] = s[k + 1] /\ k + 1 \in DOMAIN s
      BY <1>2, <1>7, <2>2
    <3>2. /\ k \in 1 .. Len(s) - 1 /\ i = Len(steps) + k /\ Len(w) = Len(steps) + (Len(s) - 1)
          /\ Len(s) \in Nat /\ Len(steps) \in Nat
      BY <1>2, <1>7, <2>2
    <3>3. k + 1 = Len(s) => i = Len(w)
      BY <3>2
    <3> QED
      BY <1>1, <1>3, <3>1, <3>3
  <2> QED
    BY <1>3, <1>7, <2>1, <2>2
<1> QED
  BY <1>1, <1>5, <1>8, <1>9, CopyingAfter

\* What a removal puts in its place only removes.
OnlyRemoves(steps) == steps \in Seq(Items) /\ \A i \in DOMAIN steps : steps[i].do \in Removals

LEMMA RemovesConcat ==
    ASSUME NEW h, NEW m, OnlyRemoves(h), OnlyRemoves(m)
    PROVE  OnlyRemoves(h \o m)
<1>1. h \in Seq(Items) /\ m \in Seq(Items)
  BY DEF OnlyRemoves
<1>2. /\ h \o m \in Seq(Items)
      /\ \A i \in DOMAIN h : (h \o m)[i] = h[i]
      /\ \A i \in DOMAIN m : (h \o m)[Len(h) + i] = m[i]
      /\ \A i \in DOMAIN (h \o m) : i \in DOMAIN h \/ \E k \in DOMAIN m : i = Len(h) + k
  BY <1>1, AgendaConcat
<1> QED
  BY <1>2 DEF OnlyRemoves

LEMMA RemovesOne ==
    ASSUME NEW it \in Items, it.do \in Removals
    PROVE  OnlyRemoves(<<it>>)
<1>1. <<it>> \in Seq(Items) /\ DOMAIN <<it>> = {1} /\ <<it>>[1] = it
  OBVIOUS
<1> QED
  BY <1>1 DEF OnlyRemoves

LEMMA RemovesNone == OnlyRemoves(<< >>)
<1>1. << >> \in Seq(Items) /\ DOMAIN << >> = {}
  BY EmptySeq
<1> QED
  BY <1>1 DEF OnlyRemoves

LEMMA EmptyingRemoves ==
    ASSUME AsyncTypeOK, NEW t \in Tasks, At(t, Emptyings), NEW steps, Expands(t, steps)
    PROVE  OnlyRemoves(steps)
<1> DEFINE it == Now(t)
           p == it.path
<1>1. Busy(t) /\ it.do \in Emptyings /\ p \in Paths /\ it.left \in SUBSET Paths
  BY NowTypes DEF At
<1>2. ASSUME NEW do \in Removals, NEW x \in Paths PROVE OnlyRemoves(<<Do(do, x)>>)
  <2>1. Do(do, x) \in Items /\ Do(do, x).do = do
    BY <1>2, DoItem DEF Removals, Steps
  <2> QED
    BY <1>2, <2>1, RemovesOne
<1>3. ASSUME NEW left \in SUBSET Paths PROVE OnlyRemoves(Rest(p, left))
  <2>1. CASE left = {}
    BY <2>1, RemovesNone DEF Rest
  <2>2. CASE left # {}
    <3> DEFINE m == [Do("children", p) EXCEPT !.left = left]
    <3>1. m \in Items /\ m.do = "children"
      <4>1. Do("children", p) \in Items /\ Do("children", p).do = "children"
        BY <1>1, DoItem DEF Steps
      <4> QED
        BY <4>1 DEF Items
    <3>2. Rest(p, left) = <<m>>
      BY <2>2 DEF Rest
    <3> HIDE DEF m
    <3>3. m.do \in Removals
      BY <3>1 DEF Removals
    <3> QED
      BY <3>1, <3>2, <3>3, RemovesOne
  <2> QED
    BY <2>1, <2>2
<1> HIDE DEF p
<1>4. CASE it.do = "remove_dir_all"
  <2>1. OnlyRemoves(RemoveDirSteps(p))
    <3>1. RemoveDirSteps(p) = <<Do("list_empty", p)>> \o <<Do("remove_file", p)>>
      BY DEF RemoveDirSteps
    <3>2. OnlyRemoves(<<Do("list_empty", p)>>) /\ OnlyRemoves(<<Do("remove_file", p)>>)
      BY <1>1, <1>2 DEF Removals, p
    <3> QED
      BY <3>1, <3>2, RemovesConcat
  <2>2. OnlyRemoves(<<Do("list", p)>>)
    BY <1>1, <1>2 DEF Removals, p
  <2>3. steps = (<<Do("list", p)>> \o RemoveDirSteps(p)) \/ steps = << >>
    BY <1>4 DEF Expands, p
  <2> QED
    BY <2>1, <2>2, <2>3, RemovesConcat, RemovesNone
<1>5. CASE it.do = "list"
  <2>1. steps = Rest(p, Children(files, p)) /\ Children(files, p) \in SUBSET Paths
    BY <1>5 DEF Expands, Children, p
  <2> QED
    BY <1>3, <2>1
<1>6. CASE it.do = "children"
  <2>1. PICK child \in it.left :
           steps = <<Do(IF IsFile(files, child) THEN "remove_file" ELSE "remove_dir_all", child)>>
                   \o Rest(p, it.left \ {child})
    BY <1>6 DEF Expands, NextRemoval, p
  <2>2. PICK do \in Removals : steps = <<Do(do, child)>> \o Rest(p, it.left \ {child})
    BY <2>1 DEF Removals
  <2>3. child \in Paths /\ it.left \ {child} \in SUBSET Paths
    BY <1>1
  <2>4. OnlyRemoves(<<Do(do, child)>>) /\ OnlyRemoves(Rest(p, it.left \ {child}))
    BY <1>2, <1>3, <2>3
  <2> QED
    BY <2>2, <2>4, RemovesConcat
<1> QED
  BY <1>1, <1>4, <1>5, <1>6 DEF Emptyings

\* move_dir has copied everything when it begins to remove its source.
LEMMA CopyingEmpties ==
    ASSUME AsyncTypeOK, script \in Scripts, before \in Trees, NEW t \in Tasks, TaskOK(t),
           Turned(t), NEW steps, Expanded(t, steps), Expands(t, steps),
           ~At(t, {"walk_dir", "walk", "copy_entry"}),
           Alone(t), at[t] > 0, Moved(t) # {}, Copying(t)
    PROVE  Leaving(t)'
<1> DEFINE r == job[t].request
           s == job[t].agenda
           u == Tail(s)
           w == steps \o u
<1>1. /\ Apart(r.path, r.dest) /\ Busy(t) /\ job'[t].agenda = w
      /\ At(t, Expanding)
      /\ \A z \in Moved(t) : Arrived(t, z) \/ \E i \in DOMAIN s : Reaches(r, s[i], z)
      /\ \A i \in DOMAIN s :
             /\ s[i].do \notin {"list", "children", "list_empty"}
             /\ s[i].do = "remove_dir_all" => r.op = "move_dir" /\ i = Len(s)
  BY DEF Expanded, Copying, At
<1>2. /\ s[1] = Now(t) /\ Len(s) \in Nat \ {0} /\ u \in Seq(Items) /\ DOMAIN s = 1 .. Len(s)
      /\ DOMAIN u = 1 .. Len(s) - 1
      /\ \A i \in DOMAIN s : i = 1 \/ \E k \in DOMAIN u : i = k + 1
  BY <1>1, AgendaGoesOn
<1> HIDE DEF u, s
<1>3. 1 \in DOMAIN s
  BY <1>2
<1>4. Now(t).do = "remove_dir_all" /\ r.op = "move_dir" /\ 1 = Len(s)
  BY <1>1, <1>2, <1>3 DEF At, Expanding, Emptyings
<1>5. \A k : k \notin DOMAIN u
  <2>1. DOMAIN u = 1 .. 1 - 1
    BY <1>2, <1>4
  <2> QED
    BY <2>1
<1>6. steps \in Seq(Items) /\ \A i \in DOMAIN steps : steps[i].do \in Removals
  <2>1. At(t, Emptyings)
    BY <1>1, <1>4 DEF At, Emptyings
  <2> QED
    BY <2>1, EmptyingRemoves DEF OnlyRemoves
<1>7. \A i \in DOMAIN w : i \in DOMAIN steps /\ w[i] = steps[i]
  <2>1. steps \in Seq(Items) /\ u \in Seq(Items)
    BY <1>2, <1>6
  <2>2. /\ \A i \in DOMAIN steps : w[i] = steps[i]
        /\ \A i \in DOMAIN w : i \in DOMAIN steps \/ \E k \in DOMAIN u : i = Len(steps) + k
    BY <2>1, AgendaConcat
  <2> QED
    BY <1>5, <2>2
<1> HIDE DEF w
<1>8. ASSUME NEW z \in Moved(t) PROVE Arrived(t, z)'
  <2>1. ~Reaches(r, Now(t), z)
    BY <1>4 DEF Reaches
  <2>2. Arrived(t, z)
    BY <1>1, <1>2, <1>5, <2>1
  <2>3. Expansion(t)
    BY DEF Expansion
  <2> QED
    BY <1>1, <2>2, <2>3, ArrivedStays
<1> QED
  BY <1>1, <1>4, <1>6, <1>7, <1>8, LeavingAfter

-----------------------------------------------------------------------------
(* Where a move that nobody disturbs gets to.                               *)

LEMMA CopyingMoves ==
    ASSUME AsyncTypeOK, script \in Scripts, before \in Trees, NEW t \in Tasks, TaskOK(t),
           Outcome(t) \/ Expansion(t), Alone(t), at[t] > 0, Moved(t) # {}, Copying(t)
    PROVE  Copying(t)' \/ GivenUp(t)' \/ Leaving(t)'
<1>1. Turned(t) /\ Unmoved(t) /\ Apart(job[t].request.path, job[t].request.dest)
  BY DEF Outcome, Expansion, Copying
<1>2. CASE GaveUp(t)
  BY <1>1, <1>2, MoveGivesUp
<1>3. CASE Expansion(t) /\ ~GaveUp(t)
  <2>1. PICK steps : Expanded(t, steps) /\ Expands(t, steps)
    BY <1>3 DEF Expansion
  <2> QED
    BY <1>1, <2>1, CopyingWalksOn, CopyingEmpties
<1>4. CASE Outcome(t) /\ ~GaveUp(t)
  <2>1. Busy(t)
    BY <1>4 DEF Outcome, Looked, MadeDir, MadeFile, Opened, Filled, Dropped, Removed, At
  <2>2. CASE At(t, {"remove_file"})
    <3>1. Removed(t)
      BY <1>4, <2>2 DEF Outcome, Looked, MadeDir, MadeFile, Opened, Filled, Dropped, At, Looks
    <3> QED
      BY <1>1, <3>1, CopyingRemoves
  <2> QED
    BY <1>4, <2>1, <2>2, CopyingGoesOn
<1> QED
  BY <1>2, <1>3, <1>4

LEMMA GivenUpMoves ==
    ASSUME AsyncTypeOK, NEW t \in Tasks, TaskOK(t), Outcome(t) \/ Expansion(t),
           Moved(t) # {}, GivenUp(t)
    PROVE  GivenUp(t)'
<1> DEFINE r == job[t].request
           s == job[t].agenda
           u == Tail(s)
<1>1. /\ Turned(t) /\ Guarded(t) /\ Unmoved(t) /\ r.op \in MovingOps
      /\ \A i \in DOMAIN s : s[i].do = "drop" /\ Apart(r.path, r.dest)
  BY DEF Outcome, Expansion, TaskOK, GivenUp, Moved
<1>2. Busy(t)
  BY DEF Outcome, Expansion, GaveUp, Looked, MadeDir, MadeFile, Opened, Filled, Dropped,
         Removed, Expanded, At
<1>3. /\ s[1] = Now(t) /\ Len(s) \in Nat \ {0} /\ DOMAIN s = 1 .. Len(s)
      /\ \A i \in DOMAIN u : u[i] = s[i + 1] /\ i + 1 \in DOMAIN s
  BY <1>2, AgendaGoesOn
<1> HIDE DEF s, u
<1>4. Now(t).do = "drop" /\ Apart(r.path, r.dest)
  <2>1. 1 \in DOMAIN s
    BY <1>3
  <2> QED
    BY <1>1, <1>3, <2>1
<1>5. Dropped(t)
  BY <1>4 DEF Outcome, Expansion, GaveUp, Looked, MadeDir, MadeFile, Opened, Filled, Removed,
              Expanded, At, Looks, Expanding, Emptyings
<1>6. job'[t].agenda = u
  BY <1>5 DEF Dropped, WentOn, u, s
<1>7. Unmoved(t)'
  BY <1>1, <1>4, MakingKeepsUnmoved DEF At
<1>8. \A i \in DOMAIN u : u[i].do = "drop" /\ Apart(r.path, r.dest)
  BY <1>1, <1>3
<1> QED
  BY <1>1, <1>6, <1>7, <1>8, GivenUpAfter

LEMMA LeavingMoves ==
    ASSUME AsyncTypeOK, script \in Scripts, before \in Trees, NEW t \in Tasks, TaskOK(t),
           Outcome(t) \/ Expansion(t), Alone(t), at[t] > 0, Moved(t) # {}, Leaving(t)
    PROVE  Leaving(t)'
<1> DEFINE r == job[t].request
           s == job[t].agenda
           u == Tail(s)
<1>1. /\ Turned(t) /\ Guarded(t) /\ HandleOK(t) /\ Apart(r.path, r.dest)
      /\ \A z \in Moved(t) : Arrived(t, z) \/ InHandle(t, z)
      /\ \A i \in DOMAIN s : \/ r.op = "move_file" /\ s[i].do = "drop"
                             \/ r.op = "move_dir" /\ s[i].do \in Removals
  BY DEF Outcome, Expansion, TaskOK, Leaving
<1>2. Busy(t)
  BY DEF Outcome, Expansion, GaveUp, Looked, MadeDir, MadeFile, Opened, Filled, Dropped,
         Removed, Expanded, At
<1>3. /\ s[1] = Now(t) /\ Len(s) \in Nat \ {0} /\ DOMAIN s = 1 .. Len(s) /\ u \in Seq(Items)
      /\ \A i \in DOMAIN u : u[i] = s[i + 1] /\ i + 1 \in DOMAIN s
  BY <1>2, AgendaGoesOn
<1> HIDE DEF s, u
<1>4. \/ r.op = "move_file" /\ Now(t).do = "drop"
      \/ r.op = "move_dir" /\ Now(t).do \in Removals
  <2>1. 1 \in DOMAIN s
    BY <1>3
  <2> QED
    BY <1>1, <1>3, <2>1
<1>5. CASE r.op = "move_file" /\ Now(t).do = "drop"
  <2>1. Dropped(t)
    BY <1>5 DEF Outcome, Expansion, GaveUp, Looked, MadeDir, MadeFile, Opened, Filled, Removed,
                Expanded, At, Looks, Expanding, Emptyings
  <2>2. job'[t].agenda = u
    BY <2>1 DEF Dropped, WentOn, u, s
  <2>3. ASSUME NEW z \in Moved(t) PROVE Arrived(t, z)'
    <3>1. CASE Arrived(t, z)
      BY <1>1, <3>1, ArrivedStays
    <3>2. CASE InHandle(t, z)
      <4>1. writer[t].path = Now(t).path
        BY <1>1, <3>2, DropsItsPath DEF InHandle
      <4>2. Now(t).path = Rebase(z, r.path, r.dest)
        BY <3>2, <4>1 DEF InHandle
      <4> QED
        BY <1>1, <2>1, <4>2, ArrivedStays
    <3> QED
      BY <1>1, <3>1, <3>2
  <2>4. \A i \in DOMAIN u : r.op = "move_file" /\ u[i].do = "drop"
    BY <1>1, <1>3, <1>5
  <2> QED
    BY <1>1, <2>2, <2>3, <2>4, LeavingAfter
<1>6. CASE r.op = "move_dir" /\ Now(t).do \in Removals
  <2>1. ASSUME NEW z \in Moved(t) PROVE Arrived(t, z)'
    <3>1. ~InHandle(t, z)
      BY <1>6 DEF InHandle, At, Removals
    <3> QED
      BY <1>1, <3>1, ArrivedStays
  <2>2. \A i \in DOMAIN s : s[i].do \in Removals
    BY <1>1, <1>6
  <2>3. OnlyRemoves(u)
    BY <1>3, <2>2 DEF OnlyRemoves
  <2>4. PICK w : job'[t].agenda = w /\ OnlyRemoves(w)
    <3>1. CASE GaveUp(t)
      <4>1. ~writer[t].open
        BY <1>1, <1>6 DEF HandleOK, At, Removals
      <4> QED
        BY <3>1, <4>1, RemovesNone DEF GaveUp
    <3>2. CASE Expansion(t) /\ ~GaveUp(t)
      <4>1. PICK steps : Expanded(t, steps) /\ Expands(t, steps)
        BY <3>2 DEF Expansion
      <4>2. At(t, Emptyings)
        BY <1>6, <4>1 DEF Expanded, At, Expanding, Emptyings, Removals
      <4>3. OnlyRemoves(steps \o u)
        BY <2>3, <4>1, <4>2, EmptyingRemoves, RemovesConcat
      <4> QED
        BY <4>1, <4>3 DEF Expanded, u, s
    <3>3. CASE Outcome(t) /\ ~GaveUp(t)
      <4>1. job'[t].agenda = u
        BY <3>3 DEF Outcome, Looked, MadeDir, MadeFile, Opened, Filled, Dropped, Removed, WentOn,
                    u, s
      <4> QED
        BY <2>3, <4>1
    <3> QED
      BY <3>1, <3>2, <3>3
  <2>5. \A i \in DOMAIN w : r.op = "move_dir" /\ w[i].do \in Removals
    BY <1>6, <2>4 DEF OnlyRemoves
  <2> QED
    BY <1>1, <2>1, <2>4, <2>5, LeavingAfter
<1> QED
  BY <1>4, <1>5, <1>6

LEMMA StepKeepsMoveOK ==
    ASSUME AsyncTypeOK, script \in Scripts, before \in Trees, NEW t \in Tasks, TaskOK(t),
           Outcome(t) \/ Expansion(t)
    PROVE  MoveOK(t)'
<1>1. Turned(t) /\ at' = at
  BY DEF Outcome, Expansion, Turned
<1>2. ASSUME Alone(t), at[t] > 0, Moved(t) # {}
      PROVE  NotBegun(t)' \/ Copying(t)' \/ GivenUp(t)' \/ Leaving(t)'
  <2>1. NotBegun(t) \/ Copying(t) \/ GivenUp(t) \/ Leaving(t)
    BY <1>2 DEF TaskOK, MoveOK
  <2> QED
    BY <1>2, <2>1, MoveBegins, CopyingMoves, GivenUpMoves, LeavingMoves
<1>3. (Alone(t)' <=> Alone(t)) /\ Moved(t)' = Moved(t)
  BY <1>1, MoveStays
<1> QED
  BY <1>1, <1>2, <1>3 DEF MoveOK

LEMMA StepKeepsTask ==
    ASSUME AsyncTypeOK, script \in Scripts, before \in Trees, NEW t \in Tasks, TaskOK(t),
           Outcome(t) \/ Expansion(t)
    PROVE  TaskOK(t)'
<1>1. Asked(t)'
  BY StepKeepsAsked
<1>2. Guarded(t)' /\ HandleOK(t)'
  BY StepGuards
<1>3. Orphanless(t)'
  BY StepKeepsOrphanless
<1>4. MoveOK(t)'
  BY StepKeepsMoveOK
<1> QED
  BY <1>1, <1>2, <1>3, <1>4 DEF TaskOK

-----------------------------------------------------------------------------
(* Beginning a call and dropping it.                                        *)

\* A future is dropped where its call is pending, which is not while a handle is
\* filled or dropped.
LEMMA CancelGivesUp ==
    ASSUME AsyncTypeOK, NEW t \in Tasks, Cancel(t)
    PROVE  Outcome(t)
<1>1. /\ Busy(t) /\ Now(t).do \notin {"fill", "drop"} /\ Abort(t, "Cancelled")
      /\ UNCHANGED fsVars /\ UNCHANGED <<script, at, before>>
  BY DEF Cancel, Suspended
<1>2. Turned(t) /\ GaveUp(t)
  BY <1>1, AbortTurns
<1> QED
  BY <1>2 DEF Outcome

\* Below a path that only the request about to begin may change, nothing has
\* changed yet.
LEMMA NothingHasChanged ==
    ASSUME AsyncTypeOK, script \in Scripts, Untouched, \A u \in Tasks : Asked(u),
           NEW t \in Tasks, NEW p \in Paths,
           \A u \in Tasks : \A i \in DOMAIN script[u] :
              (u = t /\ i = at[t] + 1) \/ \A x \in Reach(script[u][i]) : ~Below(x, p),
           NEW x \in Paths, Below(x, p)
    PROVE  files[x] = before[x]
<1>1. SUFFICES ASSUME files[x] # before[x] PROVE FALSE
  OBVIOUS
<1> PICK u \in Tasks : \E i \in 1 .. at[u] : x \in Reach(script[u][i])
  BY <1>1 DEF Untouched
<1>2. PICK i \in 1 .. at[u] : x \in Reach(script[u][i])
  OBVIOUS
<1>3. script[u] \in Seq(Requests) /\ at[u] \in 0 .. Len(script[u]) /\ at[t] \in Nat
  BY ScriptsAssumption DEF Asked, AsyncTypeOK
<1>4. i \in DOMAIN script[u] /\ ~(u = t /\ i = at[t] + 1)
  <2>1. Len(script[u]) \in Nat /\ DOMAIN script[u] = 1 .. Len(script[u])
    BY <1>3, LenProperties
  <2> QED
    BY <1>2, <1>3, <2>1
<1> QED
  BY <1>2, <1>4

LEMMA StartJob ==
    ASSUME AsyncTypeOK, script \in Scripts, NEW t \in Tasks, Start(t)
    PROVE  LET r == script[t][at[t] + 1] IN
           /\ r \in Requests /\ at[t] + 1 \in DOMAIN script[t]
           /\ job' = [job EXCEPT ![t] = Job(r, StepsOf(r))]
           /\ job'[t].request = r /\ job'[t].agenda = StepsOf(r)
           /\ at' = [at EXCEPT ![t] = at[t] + 1] /\ at'[t] = at[t] + 1
           /\ Sound(r, StepsOf(r)) /\ StepsOf(r) \in Seq(Items)
<1> DEFINE r == script[t][at[t] + 1]
<1>1. script[t] \in Seq(Requests) /\ at[t] \in Nat /\ at[t] < Len(script[t]) /\ at \in [Tasks -> Nat]
  BY ScriptsAssumption DEF Start, AsyncTypeOK
<1>2. at[t] + 1 \in DOMAIN script[t]
  BY <1>1, LenProperties
<1>3. r \in Requests
  BY <1>1, <1>2, ElementOfSeq
<1>4. /\ job' = [job EXCEPT ![t] = Job(r, StepsOf(r))]
      /\ at' = [at EXCEPT ![t] = at[t] + 1] /\ at'[t] = at[t] + 1
  BY <1>1 DEF Start
<1> HIDE DEF r
<1>5. job'[t] = Job(r, StepsOf(r))
  BY <1>4, JobTypes
<1>6. Sound(r, StepsOf(r))
  BY <1>3, StepsOfAreSound
<1>7. StepsOf(r) \in Seq(Items)
  BY <1>6, FittingIsItems DEF Sound
<1> QED
  BY <1>2, <1>3, <1>4, <1>5, <1>6, <1>7 DEF Job, r

LEMMA StartTypes ==
    ASSUME AsyncTypeOK, script \in Scripts, NEW t \in Tasks, Start(t)
    PROVE  AsyncTypeOK'
<1> DEFINE r == script[t][at[t] + 1]
<1>1. /\ r \in Requests /\ job' = [job EXCEPT ![t] = Job(r, StepsOf(r))]
      /\ at' = [at EXCEPT ![t] = at[t] + 1] /\ StepsOf(r) \in Seq(Items)
  BY StartJob
<1>2. UNCHANGED fsVars /\ at \in [Tasks -> Nat]
  BY DEF Start, AsyncTypeOK
<1> HIDE DEF r
<1>3. r.data \in Contents /\ << >> \in Seq(Paths) /\ "Ok" \in Codes \cup {"Cancelled"}
  BY <1>1, EmptySeq DEF Requests, Codes
<1>4. Job(r, StepsOf(r)) \in Jobs
  BY <1>1, <1>3 DEF Job, Jobs
<1>5. job' \in [Tasks -> Jobs]
  BY <1>1, <1>4, JobTypes
<1>6. at' \in [Tasks -> Nat]
  BY <1>1, <1>2
<1> QED
  BY <1>2, <1>5, <1>6 DEF AsyncTypeOK, FsTypeOK, fsVars, Jobs

LEMMA StartGuards ==
    ASSUME AsyncTypeOK, script \in Scripts, NEW t \in Tasks, Start(t), Asked(t), HandleOK(t)
    PROVE  Asked(t)' /\ Guarded(t)' /\ HandleOK(t)'
<1> DEFINE r == script[t][at[t] + 1]
<1>1. /\ at[t] + 1 \in DOMAIN script[t] /\ at'[t] = at[t] + 1
      /\ job'[t].request = r /\ job'[t].agenda = StepsOf(r)
      /\ Sound(r, StepsOf(r))
  BY StartJob
<1>2. script[t] \in Seq(Requests) /\ at[t] \in Nat
  BY ScriptsAssumption DEF AsyncTypeOK
<1>3. at[t] + 1 \in 1 .. Len(script[t]) /\ Len(script[t]) \in Nat
  BY <1>1, <1>2, LenProperties
<1>4. UNCHANGED fsVars /\ script' = script /\ ~Busy(t)
  BY DEF Start
<1> HIDE DEF r
<1>5. Asked(t)'
  <2>1. at'[t] \in 0 .. Len(script'[t]) /\ at'[t] > 0
    BY <1>1, <1>2, <1>3, <1>4
  <2>2. job'[t].request = script'[t][at'[t]]
    BY <1>1, <1>4 DEF r
  <2> QED
    BY <2>1, <2>2 DEF Asked
<1>6. Guarded(t)'
  <2>1. /\ job'[t].agenda \in Seq(Fitting(job'[t].request))
        /\ Together(job'[t].request, job'[t].agenda)
        /\ \A i \in DOMAIN job'[t].agenda : \A c \in Needed(job'[t].request, job'[t].agenda[i]) :
              Led(job'[t].request, job'[t].agenda, i, c)
    BY <1>1 DEF Sound
  <2> QED
    BY <2>1 DEF Guarded
<1>7. HandleOK(t)'
  <2>1. ~writer[t].open
    BY <1>4 DEF HandleOK, At
  <2> QED
    BY <1>4, <2>1 DEF HandleOK, fsVars
<1> QED
  BY <1>5, <1>6, <1>7

LEMMA StartFresh ==
    ASSUME AsyncTypeOK, script \in Scripts, before \in Trees, Untouched,
           \A u \in Tasks : Asked(u), NEW t \in Tasks, Start(t)
    PROVE  Orphanless(t)' /\ MoveOK(t)'
<1>1. PICK r \in Requests : /\ at'[t] = at[t] + 1
                           /\ job'[t].request = r /\ job'[t].agenda = StepsOf(r)
  BY StartJob
<1> DEFINE p == r.path
           q == r.dest
<1>2. files' = files /\ script' = script /\ before' = before
  BY DEF Start, fsVars
<1>3. p \in Paths /\ q \in Paths /\ p \in AnyPath /\ q \in AnyPath
  BY PathsAreSequences DEF Requests
<1>4. ASSUME NEW d \in Paths, Undisturbed(t, d)', NEW x \in Paths, Below(x, d)
      PROVE  files[x] = before[x]
  <2>1. \A u \in Tasks : \A i \in DOMAIN script[u] :
              (u = t /\ i = at[t] + 1) \/ \A y \in Reach(script[u][i]) : ~Below(y, d)
    BY <1>1, <1>2, <1>4 DEF Undisturbed
  <2> QED
    BY <1>4, <2>1, NothingHasChanged
<1>5. Orphanless(t)'
  <2>1. ASSUME Undisturbed(t, p)', NEW x \in Paths, x # p, Below(x, p), Exists(files, x)
        PROVE  IsDirectory(files, Parent(x))
    <3>1. x # Root /\ Parent(x) \in Paths /\ Below(Parent(x), p)
      BY <1>3, <2>1, ParentBelow, PathsAssumption, PathsAreSequences
    <3>2. files[x] = before[x] /\ files[Parent(x)] = before[Parent(x)]
      BY <1>3, <1>4, <2>1, <3>1
    <3>3. IsTree(before)
      BY TreesAssumption
    <3> QED
      BY <2>1, <3>1, <3>2, <3>3 DEF IsTree, Exists, IsDirectory
  <2>2. Undisturbed(t, job[t].request.path)' => Undisturbed(t, p)'
    BY <1>1 DEF Undisturbed
  <2> QED
    BY <1>1, <1>2, <2>1, <2>2 DEF Orphanless
<1>6. MoveOK(t)'
  <2>1. ASSUME Alone(t)' PROVE NotBegun(t)'
    <3>1. Undisturbed(t, p)' /\ Undisturbed(t, q)'
      BY <1>1, <2>1 DEF Alone, Undisturbed
    <3>2. files[q] = before[q]
      BY <1>3, <1>4, <3>1, BelowItself
    <3>3. \A x \in Paths : Below(x, p) => files[x] = before[x]
      BY <1>3, <1>4, <3>1
    <3> QED
      BY <1>1, <1>2, <3>2, <3>3 DEF NotBegun, Unmoved
  <2> QED
    BY <2>1 DEF MoveOK
<1> QED
  BY <1>5, <1>6

-----------------------------------------------------------------------------
(* The invariant holds.                                                     *)

LEMMA InitAInv == Init => AInv
<1> SUFFICES ASSUME Init PROVE AInv
  OBVIOUS
<1>1. /\ files \in Trees /\ before = files /\ script \in Scripts
      /\ writer = [t \in Tasks |-> ClosedHandle]
      /\ at = [t \in Tasks |-> 0] /\ job = [t \in Tasks |-> Idle]
  BY DEF Init
<1>2. << >> \in Seq(Items) /\ << >> \in Seq(Paths) /\ << >> \in Contents
      /\ DOMAIN << >> = {} /\ \A S : << >> \in Seq(S)
  BY EmptySeq, EmptyContent
<1>3. Idle \in Jobs /\ Idle.agenda = << >>
  <2> DEFINE r == [op |-> "create_dir", path |-> Root, dest |-> Root, data |-> << >>]
  <2>1. r \in Requests /\ r.data \in Contents
    BY <1>2, PathsAssumption DEF Requests, AsyncOps
  <2>2. Idle = Job(r, << >>)
    BY DEF Idle
  <2> HIDE DEF r
  <2> QED
    BY <1>2, <2>1, <2>2 DEF Job, Jobs, Codes
<1>4. AsyncTypeOK
  <2>1. files \in Maps /\ writer \in [Tasks -> Handles(Nat)]
    BY <1>1, TreesAssumption, EntryTypes
  <2>2. job \in [Tasks -> Jobs] /\ at \in [Tasks -> Nat]
    BY <1>1, <1>3
  <2> QED
    BY <2>1, <2>2 DEF AsyncTypeOK, FsTypeOK, Jobs
<1>5. Untouched
  BY <1>1 DEF Untouched
<1>6. ASSUME NEW t \in Tasks PROVE TaskOK(t)
  <2>1. job[t].agenda = << >> /\ at[t] = 0 /\ ~writer[t].open /\ ~(at[t] > 0)
    BY <1>1, <1>3 DEF ClosedHandle
  <2>2. Asked(t)
    <3>1. script[t] \in Seq(Requests)
      BY <1>1, ScriptsAssumption
    <3>2. Len(script[t]) \in Nat
      BY <3>1, LenProperties
    <3> QED
      BY <2>1, <3>2 DEF Asked, Busy
  <2>3. Guarded(t)
    BY <1>2, <2>1 DEF Guarded, Together
  <2> QED
    BY <2>1, <2>2, <2>3 DEF TaskOK, HandleOK, Orphanless, MoveOK
<1> QED
  BY <1>1, <1>4, <1>5, <1>6 DEF AInv

LEMMA StartKeepsAInv ==
    ASSUME AInv, NEW t \in Tasks, Start(t)
    PROVE  AInv'
<1>1. AsyncTypeOK /\ script \in Scripts /\ before \in Trees /\ Untouched
  BY DEF AInv
<1>2. \A u \in Tasks : TaskOK(u) /\ Asked(u) /\ HandleOK(u)
  BY DEF AInv, TaskOK
<1>3. AsyncTypeOK'
  BY <1>1, StartTypes
<1>4. TaskOK(t)'
  BY <1>1, <1>2, StartGuards, StartFresh DEF TaskOK
<1>5. ASSUME NEW u \in Tasks, u # t PROVE TaskOK(u)'
  <2>1. job \in [Tasks -> Jobs] /\ at \in [Tasks -> Nat]
    BY <1>1, JobTypes DEF AsyncTypeOK
  <2>2. Stays(u)
    BY <1>5, <2>1 DEF Start, Stays, fsVars
  <2> QED
    BY <1>1, <1>2, <2>2, OthersStay
<1>6. Untouched'
  <2>1. /\ files' = files /\ before' = before /\ script' = script
        /\ \A u \in Tasks : at[u] \in Nat /\ (at'[u] = at[u] \/ at'[u] = at[u] + 1)
    BY <1>1 DEF Start, fsVars, AsyncTypeOK
  <2>2. \A u \in Tasks : \A i \in 1 .. at[u] : i \in 1 .. at'[u]
    BY <2>1
  <2> QED
    BY <1>1, <2>1, <2>2 DEF Untouched
<1>7. script' \in Scripts /\ before' \in Trees
  BY <1>1 DEF Start
<1> QED
  BY <1>3, <1>4, <1>5, <1>6, <1>7 DEF AInv

LEMMA TurnKeepsAInv ==
    ASSUME AInv, NEW t \in Tasks, Outcome(t) \/ Expansion(t)
    PROVE  AInv'
<1>1. AsyncTypeOK /\ script \in Scripts /\ before \in Trees /\ Untouched
  BY DEF AInv
<1>2. \A u \in Tasks : TaskOK(u)
  BY DEF AInv
<1>3. AsyncTypeOK'
  BY <1>1, <1>2, StepTypes
<1>4. TaskOK(t)'
  BY <1>1, <1>2, StepKeepsTask
<1>5. ASSUME NEW u \in Tasks, u # t PROVE TaskOK(u)'
  <2>1. Stays(u)
    BY <1>1, <1>2, <1>5, StepLeavesOthers
  <2> QED
    BY <1>1, <1>2, <2>1, OthersStay
<1>6. Untouched'
  BY <1>1, <1>2, StepKeepsUntouched
<1>7. script' = script /\ before' = before
  BY DEF Outcome, Expansion, Turned
<1> QED
  BY <1>1, <1>3, <1>4, <1>5, <1>6, <1>7 DEF AInv

LEMMA NextKeepsAInv == AInv /\ [Next]_asyncVars => AInv'
<1> SUFFICES ASSUME AInv, [Next]_asyncVars PROVE AInv'
  OBVIOUS
<1>1. AsyncTypeOK
  BY DEF AInv
<1>2. ASSUME NEW t \in Tasks, Start(t) PROVE AInv'
  BY <1>2, StartKeepsAInv
<1>3. ASSUME NEW t \in Tasks, Step(t) PROVE AInv'
  BY <1>1, <1>3, StepsTurn, TurnKeepsAInv
<1>4. ASSUME NEW t \in Tasks, Cancel(t) PROVE AInv'
  BY <1>1, <1>4, CancelGivesUp, TurnKeepsAInv
<1>5. CASE UNCHANGED asyncVars
  <2>1. UNCHANGED fsVars /\ UNCHANGED <<script, at, job, before>>
    BY <1>5 DEF asyncVars
  <2>2. \A t \in Tasks : Stays(t)
    BY <2>1 DEF Stays, fsVars
  <2>3. \A t \in Tasks : TaskOK(t)'
    BY <1>1, <2>2, OthersStay DEF AInv
  <2>4. AsyncTypeOK'
    BY <1>1, <2>1 DEF AsyncTypeOK, FsTypeOK, fsVars
  <2>5. Untouched'
    BY <2>1 DEF AInv, Untouched, fsVars
  <2> QED
    BY <2>1, <2>3, <2>4, <2>5 DEF AInv
<1> QED
  BY <1>2, <1>3, <1>4, <1>5 DEF Next

\* The invariant that the two theorems below rest on: whatever the tasks ask and
\* wherever their calls are dropped, each step that needs a check comes after
\* it, an open handle is filled and dropped before its call ends, and a move
\* that nobody disturbs has copied what it removes.
THEOREM AInvHolds == Spec => []AInv
<1>1. Init => AInv
  BY InitAInv
<1>2. AInv /\ [Next]_asyncVars => AInv'
  BY NextKeepsAInv
<1> QED
  BY <1>1, <1>2, PTL DEF Spec

LEMMA AInvMoves == AInv => AsyncInv
<1> SUFFICES ASSUME AInv PROVE AsyncInv
  OBVIOUS
<1>1. AsyncTypeOK
  BY DEF AInv
<1>2. ASSUME NEW t \in Tasks, at[t] > 0, job[t].request.op \in MovingOps, Alone(t),
             NEW s \in Paths, Below(s, job[t].request.path), IsFile(before, s),
             ~(job[t].request.op = "move_dir" /\ s = job[t].request.path)
      PROVE  files[s] = before[s] \/ Arrived(t, s) \/ InHandle(t, s)
  <2>1. s \in Moved(t)
    BY <1>2 DEF Moved
  <2>2. NotBegun(t) \/ Copying(t) \/ GivenUp(t) \/ Leaving(t)
    BY <1>2, <2>1 DEF AInv, TaskOK, MoveOK
  <2>3. CASE Unmoved(t)
    BY <1>2, <2>3 DEF Unmoved
  <2>4. CASE Leaving(t)
    BY <2>1, <2>4 DEF Leaving
  <2> QED
    BY <2>2, <2>3, <2>4 DEF NotBegun, Copying, GivenUp
<1>3. MovedIsSomewhere
  BY <1>2 DEF MovedIsSomewhere, Arrived, InHandle
<1> QED
  BY <1>1, <1>3 DEF AsyncInv

\* No file is lost on the way while move_file or move_dir moves it, whichever of
\* its awaits the call fails or is dropped at: it is whole at its old place, at
\* its new one or in the handle about to publish it (src/async_vfs/path.rs).
THEOREM MovesLoseNothing == Spec => []AsyncInv
<1>1. AInv => AsyncInv
  BY AInvMoves
<1> QED
  BY <1>1, AInvHolds, PTL

\* remove_dir_all, and the one that ends a move_dir, never removes a directory
\* before what is in it, and so leaves a tree wherever it fails or is dropped.
THEOREM RemovalsKeepTree == Spec => []RemovalsLeaveNoOrphans
<1>1. AInv => RemovalsLeaveNoOrphans
  BY DEF AInv, TaskOK, Orphanless, RemovalsLeaveNoOrphans
<1> QED
  BY <1>1, AInvHolds, PTL

=============================================================================
