----------------------------- MODULE PhysicalClients -----------------------------
(***************************************************************************)
(* Threads and async tasks of one process that work on one directory of the *)
(* disk, through a PhysicalFS or an AsyncPhysicalFS                         *)
(* (src/async_vfs/impls/physical.rs) and through an altroot in it.  A step  *)
(* is one call of the operating system.                                     *)
(*                                                                         *)
(* AsyncPhysicalFS hands each call to a pool of threads and awaits it there. *)
(* When the caller drops the future the call in the pool is not withdrawn:   *)
(* it takes effect whenever it likes, also after calls that came later.      *)
(* The process may die at any moment, with everything but the disk, and its  *)
(* successor goes on with the requests that were not begun.                  *)
(***************************************************************************)
EXTENDS AltrootFS

CONSTANTS
    Tasks,      \* threads and async tasks
    Async,      \* those that are async
    Straggler,  \* [Async -> names]: who finishes what a task has left in the pool
    Scripts,    \* what the tasks may do: [Tasks -> Seq(Requests)]
    Trees       \* what may be on the disk at the start

ClientOps == {"create_dir", "create_dir_all", "write_file", "append_file", "open_file",
              "metadata", "exists", "read_dir", "set_time", "set_time_elsewhere",
              "remove_file", "remove_dir", "remove_dir_all",
              "copy_file", "move_file", "copy_dir", "move_dir"}

CopyingOps == {"copy_file", "move_file", "copy_dir", "move_dir"}

\* dest matters to the copying and moving methods, data to write_file and
\* append_file, in which the client writes it to the handle at once.
Requests == [op : ClientOps, path : Places, dest : Places, data : Contents]

Actors == Tasks \cup {Straggler[t] : t \in Async}

ASSUME TasksAssumption ==
    /\ Async \subseteq Tasks
    /\ \A t \in Async : Straggler[t] \notin Tasks
    /\ \A t, u \in Async : Straggler[t] = Straggler[u] => t = u
ASSUME ScriptsAssumption == Scripts \subseteq [Tasks -> Seq(Requests)]
\* What a client means by a path.
Named(h) == PhysRoot \o (IF h.fs = "altroot" THEN AltRoot ELSE Root) \o h.path

\* Bound: what a request copies or moves stays among the paths of the model, and
\* so nothing is copied or moved into itself.
ASSUME MovesAssumption ==
    \A s \in Scripts : \A t \in Tasks : \A i \in DOMAIN s[t] :
        s[t][i].op \in CopyingOps =>
            LET p == Named(s[t][i].path)
                q == Named(s[t][i].dest)
            IN /\ Below(q, p) => q = p
               /\ \A x \in Paths : Below(x, p) => Rebase(x, p, q) \in Paths

ASSUME TreesAssumption == Trees \subseteq Maps /\ \A f \in Trees : IsTree(f)

VARIABLES
    disk,       \* what is on the disk
    hold,       \* per actor, the files it has open: to read from and to write to
    script,     \* the tasks' scripts, fixed at the start
    at,         \* per task, how many of its requests it has begun
    job,        \* per actor, the request it is in and what is left of it
    died,       \* whether the process has died; bound: once
    before      \* history: the disk at the start

vars == <<disk, hold, script, at, job, died, before>>

\* The steps each request begins with.
StepsOf(r) ==
    CASE r.op = "create_dir"     -> CreateDirSteps(r.path)
      [] r.op = "create_dir_all" -> CreateDirAllSteps(r.path)
      [] r.op = "write_file"     -> WriteFileSteps(r.path)
      [] r.op = "append_file"    -> AppendFileSteps(r.path)
      [] r.op = "copy_file"      -> CopyFileSteps(r.path, r.dest)
      [] r.op = "move_file"      -> MoveFileSteps(r.path, r.dest)
      [] r.op = "copy_dir"       -> CopyDirSteps(r.path, r.dest)
      [] r.op = "move_dir"       -> MoveDirSteps(r.path, r.dest)
      [] OTHER                   -> <<Do(r.op, r.path)>>

Job(r, agenda) == [request |-> r, agenda |-> agenda, answer |-> Answer("Ok"), end |-> "none"]

Idle ==
    Job([op |-> "exists", path |-> OnDisk(Root), dest |-> OnDisk(Root), data |-> << >>], << >>)

NoFiles == [src |-> Closed, dst |-> Closed]

\* What a PhysicalFS lists are its own paths, not those of the disk.
Replies == [code : Codes, entries : SUBSET AnyPath, content : Contents, kind : Kinds, len : Nat]

DiskTypeOK ==
    /\ disk \in Maps
    /\ hold \in [Actors -> [src : OpenFiles, dst : OpenFiles]]
    /\ at \in [Tasks -> Nat]
    /\ died \in BOOLEAN
    /\ job \in [Actors -> [request : Requests, agenda : Seq(Items), answer : Replies,
                           end : {"none", "returned", "panicked", "dropped"}]]

Init ==
    /\ disk \in Trees
    /\ hold = [a \in Actors |-> NoFiles]
    /\ script \in Scripts
    /\ at = [t \in Tasks |-> 0]
    /\ job = [a \in Actors |-> Idle]
    /\ died = FALSE
    /\ before = disk

-----------------------------------------------------------------------------
Busy(a) == job[a].agenda # << >>
Now(a) == Head(job[a].agenda)
Here(a) == Real(Now(a).path)
At(a, steps) == Busy(a) /\ Now(a).do \in steps

End(a, answer, how) ==
    job' = [job EXCEPT ![a].answer = answer, ![a].end = how, ![a].agenda = << >>]

\* The step is done and these come in its place; the pool only does what it
\* has been handed.
Resume(a, steps) ==
    LET agenda == (IF a \in Tasks THEN steps ELSE << >>) \o Tail(job[a].agenda) IN
    job' = [job EXCEPT ![a].agenda = agenda,
                       ![a].end = IF agenda = << >> THEN "returned" ELSE @]

Abort(a, code) == End(a, Answer(code), "returned")

\* The file system has answered: with one of these codes the call goes on.
Settle(a, code, codes, steps) == IF code \in codes THEN Resume(a, steps) ELSE Abort(a, code)

\* A step that looks at the disk and goes on or gives up.
Look(a, step, code, codes, steps) ==
    /\ At(a, {step})
    /\ UNCHANGED <<disk, hold>>
    /\ Settle(a, code, codes, steps)

\* The answer of the step is the answer of the call.
Reply(a, step, answer) ==
    /\ At(a, {step})
    /\ UNCHANGED <<disk, hold>>
    /\ End(a, answer, "returned")

\* A call of the operating system takes effect, for all who have files open.
Apply(outcome) ==
    /\ disk' = outcome.map
    /\ hold' = [a \in Actors |-> [src |-> Follow(hold[a].src, disk, outcome),
                                  dst |-> Follow(hold[a].dst, disk, outcome)]]

Change(a, step, outcome) ==
    /\ At(a, {step})
    /\ Apply(outcome)
    /\ Settle(a, VfsCode(outcome.error), {"Ok"}, << >>)

-----------------------------------------------------------------------------
(* get_parent and create_dir                                                *)

ParentExists(a) ==
    /\ At(a, {"parent_exists"})
    /\ UNCHANGED <<disk, hold>>
    /\ IF ThereIs(disk, Here(a)) THEN Resume(a, << >>) ELSE Abort(a, "NoParent")

ParentIsDir(a) ==
    LET parent == Metadata(disk, Here(a)) IN
    /\ At(a, {"parent_is_dir"})
    /\ UNCHANGED <<disk, hold>>
    /\ IF parent.kind = "File" THEN Abort(a, "NoParent")
                               ELSE Settle(a, parent.code, {"Ok"}, << >>)

\* Fault: what is there already is taken for a directory.
CreateDirCarelessly(a) ==
    LET outcome == CreateDir(disk, Here(a)) IN
    /\ At(a, {"create_dir", "ensure_dir"})
    /\ Apply(outcome)
    /\ IF outcome.error = "AlreadyExists" THEN Resume(a, << >>)
       ELSE Settle(a, VfsCode(outcome.error), {"Ok"}, << >>)

\* What is there already is looked at by a call of its own.
CreateDirStep(a) ==
    LET outcome == CreateDir(disk, Here(a))
        look == IF Now(a).do = "ensure_dir" THEN "kind_ensured" ELSE "kind_there" IN
    /\ At(a, {"create_dir", "ensure_dir"})
    /\ Apply(outcome)
    /\ IF outcome.error = "AlreadyExists" THEN Resume(a, <<Do(look, Now(a).path)>>)
       ELSE Settle(a, VfsCode(outcome.error), {"Ok"}, << >>)

\* create_dir_all takes a directory that is there for its own.
KindStep(a) ==
    LET kind == KindThere(disk, Here(a)) IN
    /\ At(a, {"kind_there", "kind_ensured"})
    /\ UNCHANGED <<disk, hold>>
    /\ IF kind = "Panic" THEN End(a, Answer("Ok"), "panicked")
       ELSE Settle(a, kind, IF Now(a).do = "kind_ensured" THEN {"DirectoryExists"} ELSE {}, << >>)

(* Files: what is opened is a file of the disk, and what is written is there *)
(* at once.                                                                  *)

CreateFileStep(a) ==
    LET outcome == CreateFile(disk, Here(a)) IN
    /\ At(a, {"create_file"})
    /\ disk' = outcome.map
    /\ hold' = IF outcome.error = "None" THEN [hold EXCEPT ![a].dst = Opened(Os(Now(a).path))]
                                         ELSE hold
    /\ Settle(a, VfsCode(outcome.error), {"Ok"}, << >>)

AppendFileStep(a) ==
    LET code == IF IsDirectory(disk, Os(Now(a).path)) THEN "IoError" ELSE OpenAnswer(disk, Here(a))
    IN
    /\ At(a, {"open_append"})
    /\ UNCHANGED disk
    /\ hold' = IF code = "Ok" THEN [hold EXCEPT ![a].dst = AppendFile(disk, Here(a))] ELSE hold
    /\ Settle(a, code, {"Ok"}, << >>)

OpenStep(a) ==
    LET code == OpenAnswer(disk, Here(a)) IN
    /\ At(a, {"open"})
    /\ UNCHANGED disk
    /\ hold' = IF code = "Ok" THEN [hold EXCEPT ![a].src = OpenFile(disk, Here(a))] ELSE hold
    /\ Settle(a, code, {"Ok"}, << >>)

\* data goes to the file a has open for writing.
Put(a, data, src) ==
    LET h == hold[a].dst
        content == Written(ContentOf(disk, h), h, data) IN
    /\ disk' = IF h.gone THEN disk ELSE Insert(disk, h.path, FileEntry(content))
    /\ hold' = [hold EXCEPT ![a].dst.pos = @ + Len(data),
                            ![a].dst.content = IF h.gone THEN content ELSE @,
                            ![a].src = src]

Write(a) == At(a, {"write"}) /\ Put(a, job[a].request.data, hold[a].src) /\ Resume(a, << >>)

\* io::copy and the loop of std::fs::copy: some of the bytes, then the rest.
\* Reading from a directory is an error.
CopyBytes(a) ==
    LET src == hold[a].src
        all == ContentOf(disk, src)
        end == IF Now(a).do \in {"copy_some", "os_some"} THEN Len(all) \div 2 ELSE Len(all) IN
    /\ At(a, {"copy_some", "copy_rest", "os_some", "os_rest"})
    /\ IF src.directory THEN UNCHANGED <<disk, hold>> /\ Abort(a, "IoError")
       ELSE /\ Put(a, SubSeq(all, src.pos + 1, end), [src EXCEPT !.pos = end])
            /\ Resume(a, << >>)

\* copy_file begins.
OsCopy(a) ==
    LET outcome == CopyFile(disk, Here(a), Real(Now(a).dest)) IN
    /\ At(a, {"os_copy"})
    /\ disk' = outcome.map
    /\ hold' = IF outcome.error = "None"
               THEN [hold EXCEPT ![a].src = Opened(Os(Now(a).path)),
                                 ![a].dst = Opened(Os(Now(a).dest))]
               ELSE hold
    /\ Settle(a, VfsCode(outcome.error), {"Ok"}, << >>)

Absent(a) ==
    /\ At(a, {"absent"})
    /\ UNCHANGED <<disk, hold>>
    /\ IF ThereIs(disk, Here(a)) THEN Abort(a, "FileExists") ELSE Resume(a, << >>)

RenameFile(a) == Change(a, "rename", MoveFile(disk, Here(a), Real(Now(a).dest)))

\* move_dir: what cannot be renamed is copied and removed.
RenameDir(a) ==
    LET outcome == MoveDir(disk, Here(a), Real(Now(a).dest)) IN
    /\ At(a, {"rename_dir"})
    /\ Apply(outcome)
    /\ Resume(a, IF outcome.error = "None" THEN << >> ELSE MoveTreeSteps(Now(a).path, Now(a).dest))

RemoveFileStep(a) == Change(a, "remove_file", RemoveFile(disk, Here(a)))

RemoveDirStep(a) == Change(a, "remove_dir", RemoveDir(disk, Here(a)))

(* Questions                                                                *)

OpenFileStep(a) ==
    LET code == OpenAnswer(disk, Here(a))
        content == ContentOf(disk, OpenFile(disk, Here(a))) IN
    Reply(a, "open_file",
          IF code = "Ok" THEN [Answer("Ok") EXCEPT !.content = content] ELSE Answer(code))

MetadataStep(a) == Reply(a, "metadata", Metadata(disk, Here(a)))

ExistsStep(a) == Reply(a, "exists", Answer(IF ThereIs(disk, Here(a)) THEN "True" ELSE "False"))

ReadDirStep(a) == Reply(a, "read_dir", ReadDir(disk, Here(a)))

SetTimeStep(a) == Reply(a, "set_time", Answer(SetTime(disk, Here(a))))

\* blocking_io: outside a tokio runtime there is no thread to do it.
SetTimeElsewhere(a) ==
    Reply(a, "set_time_elsewhere",
          Answer(IF a \in Async THEN "NotSupported" ELSE SetTime(disk, Here(a))))

(* remove_dir_all, and the walk of copy_dir and move_dir                    *)

\* The entries of the directory h, as paths below h.
Listed(h) ==
    {[h EXCEPT !.path = Append(@, q[Len(q)])] : q \in ReadDir(disk, Real(h)).entries}

Rest(h, left) == IF left = {} THEN << >> ELSE <<[Do("children", h) EXCEPT !.left = left]>>

RemoveDirAll(a) ==
    LET h == Now(a).path IN
    /\ At(a, {"remove_dir_all"})
    /\ UNCHANGED <<disk, hold>>
    /\ Resume(a, IF ThereIs(disk, Real(h)) THEN <<Do("list", h), Do("remove_dir", h)>> ELSE << >>)

List(a) ==
    Look(a, "list", ReadDir(disk, Here(a)).code, {"Ok"}, Rest(Now(a).path, Listed(Now(a).path)))

NextChild(a, child) ==
    LET metadata == Metadata(disk, Real(child))
        removal == IF metadata.kind = "File" THEN "remove_file" ELSE "remove_dir_all" IN
    /\ child \in Now(a).left
    /\ Look(a, "children", metadata.code, {"Ok"},
            <<Do(removal, child)>> \o Rest(Now(a).path, Now(a).left \ {child}))

Walk(it, left, todo) ==
    IF left = {} /\ todo = << >> THEN << >> ELSE <<[it EXCEPT !.left = left, !.todo = todo]>>

\* Fault: the directory stays on the stack.
WalkListPeeking(a) ==
    LET it == Now(a)
        top == it.todo[Len(it.todo)] IN
    /\ At(a, {"walk"}) /\ it.left = {}
    /\ Look(a, "walk", ReadDir(disk, Real(top)).code, {"Ok"}, Walk(it, Listed(top), it.todo))

WalkList(a) ==
    LET it == Now(a)
        top == it.todo[Len(it.todo)] IN
    /\ At(a, {"walk"}) /\ it.left = {}
    /\ Look(a, "walk", ReadDir(disk, Real(top)).code, {"Ok"},
            Walk(it, Listed(top), SubSeq(it.todo, 1, Len(it.todo) - 1)))

WalkYield(a, child) ==
    LET it == Now(a)
        metadata == Metadata(disk, Real(child))
        todo == IF metadata.kind = "Directory" THEN Append(it.todo, child) ELSE it.todo
        target == [it.dest EXCEPT !.path = Rebase(child.path, it.path.path, @)] IN
    /\ child \in it.left
    /\ Look(a, "walk", metadata.code, {"Ok"},
            <<From("copy_entry", child, target)>> \o Walk(it, it.left \ {child}, todo))

CopyEntry(a) ==
    LET it == Now(a)
        metadata == Metadata(disk, Here(a)) IN
    Look(a, "copy_entry", metadata.code, {"Ok"},
         IF metadata.kind = "File" THEN CopyFileSteps(it.path, it.dest)
                                   ELSE CreateDirSteps(it.dest))

-----------------------------------------------------------------------------
Step(a) ==
    /\ \/ ParentExists(a)   \/ ParentIsDir(a)   \/ CreateDirStep(a)  \/ KindStep(a)
       \/ CreateFileStep(a) \/ AppendFileStep(a) \/ OpenStep(a)      \/ Write(a)
       \/ CopyBytes(a)      \/ OsCopy(a)        \/ Absent(a)         \/ RenameFile(a)
       \/ RenameDir(a)      \/ RemoveFileStep(a) \/ RemoveDirStep(a) \/ OpenFileStep(a)
       \/ MetadataStep(a)   \/ ExistsStep(a)    \/ ReadDirStep(a)    \/ SetTimeStep(a)
       \/ SetTimeElsewhere(a) \/ RemoveDirAll(a) \/ List(a)          \/ WalkList(a)
       \/ CopyEntry(a)
       \/ At(a, {"children", "walk"})
          /\ \E child \in Now(a).left : NextChild(a, child) \/ WalkYield(a, child)
    /\ UNCHANGED <<script, at, died, before>>

Start(t) ==
    /\ ~Busy(t)
    /\ at[t] < Len(script[t])
    /\ at' = [at EXCEPT ![t] = @ + 1]
    /\ hold' = [hold EXCEPT ![t] = NoFiles]
    /\ LET r == script[t][at[t] + 1] IN job' = [job EXCEPT ![t] = Job(r, StepsOf(r))]
    /\ UNCHANGED <<disk, script, died, before>>

Pooled == {"create_dir", "ensure_dir", "create_file", "remove_file", "remove_dir",
           "rename", "rename_dir", "os_rest"}

\* What the pool has been handed; std::fs::copy is one call.
InThePool(agenda) ==
    SubSeq(agenda, 1, CASE Head(agenda).do = "os_copy" -> 3
                        [] Head(agenda).do = "os_some" -> 2
                        [] Head(agenda).do \in Pooled  -> 1
                        [] OTHER -> 0)

\* The caller drops the future of its call.  What the pool has been handed may
\* have taken effect, or is left to it; bound: one straggler per task at a time.
Cancel(t) ==
    LET s == Straggler[t]
        left == InThePool(job[t].agenda)
        dropped == [job EXCEPT ![t].agenda = << >>, ![t].end = "dropped"] IN
    /\ t \in Async /\ Busy(t)
    /\ \/ job' = dropped /\ UNCHANGED hold
       \/ /\ left # << >> /\ ~Busy(s)
          /\ job' = [dropped EXCEPT ![s] = Job(job[t].request, left)]
          /\ hold' = [hold EXCEPT ![s] = hold[t]]
    /\ UNCHANGED <<disk, script, at, died, before>>

\* The process dies.
Die ==
    /\ ~died /\ died' = TRUE
    /\ job' = [a \in Actors |->
                 IF Busy(a) THEN [job[a] EXCEPT !.agenda = << >>, !.end = "dropped"] ELSE job[a]]
    /\ hold' = [a \in Actors |-> NoFiles]
    /\ UNCHANGED <<disk, script, at, before>>

Next ==
    \/ \E t \in Tasks : Start(t) \/ Cancel(t)
    \/ \E a \in Actors : Step(a)
    \/ Die

\* Threads are scheduled, woken tasks polled, and the pool does what it has been
\* handed.  Nobody has to cancel or die.
Fairness == /\ \A t \in Tasks : WF_vars(Start(t))
            /\ \A a \in Actors : WF_vars(Step(a))

Spec == Init /\ [][Next]_vars /\ Fairness

-----------------------------------------------------------------------------
MovingOps == {"move_file", "move_dir"}
RemovingOps == {"remove_file", "remove_dir", "remove_dir_all"} \cup MovingOps

\* The paths of the disk a request may change.
Reach(r) ==
    LET p == Named(r.path)
        q == Named(r.dest)
        root == Named([r.path EXCEPT !.path = Root]) IN
    {s \in Paths :
        \/ r.op \in {"create_dir", "write_file", "append_file"} /\ s = p
        \/ r.op = "create_dir_all" /\ Below(p, s) /\ Below(s, root)
        \/ r.op \in RemovingOps /\ Below(s, p)
        \/ r.op \in CopyingOps /\ Below(s, q)}

\* No request but the one t is in may change anything at or below p, nor move
\* it together with a directory above it.
Undisturbed(t, p) ==
    \A u \in Tasks : \A i \in DOMAIN script[u] :
        (u = t /\ i = at[t]) \/ \A q \in Reach(script[u][i]) : ~Below(q, p) /\ ~Below(p, q)

Alone(t) == Undisturbed(t, Named(job[t].request.path)) /\ Undisturbed(t, Named(job[t].request.dest))

Returns(a, ops) ==
    Busy(a) /\ ~Busy(a)' /\ job'[a].end = "returned" /\ job[a].request.op \in ops

\* A client that uses an altroot, or a file system rooted in a directory, never
\* touches anything outside it, and in it nothing but what it has named: not
\* on the way, not when it is dropped or left behind in the pool.  Only a file
\* it has open stays open wherever another one renames it to.
OnlyWhatIsNamed ==
    [][\A a \in Actors : job'[a] # job[a] =>
          \A s \in Paths \ Reach(job[a].request) :
              disk'[s] = disk[s] \/ (hold[a].dst.open /\ hold[a].dst.path = s)]_vars

\* Whether files are moved by a rename, or by a copy and a removal, by a call
\* that returns, is dropped, goes on in the pool or dies with the process: at
\* every moment each of them is on the disk, whole, at its old place or at its
\* new one.
MovedIsOnDisk ==
    \A t \in Tasks : at[t] > 0 /\ job[t].request.op \in MovingOps /\ Alone(t) =>
        LET p == Named(job[t].request.path)
            q == Named(job[t].request.dest)
        IN \A s \in Paths : Below(s, p) /\ IsFile(before, s) =>
             disk[s] = before[s] \/ disk[Rebase(s, p, q)] = before[s]

\* In every state the variables are of their types and no moved file is lost.
DiskInv == DiskTypeOK /\ MovedIsOnDisk

\* What a call that was not disturbed answers is what it has done: with Ok it
\* has done all it promises, and otherwise it has changed nothing.  (Only what
\* was made for a source that turns out to be missing or of the other kind, an
\* empty directory or an empty file, remains.)
CallsAreAllOrNothing ==
    [][\A t \in Tasks : Returns(t, CopyingOps \cup RemovingOps \cup {"create_dir", "write_file"})
                        /\ Alone(t) =>
          LET r == job[t].request
              p == Named(r.path)
              q == Named(r.dest)
              ok == job'[t].answer.code = "Ok"
              arrived == \A s \in Paths : Below(s, q) =>
                            disk'[s] = IF Rebase(s, q, p) \in Paths THEN before[Rebase(s, q, p)]
                                                                   ELSE VacantEntry
              gone == \A s \in Paths : Below(s, p) => ~Exists(disk', s)
              kept == \A s \in Paths : Below(s, p) => disk'[s] = before[s]
          IN CASE ok /\ r.op = "create_dir" -> ~Exists(before, p) /\ disk'[p] = DirectoryEntry
               [] ok /\ r.op = "write_file" -> disk'[p] = FileEntry(r.data)
               [] ok /\ r.op \in {"copy_file", "copy_dir"} -> arrived /\ kept
               [] ok /\ r.op \in MovingOps -> arrived /\ gone
               [] ok /\ r.op \in RemovingOps -> gone
               [] OTHER -> /\ kept
                           /\ \A s \in Paths : Below(s, q) =>
                                \/ disk'[s] = before[s]
                                \/ s = q /\ disk'[q] = DirectoryEntry /\ ~IsDirectory(before, p)
                                \/ s = q /\ disk'[q] = FileEntry(<< >>)
                                   /\ IsDirectory(before, p)]_vars

\* Of several who append to one file none erases what another has appended:
\* once append_file has answered Ok the data is in the file, behind what was
\* there, as long as nobody does anything else to it.
AppendedStays ==
    \A t \in Tasks :
        LET r == job[t].request
            p == Named(r.path)
            content == disk[p].content
            old == Len(before[p].content)
        IN /\ at[t] > 0 /\ ~Busy(t) /\ r.op = "append_file"
           /\ job[t].end = "returned" /\ job[t].answer.code = "Ok"
           /\ \A u \in Tasks : \A i \in DOMAIN script[u] :
                 p \in Reach(script[u][i]) => script[u][i].op = "append_file"
           => /\ SubSeq(content, 1, old) = before[p].content
              /\ \E i \in old .. Len(content) - Len(r.data) :
                    SubSeq(content, i + 1, i + Len(r.data)) = r.data

\* create_dir unwraps the answer of a second look at what is there already: it
\* panics only when another call, which may be one that was dropped and left in
\* the pool, removes what it finds there.
PanicsOnlyWhenRaced ==
    \A a \in Actors : job[a].end = "panicked" =>
        \E u \in Tasks : \E i \in 1 .. at[u] :
            /\ u # a \/ i < at[a]
            /\ script[u][i].op \in RemovingOps
            /\ Reach(script[u][i]) \cap Reach(job[a].request) # {}

\* Every call ends, and so does what it has left behind.
EveryCallEnds ==
    <>(/\ \A t \in Tasks : at[t] = Len(script[t])
       /\ \A a \in Actors : ~Busy(a))
=============================================================================
