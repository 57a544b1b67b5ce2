-------------------------------- MODULE VfsPath --------------------------------
(***************************************************************************)
(* The methods of VfsPath (src/path.rs) that are made of several calls on   *)
(* the file system, run by threads that share one MemoryFS.  Between two    *)
(* calls, and between the two lock sections of one, any other thread may    *)
(* run.                                                                     *)
(*                                                                         *)
(* What a thread has left to do in its present call is its agenda: the      *)
(* steps a method begins with, in order.  A step makes one call on the      *)
(* MemoryFS; it is then struck off, possibly in favour of further steps, or *)
(* it fails and the method returns its error (the `?` of the code), which   *)
(* drops a write handle that is still open.                                 *)
(***************************************************************************)
EXTENDS MemoryFS

CONSTANTS
    Scripts,    \* what the threads may do: [Threads -> Seq(Requests)]
    Trees       \* the maps the file system may start with

VfsOps == {"create_dir", "create_dir_all", "write_file", "remove_file", "remove_dir_all",
           "copy_file", "move_file", "copy_dir", "move_dir"}

\* A call of a client: dest matters to the copying and moving methods, data
\* to write_file, which stands for path.create_file()?.write_all(data).
Requests == [op : VfsOps, path : Paths, dest : Paths, data : Contents]

ASSUME ScriptsAssumption == Scripts \subseteq [Threads -> Seq(Requests)]
ASSUME TreesAssumption == Trees \subseteq Maps /\ \A f \in Trees : IsTree(f)
ASSUME AnyCall == Calls = [thread : Threads, op : Ops, path : Paths] /\ Scoped = {}

VARIABLES
    script,     \* the threads' scripts, fixed at the start
    at,         \* per thread, how many of its requests it has begun
    job,        \* per thread, the request it is in and what is left of it
    before      \* history: the map at the start

vfsVars == <<vars, script, at, job, before>>

Steps == {"parent_exists", "parent_is_dir", "create_dir", "ensure_dir", "absent", "open",
          "create_file", "fill", "drop", "remove_file", "remove_dir", "remove_dir_all",
          "list", "children", "walk", "copy_entry"}

\* left is what a directory iterator has yet to yield, todo the stack of
\* directories a WalkDirIterator has yet to list.
Items == [do : Steps, path : AnyPath, dest : AnyPath, left : SUBSET Paths, todo : Seq(AnyPath)]

Do(do, p) == [do |-> do, path |-> p, dest |-> Root, left |-> {}, todo |-> << >>]

\* An iterator that has nothing left to yield is no step.
Rest(p, left) ==
    IF left = {} THEN << >> ELSE <<[Do("children", p) EXCEPT !.left = left]>>
Walk(p, dest, left, todo) ==
    IF left = {} /\ todo = << >> THEN << >>
    ELSE <<[Do("walk", p) EXCEPT !.dest = dest, !.left = left, !.todo = todo]>>

-----------------------------------------------------------------------------
(* The steps each method begins with.                                       *)

InDirectory(p) == <<Do("parent_exists", p), Do("parent_is_dir", p)>>

CreateDirSteps(p) == Append(InDirectory(p), Do("create_dir", p))

CreateDirAllSteps(p) == [n \in 1 .. Len(p) |-> Do("ensure_dir", SubSeq(p, 1, n))]

OpenNewSteps(p) == InDirectory(p) \o <<Do("create_file", p), Do("fill", p)>>

WriteFileSteps(p) == Append(OpenNewSteps(p), Do("drop", p))

CopyFileSteps(p, q) == <<Do("absent", q), Do("open", p)>> \o WriteFileSteps(q)

\* Fault: the source is removed once it has been read.
MoveFileRemovingFirst(p, q) ==
    <<Do("absent", q), Do("open", p), Do("remove_file", p)>> \o WriteFileSteps(q)

\* The source is removed while the destination's handle is still open.
MoveFileSteps(p, q) ==
    <<Do("absent", q), Do("open", p)>> \o OpenNewSteps(q)
    \o <<Do("remove_file", p), Do("drop", q)>>

CopyDirSteps(p, q) ==
    <<Do("absent", q)>> \o CreateDirSteps(q) \o Walk(p, q, {}, <<p>>)

MoveDirSteps(p, q) == Append(CopyDirSteps(p, q), Do("remove_dir_all", p))

StepsOf(r) ==
    CASE r.op = "create_dir"     -> CreateDirSteps(r.path)
      [] r.op = "create_dir_all" -> CreateDirAllSteps(r.path)
      [] r.op = "write_file"     -> WriteFileSteps(r.path)
      [] r.op = "copy_file"      -> CopyFileSteps(r.path, r.dest)
      [] r.op = "move_file"      -> MoveFileSteps(r.path, r.dest)
      [] r.op = "copy_dir"       -> CopyDirSteps(r.path, r.dest)
      [] r.op = "move_dir"       -> MoveDirSteps(r.path, r.dest)
      [] r.op \in {"remove_file", "remove_dir_all"} -> <<Do(r.op, r.path)>>

-----------------------------------------------------------------------------
Job(r, agenda) == [request |-> r, agenda |-> agenda, data |-> r.data, code |-> "Ok"]

Jobs == [request : Requests, agenda : Seq(Items), data : Contents, code : Codes]

Idle == Job([op |-> "create_dir", path |-> Root, dest |-> Root, data |-> << >>], << >>)

VfsTypeOK ==
    /\ TypeOK
    /\ at \in [Threads -> Nat]
    /\ job \in [Threads -> Jobs]

VfsInit ==
    /\ files \in Trees
    /\ pc = [t \in Threads |-> "idle"]
    /\ arg = [t \in Threads |-> Root]
    /\ writer = [t \in Threads |-> ClosedHandle]
    /\ res = [t \in Threads |-> NoResult]
    /\ before = files
    /\ script \in Scripts
    /\ at = [t \in Threads |-> 0]
    /\ job = [t \in Threads |-> Idle]

-----------------------------------------------------------------------------
Busy(t) == job[t].agenda # << >>
Now(t) == Head(job[t].agenda)
At(t, steps) == Busy(t) /\ Now(t).do \in steps

\* What the MemoryFS has just answered.
Told(t) == res'[t].answer

\* The present step is done and these come in its place.
Resume(t, steps) == job' = [job EXCEPT ![t].agenda = steps \o Tail(@)]

\* The present step fails, and with it the method.
Abort(t, code) ==
    job' = [job EXCEPT ![t].code = code,
                       ![t].agenda = IF writer'[t].open THEN <<Do("drop", writer[t].path)>>
                                                        ELSE << >>]

\* The call on the MemoryFS goes on, or has returned: with one of these codes
\* the method goes on too.
Settle(t, codes, steps) ==
    IF pc'[t] # "idle" THEN UNCHANGED job
    ELSE IF Told(t).code \in codes THEN Resume(t, steps) ELSE Abort(t, Told(t).code)

-----------------------------------------------------------------------------
(* get_parent *)

ParentExists(t) ==
    /\ At(t, {"parent_exists"})
    /\ ExistsCall(t, Parent(Now(t).path))
    /\ IF Told(t).code = "True" THEN Resume(t, << >>) ELSE Abort(t, "NoParent")

ParentIsDir(t) ==
    /\ At(t, {"parent_is_dir"})
    /\ Metadata(t, Parent(Now(t).path))
    /\ IF Told(t).kind = "File" THEN Abort(t, "NoParent") ELSE Settle(t, {"Ok"}, << >>)

(* create_dir, and the step of create_dir_all that takes a directory that is *)
(* there already for its own.                                                *)

\* Fault: a directory that another thread has made meanwhile is an error.
AcceptedNewOnly(step) == {"Ok"}

Accepted(step) == IF step = "ensure_dir" THEN {"Ok", "DirectoryExists"} ELSE {"Ok"}

CreateDirStep(t) ==
    /\ At(t, {"create_dir", "ensure_dir"})
    /\ CreateDirEnsureParent(t, Now(t).path) \/ CreateDirInsert(t)
    /\ Settle(t, Accepted(Now(t).do), << >>)

(* copy_file and move_file: the destination is looked at first, the source  *)
(* is read, the destination created, filled, and published when dropped.    *)

Absent(t) ==
    /\ At(t, {"absent"})
    /\ ExistsCall(t, Now(t).path)
    /\ IF Told(t).code = "True" THEN Abort(t, "FileExists") ELSE Resume(t, << >>)

OpenStep(t) ==
    /\ At(t, {"open"})
    /\ OpenFileTouch(t, Now(t).path) \/ OpenFileGet(t)
    /\ IF pc'[t] = "idle" /\ Told(t).code = "Ok"
       THEN job' = [job EXCEPT ![t].agenda = Tail(@), ![t].data = Told(t).content]
       ELSE Settle(t, {}, << >>)

CreateFileStep(t) ==
    /\ At(t, {"create_file"})
    /\ CreateFileEnsureParent(t, Now(t).path) \/ CreateFileInsert(t)
    /\ Settle(t, {"Ok"}, << >>)

\* io::copy, write_all: every byte goes to the handle's own buffer.
Fill(t) ==
    /\ At(t, {"fill"})
    /\ Holds(t)
    /\ writer' = [writer EXCEPT ![t] = OpenHandle(writer[t].path, job[t].data)]
    /\ Resume(t, << >>)
    /\ UNCHANGED <<files, pc, arg, res>>

DropStep(t) == At(t, {"drop"}) /\ Drop(t) /\ Resume(t, << >>)

RemoveFileStep(t) ==
    /\ At(t, {"remove_file"})
    /\ RemoveFile(t, Now(t).path)
    /\ Settle(t, {"Ok"}, << >>)

(* remove_dir_all: nothing to do if the path is not there; otherwise list   *)
(* it, remove each child as the kind it has when its turn comes, and the    *)
(* directory last.                                                          *)

RemoveDirAll(t) ==
    LET p == Now(t).path IN
    /\ At(t, {"remove_dir_all"})
    /\ ExistsCall(t, p)
    /\ Resume(t, IF Told(t).code = "True" THEN <<Do("list", p), Do("remove_dir", p)>>
                                                ELSE << >>)

List(t) ==
    /\ At(t, {"list"})
    /\ ReadDir(t, Now(t).path)
    /\ Settle(t, {"Ok"}, Rest(Now(t).path, Told(t).entries))

\* Fault: every child is removed as a file is.
NextChildAsFile(t, child) ==
    /\ At(t, {"children"})
    /\ child \in Now(t).left
    /\ Metadata(t, child)
    /\ Settle(t, {"Ok"}, <<Do("remove_file", child)>>
                          \o Rest(Now(t).path, Now(t).left \ {child}))

\* The order of a HashMap's keys is any order.
NextChild(t, child) ==
    /\ At(t, {"children"})
    /\ child \in Now(t).left
    /\ Metadata(t, child)
    /\ LET removal == IF Told(t).kind = "File" THEN "remove_file" ELSE "remove_dir_all"
       IN Settle(t, {"Ok"}, <<Do(removal, child)>>
                              \o Rest(Now(t).path, Now(t).left \ {child}))

RemoveDirStep(t) ==
    /\ At(t, {"remove_dir"})
    /\ RemoveDirList(t, Now(t).path) \/ RemoveDirRemove(t)
    /\ Settle(t, {"Ok"}, << >>)

(* WalkDirIterator::next, and the loop of copy_dir and move_dir over it.     *)

\* Fault: the directory stays on the stack.
WalkListPeeking(t) ==
    LET it == Now(t) IN
    /\ At(t, {"walk"}) /\ it.left = {}
    /\ ReadDir(t, it.todo[Len(it.todo)])
    /\ Settle(t, {"Ok"}, Walk(it.path, it.dest, Told(t).entries, it.todo))

WalkList(t) ==
    LET it == Now(t)
        top == it.todo[Len(it.todo)] IN
    /\ At(t, {"walk"}) /\ it.left = {}
    /\ ReadDir(t, top)
    /\ Settle(t, {"Ok"}, Walk(it.path, it.dest, Told(t).entries,
                              SubSeq(it.todo, 1, Len(it.todo) - 1)))

\* Fault: the directories below the first level are not walked.
WalkNextShallow(t, child) ==
    LET it == Now(t) IN
    /\ At(t, {"walk"})
    /\ child \in it.left
    /\ Metadata(t, child)
    /\ LET copy == [Do("copy_entry", child) EXCEPT !.dest = Rebase(child, it.path, it.dest)]
       IN Settle(t, {"Ok"}, <<copy>> \o Walk(it.path, it.dest, it.left \ {child}, it.todo))

WalkNext(t, child) ==
    LET it == Now(t) IN
    /\ At(t, {"walk"})
    /\ child \in it.left
    /\ Metadata(t, child)
    /\ LET todo == IF Told(t).kind = "Directory" THEN Append(it.todo, child) ELSE it.todo
           copy == [Do("copy_entry", child) EXCEPT !.dest = Rebase(child, it.path, it.dest)]
       IN Settle(t, {"Ok"}, <<copy>> \o Walk(it.path, it.dest, it.left \ {child}, todo))

CopyEntry(t) ==
    LET it == Now(t) IN
    /\ At(t, {"copy_entry"})
    /\ Metadata(t, it.path)
    /\ Settle(t, {"Ok"}, IF Told(t).kind = "File" THEN CopyFileSteps(it.path, it.dest)
                                                         ELSE CreateDirSteps(it.dest))

-----------------------------------------------------------------------------
Step(t) ==
    /\ \/ ParentExists(t) \/ ParentIsDir(t)    \/ CreateDirStep(t)  \/ Absent(t)
       \/ OpenStep(t)     \/ CreateFileStep(t) \/ Fill(t)           \/ DropStep(t)
       \/ RemoveFileStep(t) \/ RemoveDirAll(t) \/ List(t)           \/ RemoveDirStep(t)
       \/ WalkList(t)     \/ CopyEntry(t)
       \/ \E child \in Paths : NextChild(t, child) \/ WalkNext(t, child)
    /\ UNCHANGED <<script, at, before>>

Start(t) ==
    /\ ~Busy(t)
    /\ at[t] < Len(script[t])
    /\ at' = [at EXCEPT ![t] = @ + 1]
    /\ LET r == script[t][at[t] + 1] IN job' = [job EXCEPT ![t] = Job(r, StepsOf(r))]
    /\ UNCHANGED <<vars, script, before>>

VfsNext == \E t \in Threads : Start(t) \/ Step(t)

\* Every thread is scheduled again and again, and no step waits for another
\* thread for longer than a lock section.
Fairness == \A t \in Threads : WF_vfsVars(Start(t) \/ Step(t))

VfsSpec == VfsInit /\ [][VfsNext]_vfsVars /\ Fairness

-----------------------------------------------------------------------------
CopyingOps == {"copy_file", "move_file", "copy_dir", "move_dir"}
RemovingOps == {"remove_file", "remove_dir_all", "move_file", "move_dir"}

\* Where a request may change anything.
Reach(r) ==
    {p \in Paths : \/ r.op \in {"create_dir", "write_file"} /\ p = r.path
                   \/ r.op = "create_dir_all" /\ Below(r.path, p)
                   \/ r.op \in RemovingOps /\ Below(p, r.path)
                   \/ r.op \in CopyingOps /\ Below(p, r.dest)}

\* No request but the one t is in may change anything at or below p.
Undisturbed(t, p) ==
    \A u \in Threads : \A i \in DOMAIN script[u] :
        (u = t /\ i = at[t]) \/ \A q \in Reach(script[u][i]) : ~Below(q, p)

\* t's request is of one of these kinds and has just returned.
Returns(t, ops) == Busy(t) /\ ~Busy(t)' /\ job[t].request.op \in ops
Succeeds(t, ops) == Returns(t, ops) /\ job'[t].code = "Ok"

NothingIsRemoved ==
    \A t \in Threads : \A i \in DOMAIN script[t] : script[t][i].op \notin RemovingOps

\* "prevent Path::create_dir_all() failures when executing in parallel"
\* (README.md, 0.9.0): any number of threads may make directories at and below
\* each other's paths; as long as nobody removes anything, only a file in the
\* way makes create_dir_all fail, and when it returns the directory is there.
CreateDirAllSucceeds ==
    [][\A t \in Threads : Returns(t, {"create_dir_all"}) /\ NothingIsRemoved =>
          LET p == job[t].request.path IN
          \/ \E q \in Paths : Below(p, q) /\ IsFile(files', q)
          \/ job'[t].code = "Ok" /\ IsDirectory(files', p)]_vfsVars

\* A copy_dir or move_dir that succeeds has put at the destination the very
\* tree the source held, at whatever depth, and a move_dir has left nothing of
\* the source, whatever other threads do elsewhere meanwhile.
CopiesAreFaithful ==
    [][\A t \in Threads : Succeeds(t, {"copy_dir", "move_dir"}) =>
          LET p == job[t].request.path
              q == job[t].request.dest
          IN Undisturbed(t, p) /\ Undisturbed(t, q) =>
               /\ \A s \in Paths : Below(s, p) => files'[Rebase(s, p, q)] = before[s]
               /\ \A s \in Paths : Below(s, q) /\ Exists(files', s)
                                      => Exists(before, Rebase(s, q, p))
               /\ job[t].request.op = "move_dir" =>
                    \A s \in Paths : Below(s, p) => ~Exists(files', s)]_vfsVars

\* A remove_dir_all that succeeds has left nothing at or below its path, when
\* nobody else creates anything there.
RemoveDirAllLeavesNothing ==
    [][\A t \in Threads : Succeeds(t, {"remove_dir_all"}) =>
          LET p == job[t].request.path IN
          Undisturbed(t, p) => \A s \in Paths : Below(s, p) => ~Exists(files', s)]_vfsVars

\* move_file removes the source before the destination's handle has published
\* the content: at every moment, failures included, the content is at the
\* source, at the destination or in that handle.
MovedFileIsSomewhere ==
    \A t \in Threads : at[t] > 0 /\ job[t].request.op = "move_file" =>
        LET p == job[t].request.path
            q == job[t].request.dest
        IN IsFile(before, p) /\ Undisturbed(t, p) /\ Undisturbed(t, q) =>
             \/ files[p] = before[p]
             \/ files[q] = before[p]
             \/ Busy(t) /\ writer[t].open /\ writer[t].path = q
                        /\ writer[t].buf = before[p].content

\* In every state the variables are of their types and no moved file is lost.
VfsInv == VfsTypeOK /\ MovedFileIsSomewhere

\* Every call returns: a directory iterator yields what was there when it was
\* made, so entries that others create meanwhile do not prolong it.
EveryCallReturns == <>(\A t \in Threads : ~Busy(t) /\ at[t] = Len(script[t]))
=============================================================================
