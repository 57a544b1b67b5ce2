------------------------------ MODULE AsyncVfsPath ------------------------------
(***************************************************************************)
(* The methods of AsyncVfsPath (src/async_vfs/path.rs), run by tasks that   *)
(* share one AsyncMemoryFS.  A step of a method is one lock section, the    *)
(* code up to the next await that can be pending.                          *)
(*                                                                         *)
(* A caller may drop the future of a call wherever it is pending: the call  *)
(* then ends where it is, and the only thing it still does is to drop its   *)
(* write handle, which publishes the buffer as it is at that moment.  A     *)
(* Cursor is never pending, so there is no such point between the section   *)
(* that creates a file and the end of io::copy into it.                    *)
(***************************************************************************)
EXTENDS AsyncMemoryFS, FiniteSets

CONSTANTS
    Scripts,    \* what the tasks may do: [Tasks -> Seq(Requests)]
    Trees,      \* the maps the file system may start with
    Impatient   \* the tasks whose calls may be dropped while they are pending

AsyncOps == {"create_dir", "create_dir_all", "write_file", "append_file", "read_to_string",
             "is_file", "is_dir", "walk_dir", "remove_file", "remove_dir", "remove_dir_all",
             "set_time", "copy_file", "move_file", "copy_dir", "move_dir"}

CopyingOps == {"copy_file", "move_file", "copy_dir", "move_dir"}

\* dest matters to the copying and moving methods, data to write_file and
\* append_file, in which the client writes it to the handle and drops that.
Requests == [op : AsyncOps, path : Paths, dest : Paths, data : Contents]

ASSUME ScriptsAssumption == Scripts \subseteq [Tasks -> Seq(Requests)]
\* Bound: what a request copies or moves stays among the paths of the model;
\* nothing is copied into itself, which would never end.
ASSUME MovesAssumption ==
    \A s \in Scripts : \A t \in Tasks : \A i \in DOMAIN s[t] :
        s[t][i].op \in CopyingOps =>
            LET p == s[t][i].path
                q == s[t][i].dest
            IN /\ Below(q, p) => q = p
               /\ \A x \in Paths : Below(x, p) => Rebase(x, p, q) \in Paths
ASSUME TreesAssumption == Trees \subseteq Maps /\ \A f \in Trees : IsTree(f)
ASSUME ImpatientAssumption == Impatient \subseteq Tasks

VARIABLES
    script,     \* the tasks' scripts, fixed at the start
    at,         \* per task, how many of its requests it has begun
    job,        \* per task, the request it is in and what is left of it
    before      \* history: the map at the start

asyncVars == <<fsVars, script, at, job, before>>

Steps == {"parent_exists", "parent_is_dir", "ensure_parent", "create_dir", "ensure_dir",
          "create_file", "append_file", "fill", "drop", "absent", "open", "read_metadata",
          "exists", "kind", "set_time", "remove_file", "remove_dir_all", "list", "children",
          "list_empty", "walk_dir", "walk", "copy_entry"}

\* Of a WalkDirIterator, left is what inner has yet to yield, held the
\* prev_result and todo the stack of directories yet to be listed; a
\* remove_dir_all has left only.
Items == [do : Steps, path : Paths, dest : Paths, left : SUBSET Paths,
          held : SUBSET Paths, todo : Seq(Paths)]

Do(do, p) ==
    [do |-> do, path |-> p, dest |-> Root, left |-> {}, held |-> {}, todo |-> << >>]

\* A stream that has nothing left to yield is no step.
Rest(p, left) ==
    IF left = {} THEN << >> ELSE <<[Do("children", p) EXCEPT !.left = left]>>
Walk(it, left, held, todo) ==
    IF left \cup held = {} /\ todo = << >> THEN << >>
    ELSE <<[it EXCEPT !.do = "walk", !.left = left, !.held = held, !.todo = todo]>>

-----------------------------------------------------------------------------
(* The steps each method begins with.                                       *)

InDirectory(p) == <<Do("parent_exists", p), Do("parent_is_dir", p)>>

CreateDirSteps(p) == InDirectory(p) \o <<Do("ensure_parent", p), Do("create_dir", p)>>

\* Per component, from the top down, the two sections of the file system's
\* create_dir.
CreateDirAllSteps(p) ==
    [n \in 1 .. 2 * Len(p) |->
        Do(IF n % 2 = 1 THEN "ensure_parent" ELSE "ensure_dir", SubSeq(p, 1, (n + 1) \div 2))]

CreateFileSteps(p) == InDirectory(p) \o <<Do("ensure_parent", p), Do("create_file", p)>>

WriteFileSteps(p) == CreateFileSteps(p) \o <<Do("fill", p), Do("drop", p)>>

AppendFileSteps(p) == <<Do("append_file", p), Do("fill", p), Do("drop", p)>>

ReadSteps(p) == <<Do("read_metadata", p), Do("open", p)>>

CopyFileSteps(p, q) == <<Do("absent", q), Do("open", p)>> \o WriteFileSteps(q)

\* Fault: the source is removed once it has been read.
MoveFileRemovingFirst(p, q) ==
    <<Do("absent", q), Do("open", p), Do("remove_file", p)>> \o WriteFileSteps(q)

\* The source is removed while the destination's handle is still open.
MoveFileSteps(p, q) ==
    <<Do("absent", q), Do("open", p)>> \o CreateFileSteps(q)
    \o <<Do("fill", q), Do("remove_file", p), Do("drop", q)>>

CopyDirSteps(p, q) ==
    <<Do("absent", q)>> \o CreateDirSteps(q) \o <<[Do("walk_dir", p) EXCEPT !.dest = q]>>

MoveDirSteps(p, q) == Append(CopyDirSteps(p, q), Do("remove_dir_all", p))

\* Fault: the kind of a path is asked without asking whether it exists.
StatusStepsUnguarded(p) == <<Do("kind", p)>>

\* is_file and is_dir
StatusSteps(p) == <<Do("exists", p), Do("kind", p)>>

RemoveDirSteps(p) == <<Do("list_empty", p), Do("remove_file", p)>>

StepsOf(r) ==
    CASE r.op = "create_dir"     -> CreateDirSteps(r.path)
      [] r.op = "create_dir_all" -> CreateDirAllSteps(r.path)
      [] r.op = "write_file"     -> WriteFileSteps(r.path)
      [] r.op = "append_file"    -> AppendFileSteps(r.path)
      [] r.op = "read_to_string" -> ReadSteps(r.path)
      [] r.op \in {"is_file", "is_dir"} -> StatusSteps(r.path)
      [] r.op = "copy_file"      -> CopyFileSteps(r.path, r.dest)
      [] r.op = "move_file"      -> MoveFileSteps(r.path, r.dest)
      [] r.op = "copy_dir"       -> CopyDirSteps(r.path, r.dest)
      [] r.op = "move_dir"       -> MoveDirSteps(r.path, r.dest)
      [] r.op = "remove_dir"     -> RemoveDirSteps(r.path)
      [] r.op \in {"remove_file", "remove_dir_all", "walk_dir", "set_time"} -> <<Do(r.op, r.path)>>

-----------------------------------------------------------------------------
\* data is what a handle is to be filled with, or what has been read; yielded
\* what the call's walk has produced, which copy_dir counts.
Job(r, agenda) ==
    [request |-> r, agenda |-> agenda, data |-> r.data, yielded |-> << >>, code |-> "Ok"]

Idle == Job([op |-> "create_dir", path |-> Root, dest |-> Root, data |-> << >>], << >>)

AsyncTypeOK ==
    /\ FsTypeOK
    /\ at \in [Tasks -> Nat]
    /\ job \in [Tasks -> [request : Requests, agenda : Seq(Items), data : Contents,
                          yielded : Seq(Paths), code : Codes \cup {"Cancelled"}]]

Init ==
    /\ files \in Trees
    /\ writer = [t \in Tasks |-> ClosedHandle]
    /\ before = files
    /\ script \in Scripts
    /\ at = [t \in Tasks |-> 0]
    /\ job = [t \in Tasks |-> Idle]

-----------------------------------------------------------------------------
Busy(t) == job[t].agenda # << >>
Now(t) == Head(job[t].agenda)
At(t, steps) == Busy(t) /\ Now(t).do \in steps

\* The present step is done and these come in its place.
Resume(t, steps) == job' = [job EXCEPT ![t].agenda = steps \o Tail(@)]

\* The call ends here with this code; of what it holds, a write handle is
\* dropped.
Abort(t, code) ==
    job' = [job EXCEPT ![t].code = code,
                       ![t].agenda = IF writer'[t].open THEN <<Do("drop", writer[t].path)>>
                                                        ELSE << >>]

\* The file system has answered: with one of these codes the call goes on.
Settle(t, answer, codes, steps) ==
    IF answer.code \in codes THEN Resume(t, steps) ELSE Abort(t, answer.code)

\* A step that looks at the map and goes on or gives up.
Look(t, step, answer, codes, steps) ==
    /\ At(t, {step})
    /\ UNCHANGED fsVars
    /\ Settle(t, answer, codes, steps)

-----------------------------------------------------------------------------
(* get_parent, create_dir, create_dir_all                                   *)

ParentExists(t) ==
    /\ At(t, {"parent_exists"})
    /\ UNCHANGED fsVars
    /\ IF ExistsSection(Parent(Now(t).path)).code = "True"
       THEN Resume(t, << >>) ELSE Abort(t, "NoParent")

ParentIsDir(t) ==
    /\ At(t, {"parent_is_dir"})
    /\ UNCHANGED fsVars
    /\ LET parent == MetadataSection(Parent(Now(t).path)) IN
         IF parent.kind = "File" THEN Abort(t, "NoParent")
                                 ELSE Settle(t, parent, {"Ok"}, << >>)

EnsureParentStep(t) ==
    Look(t, "ensure_parent", EnsureHasParent(Now(t).path), {"Ok"}, << >>)

\* create_dir_all takes a directory that is there already for its own.
CreateDirStep(t) ==
    /\ At(t, {"create_dir", "ensure_dir"})
    /\ CreateDirInsert(Now(t).path)
    /\ Settle(t, CreateDirAnswer(Now(t).path),
              IF Now(t).do = "ensure_dir" THEN {"Ok", "DirectoryExists"} ELSE {"Ok"}, << >>)

(* The methods on one file.                                                 *)

\* The destination is looked at, and the file system asked to do the transfer
\* itself, which it does not support.
Absent(t) ==
    /\ At(t, {"absent"})
    /\ UNCHANGED fsVars
    /\ IF ExistsSection(Now(t).path).code = "True"
       THEN Abort(t, "FileExists") ELSE Settle(t, TransferAnswer, {"NotSupported"}, << >>)

OpenStep(t) ==
    LET answer == OpenFileSection(Now(t).path) IN
    /\ At(t, {"open"})
    /\ UNCHANGED fsVars
    /\ IF answer.code = "Ok"
       THEN job' = [job EXCEPT ![t].agenda = Tail(@), ![t].data = answer.content]
       ELSE Abort(t, answer.code)

\* read_to_string looks at the kind before it opens the file.
ReadMetadataStep(t) ==
    /\ At(t, {"read_metadata"})
    /\ UNCHANGED fsVars
    /\ LET it == MetadataSection(Now(t).path) IN
         IF it.kind = "Directory" THEN Abort(t, "NotAFile")
                                  ELSE Settle(t, it, {"Ok"}, << >>)

ExistsStep(t) == Look(t, "exists", ExistsSection(Now(t).path), {"True"}, << >>)

\* is_file and is_dir: the answer is the code the call ends with.
KindStep(t) ==
    /\ At(t, {"kind"})
    /\ UNCHANGED fsVars
    /\ LET it == MetadataSection(Now(t).path)
           asked == IF job[t].request.op = "is_file" THEN "File" ELSE "Directory"
       IN Abort(t, IF it.code # "Ok" THEN it.code
                   ELSE IF it.kind = asked THEN "True" ELSE "False")

SetTimeStep(t) == Look(t, "set_time", SetTimeAnswer, {"Ok"}, << >>)

CreateFileStep(t) ==
    /\ At(t, {"create_file"})
    /\ CreateFileInsert(t, Now(t).path)
    /\ Resume(t, << >>)

AppendFileStep(t) ==
    /\ At(t, {"append_file"})
    /\ AppendFile(t, Now(t).path)
    /\ Settle(t, AppendFileAnswer(Now(t).path), {"Ok"}, << >>)

\* io::copy, or the client's write_all.
Fill(t) == At(t, {"fill"}) /\ PollWrite(t, job[t].data) /\ Resume(t, << >>)

DropStep(t) == At(t, {"drop"}) /\ Drop(t) /\ Resume(t, << >>)

RemoveStep(t) ==
    /\ At(t, {"remove_file"})
    /\ RemoveFile(Now(t).path)
    /\ Settle(t, RemoveAnswer(Now(t).path), {"Ok"}, << >>)

(* remove_dir_all: nothing to do if the path is not there; otherwise list   *)
(* it, remove each child as the kind it has when its turn comes, and the    *)
(* directory last.                                                          *)

RemoveDirAll(t) ==
    LET p == Now(t).path IN
    /\ At(t, {"remove_dir_all"})
    /\ UNCHANGED fsVars
    /\ Resume(t, IF ExistsSection(p).code = "True"
                 THEN <<Do("list", p)>> \o RemoveDirSteps(p) ELSE << >>)

ListStep(t) ==
    LET p == Now(t).path IN
    Look(t, "list", ReadDirSection(p), {"Ok"}, Rest(p, ReadDirSection(p).entries))

\* Fault: every child is removed as a file is.
NextChildAsFile(t, child) ==
    /\ At(t, {"children"}) /\ child \in Now(t).left
    /\ Look(t, "children", MetadataSection(child), {"Ok"},
            <<Do("remove_file", child)>> \o Rest(Now(t).path, Now(t).left \ {child}))

NextChild(t, child) ==
    LET it == MetadataSection(child)
        removal == IF it.kind = "File" THEN "remove_file" ELSE "remove_dir_all" IN
    /\ At(t, {"children"}) /\ child \in Now(t).left
    /\ Look(t, "children", it, {"Ok"},
            <<Do(removal, child)>> \o Rest(Now(t).path, Now(t).left \ {child}))

\* remove_dir, first section; the second is the "remove_file" that follows.
ListEmptyStep(t) ==
    Look(t, "list_empty", RemoveDirListSection(Now(t).path), {"Ok"}, << >>)

(* walk_dir and WalkDirIterator::poll_next.  An error the stream yields ends *)
(* a copy; a client that walks goes on to the next item.                     *)

WalkDirStep(t) ==
    LET listing == ReadDirSection(Now(t).path) IN
    Look(t, "walk_dir", listing, {"Ok"}, Walk(Now(t), listing.entries, {}, << >>))

YieldError(t, code, walk) ==
    IF job[t].request.op = "walk_dir" THEN Resume(t, walk) ELSE Abort(t, code)

\* Fault: a directory that cannot be listed stays on the stack.
WalkListKeeping(t) ==
    LET it == Now(t)
        listing == ReadDirSection(it.todo[Len(it.todo)])
        todo == SubSeq(it.todo, 1, Len(it.todo) - 1) IN
    /\ At(t, {"walk"}) /\ it.left \cup it.held = {}
    /\ UNCHANGED fsVars
    /\ IF listing.code = "Ok" THEN Resume(t, Walk(it, listing.entries, {}, todo))
                              ELSE YieldError(t, listing.code, Walk(it, {}, {}, it.todo))

\* inner is exhausted: the directory leaves the stack when it has been listed,
\* or cannot be.
WalkList(t) ==
    LET it == Now(t)
        listing == ReadDirSection(it.todo[Len(it.todo)])
        todo == SubSeq(it.todo, 1, Len(it.todo) - 1) IN
    /\ At(t, {"walk"}) /\ it.left \cup it.held = {}
    /\ UNCHANGED fsVars
    /\ IF listing.code = "Ok" THEN Resume(t, Walk(it, listing.entries, {}, todo))
                              ELSE YieldError(t, listing.code, Walk(it, {}, {}, todo))

\* Fault: an item whose metadata is pending is not put back.
WalkPendingForgetful(t, child) ==
    /\ At(t, {"walk"}) /\ Now(t).held = {} /\ child \in Now(t).left
    /\ UNCHANGED fsVars
    /\ Resume(t, Walk(Now(t), Now(t).left \ {child}, {}, Now(t).todo))

\* inner has yielded child, but its metadata is pending: prev_result keeps it.
WalkPending(t, child) ==
    /\ At(t, {"walk"}) /\ Now(t).held = {} /\ child \in Now(t).left
    /\ UNCHANGED fsVars
    /\ Resume(t, Walk(Now(t), Now(t).left \ {child}, {child}, Now(t).todo))

\* The metadata of the item at hand is there, at once or after a pending poll.
WalkYield(t, child) ==
    LET it == Now(t)
        metadata == MetadataSection(child)
        todo == IF metadata.kind = "Directory" THEN Append(it.todo, child) ELSE it.todo
        walk == Walk(it, it.left \ {child}, {}, todo)
        copy == [Do("copy_entry", child) EXCEPT !.dest = Rebase(child, it.path, it.dest)]
        use == IF job[t].request.op = "walk_dir" THEN << >> ELSE <<copy>> IN
    /\ At(t, {"walk"})
    /\ UNCHANGED fsVars
    /\ child \in IF it.held = {} THEN it.left ELSE it.held
    /\ IF metadata.code = "Ok"
       THEN job' = [job EXCEPT ![t].agenda = use \o walk \o Tail(@),
                               ![t].yielded = Append(@, child)]
       ELSE YieldError(t, metadata.code, walk)

CopyEntry(t) ==
    LET it == Now(t)
        metadata == MetadataSection(it.path) IN
    Look(t, "copy_entry", metadata, {"Ok"},
         IF metadata.kind = "File" THEN CopyFileSteps(it.path, it.dest)
                                   ELSE CreateDirSteps(it.dest))

-----------------------------------------------------------------------------
Step(t) ==
    /\ \/ ParentExists(t)  \/ ParentIsDir(t)      \/ EnsureParentStep(t) \/ CreateDirStep(t)
       \/ Absent(t)        \/ OpenStep(t)         \/ ReadMetadataStep(t) \/ ExistsStep(t)
       \/ KindStep(t)      \/ CreateFileStep(t)   \/ AppendFileStep(t)   \/ Fill(t)
       \/ DropStep(t)      \/ RemoveStep(t)       \/ RemoveDirAll(t)     \/ ListStep(t)
       \/ ListEmptyStep(t) \/ WalkDirStep(t)      \/ WalkList(t)         \/ CopyEntry(t)
       \/ SetTimeStep(t)
       \/ \E child \in Paths : NextChild(t, child) \/ WalkPending(t, child)
                                                   \/ WalkYield(t, child)
    /\ UNCHANGED <<script, at, before>>

Start(t) ==
    /\ ~Busy(t)
    /\ at[t] < Len(script[t])
    /\ at' = [at EXCEPT ![t] = @ + 1]
    /\ LET r == script[t][at[t] + 1] IN job' = [job EXCEPT ![t] = Job(r, StepsOf(r))]
    /\ UNCHANGED <<fsVars, script, before>>

\* Fault: a copy that can be pending may be dropped before it is complete.
SuspendedAnywhere(t) == Busy(t) /\ Now(t).do # "drop"

\* What follows awaits the lock: filling a handle and dropping it do not.
Suspended(t) == Busy(t) /\ Now(t).do \notin {"fill", "drop"}

\* The caller drops the future of its call: a select!, a timeout, an abort.
Cancel(t) ==
    /\ t \in Impatient
    /\ Suspended(t)
    /\ UNCHANGED <<fsVars, script, at, before>>
    /\ Abort(t, "Cancelled")

Next == \E t \in Tasks : Start(t) \/ Step(t) \/ Cancel(t)

\* The executor polls every task that is woken, and no guard outlives a poll,
\* so no task waits for the lock for ever.  Nobody has to cancel.
Fairness == \A t \in Tasks : WF_asyncVars(Start(t) \/ Step(t))

Spec == Init /\ [][Next]_asyncVars /\ Fairness

-----------------------------------------------------------------------------
MovingOps == {"move_file", "move_dir"}
RemovingOps == {"remove_file", "remove_dir", "remove_dir_all"} \cup MovingOps

\* Where a request may change anything.
Reach(r) ==
    {p \in Paths : \/ r.op \in {"create_dir", "write_file", "append_file"} /\ p = r.path
                   \/ r.op = "create_dir_all" /\ Below(r.path, p)
                   \/ r.op \in RemovingOps /\ Below(p, r.path)
                   \/ r.op \in CopyingOps /\ Below(p, r.dest)}

\* No request but the one t is in may change anything at or below p.
Undisturbed(t, p) ==
    \A u \in Tasks : \A i \in DOMAIN script[u] :
        (u = t /\ i = at[t]) \/ \A q \in Reach(script[u][i]) : ~Below(q, p)

Alone(t) == Undisturbed(t, job[t].request.path) /\ Undisturbed(t, job[t].request.dest)

\* t's request is of one of these kinds and has just ended, in whatever way.
Ends(t, ops) == Busy(t) /\ ~Busy(t)' /\ job[t].request.op \in ops
Succeeds(t, ops) == Ends(t, ops) /\ job'[t].code = "Ok"

\* A move removes files from its source, and may fail or be dropped half-way:
\* at every moment each file is whole at its old place, at its new place or,
\* while the handle is open, in the handle that will publish it.
MovedIsSomewhere ==
    \A t \in Tasks : at[t] > 0 /\ job[t].request.op \in MovingOps /\ Alone(t) =>
        LET p == job[t].request.path
            q == job[t].request.dest
        IN \A s \in Paths : Below(s, p) /\ IsFile(before, s) =>
             \/ job[t].request.op = "move_dir" /\ s = p
             \/ files[s] = before[s]
             \/ files[Rebase(s, p, q)] = before[s]
             \/ /\ At(t, {"drop"}) /\ writer[t].open
                /\ writer[t].path = Rebase(s, p, q) /\ writer[t].buf = before[s].content

\* In every state the variables are of their types and no moved file is lost.
AsyncInv == AsyncTypeOK /\ MovedIsSomewhere

\* However a copy or a move ends - done, failed or dropped at any await - it
\* leaves no half of a file behind: what it has put at the destination is the
\* source's content or, for a directory, a part of the source's tree.  (Only
\* the directory made for a source that is not there remains.)
NoHalfCopies ==
    [][\A t \in Tasks : Ends(t, CopyingOps) /\ Alone(t) =>
          LET p == job[t].request.path
              q == job[t].request.dest
          IN \A s \in Paths : Below(s, q) /\ ~Exists(before, s) /\ Exists(files', s) =>
               \/ files'[s] = before[Rebase(s, q, p)]
               \/ s = q /\ IsDirectory(files', q) /\ ~Exists(before, p)]_asyncVars

\* A copy_dir or move_dir that succeeds has put at the destination the very
\* tree the source held although its walk may have been pending at any item,
\* and its count is the number of entries; a move has left nothing behind.
AsyncCopiesAreFaithful ==
    [][\A t \in Tasks : Succeeds(t, {"copy_dir", "move_dir"}) /\ Alone(t) =>
          LET p == job[t].request.path
              q == job[t].request.dest
              tree == {s \in Paths : Below(s, p) /\ Exists(before, s)}
          IN /\ \A s \in tree : files'[Rebase(s, p, q)] = before[s]
             /\ \A s \in Paths : Below(s, q) /\ Exists(files', s) => Rebase(s, q, p) \in tree
             /\ Len(job'[t].yielded) + 1 = Cardinality(tree)
             /\ job[t].request.op = "move_dir" =>
                  \A s \in tree : ~Exists(files', s)]_asyncVars

\* Other tasks may remove and create entries while a client walks a tree, and
\* the stream then yields errors: it yields nothing twice, and it still yields
\* each entry that is there from the start to the end and stays in a directory
\* nobody touches.
WalksAreComplete ==
    [][\A t \in Tasks : Succeeds(t, {"walk_dir"}) =>
          LET p == job[t].request.path
              seen == job'[t].yielded
          IN /\ \A i, j \in DOMAIN seen : seen[i] = seen[j] => i = j
             /\ \A s \in Paths :
                  /\ s # p /\ Below(s, p) /\ Exists(before, s)
                  /\ \A r \in Paths : Below(s, r) /\ Below(r, p) =>
                        \A u \in Tasks : \A i \in DOMAIN script[u] :
                            r \notin Reach(script[u][i])
                  => \E i \in DOMAIN seen : seen[i] = s]_asyncVars

\* A remove_dir_all, or the one that ends a move_dir, leaves a tree when it
\* fails or is dropped half-way: it never
\* removes a directory before what is in it.
RemovalsLeaveNoOrphans ==
    \A t \in Tasks : at[t] > 0 /\ job[t].request.op \in {"remove_dir_all", "move_dir"} =>
        LET p == job[t].request.path IN
        Undisturbed(t, p) =>
          \A s \in Paths : s # p /\ Below(s, p) /\ Exists(files, s)
                             => IsDirectory(files, Parent(s))

\* What a call of two sections answers about a path nobody else touches is
\* true: is_file and is_dir do not fail, read_to_string returns the content,
\* and append_file has added to it.
UndisturbedAnswers ==
    [][\A t \in Tasks :
          LET r == job[t].request
              code == job'[t].code IN
          Ends(t, {"is_file", "is_dir", "read_to_string", "append_file"})
          /\ code # "Cancelled" /\ Undisturbed(t, r.path) =>
            CASE r.op = "is_file" -> code = IF IsFile(before, r.path) THEN "True" ELSE "False"
              [] r.op = "is_dir"  -> code = IF IsDirectory(before, r.path) THEN "True" ELSE "False"
              [] r.op = "read_to_string" -> /\ code = "Ok" <=> IsFile(before, r.path)
                                            /\ code = "Ok" => job'[t].data = before[r.path].content
              [] OTHER -> code = "Ok" =>
                            files'[r.path] = FileEntry(before[r.path].content \o r.data)]_asyncVars

\* Every call ends, whether or not its caller is patient.
EveryCallEnds == <>(\A t \in Tasks : ~Busy(t) /\ at[t] = Len(script[t]))
=============================================================================
