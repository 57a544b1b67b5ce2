----------------------------- MODULE AsyncOverlayFS -----------------------------
(***************************************************************************)
(* AsyncOverlayFS (src/async_vfs/impls/overlay.rs), used by several tasks   *)
(* at once.  A method awaits one call on a layer after another: what it     *)
(* learnt from one may be stale at the next, and its future may be dropped  *)
(* in between.                                                              *)
(*                                                                         *)
(* A step is one call on one layer, whole (FsCalls); AsyncVfsPath is the    *)
(* model of such a call at the grain of its own awaits.  Tasks call the     *)
(* methods of the AsyncFileSystem trait.                                    *)
(***************************************************************************)
EXTENDS OverlayLayers

CONSTANTS
    Tasks,
    Scripts,    \* what the tasks may do: [Tasks -> Seq(Requests)]
    Impatient   \* the tasks whose calls may be dropped while they are pending

OverlayOps == Ops \cup {"set_time"}

\* data is what the client writes to the handle create_file or append_file
\* gives it before it drops the handle.
Requests == [op : OverlayOps, path : UserPaths, data : Contents]

ASSUME ScriptsAssumption == Scripts \subseteq [Tasks -> Seq(Requests)]
ASSUME ImpatientAssumption == Impatient \subseteq Tasks

VARIABLES
    writer,     \* per task, the handle of the first layer it holds
    script,     \* the tasks' scripts, fixed at the start
    at,         \* per task, how many of its requests it has begun
    job,        \* per task, the request it is in and what is left of it
    shown       \* history: what the overlay has shown at the call's path meanwhile

vars == <<layers, writer, script, at, job, shown>>

Steps == {"not_marked", "find", "found_exists", "ensure_dir", "create_dir", "create_file",
          "unmark_look", "unmark", "append_look", "copy_up", "append_file", "remove_look",
          "remove_file", "remove_dir", "mark", "open_file", "metadata", "list_look", "list",
          "marks_look", "marks", "set_time", "fill", "drop"}

\* layer is the layer a step asks; otherwise the code the call ends with when
\* the step does not find what it looks for.
Items == [do : Steps, path : Paths, layer : Nat, otherwise : Codes]

Do(do, p) == [do |-> do, path |-> p, layer |-> 1, otherwise |-> "FileNotFound"]
Or(item, code) == [item EXCEPT !.otherwise = code]

-----------------------------------------------------------------------------
(* The steps each method begins with.                                       *)

\* Fault: the marks are not looked at.
ReadPathUnmarked(p, code) == <<Or(Do("find", p), code)>>

\* read_path: the mark first, then the layers from the first to the last.
ReadPathSteps(p, code) ==
    IF p = Root THEN <<Do("find", p)>>
    ELSE <<Or(Do("not_marked", p), code), Or(Do("find", p), code)>>

\* exists looks for the mark, and read_path looks for it again.
ExistsSteps(p, code) ==
    <<Or(Do("not_marked", p), code)>> \o ReadPathSteps(p, code)
    \o <<Or(Do("found_exists", p), code)>>

CreateDirAllSteps(p) == [n \in 1 .. Len(p) |-> Do("ensure_dir", SubSeq(p, 1, n))]

\* ensure_has_parent: the parent's directories are made in the first layer.
EnsureHasParentSteps(p) == ExistsSteps(Parent(p), "NoParent") \o CreateDirAllSteps(Parent(p))

CreateDirSteps(p) ==
    EnsureHasParentSteps(p) \o <<Do("create_dir", p), Do("unmark_look", p)>>

\* Fault: the mark is taken away before the file is there.
CreateFileUnmarkingFirst(p) ==
    EnsureHasParentSteps(p)
    \o <<Do("unmark_look", p), Do("create_file", p), Do("fill", p), Do("drop", p)>>

CreateFileSteps(p) ==
    EnsureHasParentSteps(p)
    \o <<Do("create_file", p), Do("unmark_look", p), Do("fill", p), Do("drop", p)>>

\* A file the first layer does not have is copied to it.
CopyUpSteps(p) ==
    EnsureHasParentSteps(p) \o ReadPathSteps(p, "FileNotFound") \o <<Do("copy_up", p)>>

\* Fault: the mark is the one of the directory p is in.
MarkParentSteps(p) == CreateDirAllSteps(Parent(Mark(p))) \o <<Do("mark", Parent(p))>>

MarkSteps(p) == CreateDirAllSteps(Parent(Mark(p))) \o <<Do("mark", p)>>

RemoveSteps(p) ==
    ReadPathSteps(p, "FileNotFound") \o <<Do("remove_look", p)>> \o MarkSteps(p)

ReadDirSteps(p) ==
    ReadPathSteps(p, "FileNotFound") \o <<Do("found_exists", p), Do("list_look", p)>>

StepsOf(r) ==
    CASE r.op = "create_dir"  -> CreateDirSteps(r.path)
      [] r.op = "create_file" -> CreateFileSteps(r.path)
      [] r.op = "append_file" -> <<Do("append_look", r.path)>>
      [] r.op \in {"remove_file", "remove_dir"} -> RemoveSteps(r.path)
      [] r.op = "read_dir"    -> ReadDirSteps(r.path)
      [] r.op = "exists"      -> ExistsSteps(r.path, "False")
      [] r.op = "set_time"    -> <<Do("set_time", r.path)>>
      [] r.op \in {"open_file", "metadata"} ->
           Append(ReadPathSteps(r.path, "FileNotFound"), Do(r.op, r.path))

-----------------------------------------------------------------------------
\* found is the layer read_path has come to, start the entry the overlay showed
\* at the call's path when the call began.
Job(r, agenda, start) ==
    [request |-> r, agenda |-> agenda, found |-> 1, start |-> start,
     answer |-> Answer("Ok"), cancelled |-> FALSE]

Idle == Job([op |-> "exists", path |-> Root, data |-> << >>], << >>, VacantEntry)

\* AsyncOverlayFS::new
Init ==
    /\ layers \in InitialLayers
    /\ writer = [t \in Tasks |-> ClosedHandle]
    /\ script \in Scripts
    /\ at = [t \in Tasks |-> 0]
    /\ job = [t \in Tasks |-> Idle]
    /\ shown = [t \in Tasks |-> {}]

-----------------------------------------------------------------------------
Busy(t) == job[t].agenda # << >>
Now(t) == Head(job[t].agenda)
At(t, step) == Busy(t) /\ Now(t).do = step

Resume(t, steps) == job' = [job EXCEPT ![t].agenda = steps \o Tail(@)]

\* The call ends here; a write handle it holds is dropped.
Stop(t, answer, cancelled) ==
    job' = [job EXCEPT ![t].answer = answer,
                       ![t].cancelled = cancelled,
                       ![t].agenda = IF writer'[t].open THEN <<Do("drop", writer[t].path)>>
                                                        ELSE << >>]

Abort(t, code) == Stop(t, Answer(code), FALSE)

\* A step that looks at a layer: with what it looks for, the call goes on.
Look(t, step, found, steps) ==
    /\ At(t, step)
    /\ UNCHANGED <<layers, writer>>
    /\ IF found THEN Resume(t, steps) ELSE Abort(t, Now(t).otherwise)

\* A step whose answer is the call's.
Reply(t, step, answer) ==
    /\ At(t, step)
    /\ UNCHANGED <<layers, writer>>
    /\ job' = [job EXCEPT ![t].answer = answer, ![t].agenda = Tail(@)]

\* A step that leaves outcome.map in the first layer and goes on with these codes.
Change(t, step, outcome, codes) ==
    /\ At(t, step)
    /\ layers' = [layers EXCEPT ![1] = outcome.map]
    /\ UNCHANGED writer
    /\ IF outcome.code \in codes THEN Resume(t, << >>) ELSE Abort(t, outcome.code)

-----------------------------------------------------------------------------
(* read_path and exists                                                     *)

NotMarked(t) == Look(t, "not_marked", ~Exists(Upper, Mark(Now(t).path)), << >>)

\* Fault: the search begins anew instead of ending with the first layer.
FindAgain(t) ==
    LET it == Now(t) IN
    /\ At(t, "find")
    /\ UNCHANGED <<layers, writer>>
    /\ IF it.path = Root \/ Exists(layers[it.layer], it.path)
       THEN job' = [job EXCEPT ![t].found = it.layer, ![t].agenda = Tail(@)]
       ELSE Resume(t, <<[it EXCEPT !.layer = 1 + (it.layer % Len(layers))]>>)

\* One layer is asked after another, and the first one once more at the end.
Find(t) ==
    LET it == Now(t)
        last == it.layer > Len(layers)
        layer == IF last THEN 1 ELSE it.layer IN
    /\ At(t, "find")
    /\ UNCHANGED <<layers, writer>>
    /\ IF it.path = Root \/ Exists(layers[layer], it.path)
       THEN job' = [job EXCEPT ![t].found = layer, ![t].agenda = Tail(@)]
       ELSE IF last THEN Abort(t, it.otherwise)
                    ELSE Resume(t, <<[it EXCEPT !.layer = @ + 1]>>)

FoundExists(t) ==
    Look(t, "found_exists", Exists(layers[job[t].found], Now(t).path), << >>)

OpenFileStep(t) ==
    LET f == layers[job[t].found]
        p == Now(t).path IN
    Reply(t, "open_file",
          IF ~Exists(f, p) THEN Answer("FileNotFound")
          ELSE IF ~IsFile(f, p) THEN Answer("NotAFile")
          ELSE [Answer("Ok") EXCEPT !.content = f[p].content])

MetadataStep(t) ==
    Reply(t, "metadata", MetadataAnswer(layers[job[t].found], Now(t).path))

(* create_dir and create_file                                               *)

\* One directory of a create_dir_all.
EnsureDir(t) ==
    Change(t, "ensure_dir", MemCreateDir(Upper, Now(t).path), {"Ok", "DirectoryExists"})

CreateDirStep(t) ==
    Change(t, "create_dir", CreateDir(Upper, Now(t).path), {"Ok"})

CreateFileStep(t) ==
    LET p == Now(t).path
        outcome == CreateFile(Upper, p, << >>) IN
    /\ At(t, "create_file")
    /\ layers' = [layers EXCEPT ![1] = outcome.map]
    /\ writer' = IF outcome.code = "Ok" THEN [writer EXCEPT ![t] = OpenHandle(p, << >>)]
                                        ELSE writer
    /\ IF outcome.code = "Ok" THEN Resume(t, << >>) ELSE Abort(t, outcome.code)

UnmarkLook(t) ==
    LET p == Now(t).path
        unmark == IF Exists(Upper, Mark(p)) THEN <<Do("unmark", p)>> ELSE << >> IN
    Look(t, "unmark_look", TRUE, unmark)

Unmark(t) == Change(t, "unmark", RemoveFile(Upper, Mark(Now(t).path)), {"Ok"})

(* append_file                                                              *)

AppendLook(t) ==
    LET p == Now(t).path
        copy == IF Exists(Upper, p) THEN << >> ELSE CopyUpSteps(p) IN
    Look(t, "append_look", TRUE,
         copy \o <<Do("append_file", p), Do("fill", p), Do("drop", p)>>)

\* A file that has come to the first layer meanwhile makes the copy fail.
CopyUp(t) ==
    LET p == Now(t).path IN
    Change(t, "copy_up", CopyFile(layers[job[t].found], p, Upper, p), {"Ok"})

\* Fault: the handle starts empty.
AppendFileEmpty(t) ==
    LET p == Now(t).path IN
    /\ At(t, "append_file")
    /\ UNCHANGED layers
    /\ writer' = [writer EXCEPT ![t] = OpenHandle(p, << >>)]
    /\ Resume(t, << >>)

AppendFile(t) ==
    LET p == Now(t).path IN
    /\ At(t, "append_file")
    /\ UNCHANGED layers
    /\ writer' = IF Exists(Upper, p)
                 THEN [writer EXCEPT ![t] = OpenHandle(p, Upper[p].content)] ELSE writer
    /\ IF Exists(Upper, p) THEN Resume(t, << >>) ELSE Abort(t, "FileNotFound")

(* remove_file and remove_dir                                               *)

RemoveLook(t) ==
    LET p == Now(t).path
        removal == IF Exists(Upper, p) THEN <<Do(job[t].request.op, p)>> ELSE << >> IN
    Look(t, "remove_look", TRUE, removal)

RemoveFileStep(t) == Change(t, "remove_file", RemoveFile(Upper, Now(t).path), {"Ok"})

RemoveDirStep(t) == Change(t, "remove_dir", RemoveDir(Upper, Now(t).path), {"Ok"})

\* The handle of the mark is dropped at once.
MarkStep(t) == Change(t, "mark", CreateFile(Upper, Mark(Now(t).path), << >>), {"Ok"})

(* read_dir: each layer that has the directory is listed, then the marks.   *)

Listed(t, entries) == [job EXCEPT ![t].answer.entries = entries, ![t].agenda = Tail(@)]

\* After the last layer comes the directory of the marks.
NextLayer(it) ==
    IF it.layer < Len(layers) THEN <<[it EXCEPT !.do = "list_look", !.layer = @ + 1]>>
                              ELSE <<Do("marks_look", it.path)>>

ListLook(t) ==
    LET it == Now(t) IN
    Look(t, "list_look", TRUE,
         IF Exists(layers[it.layer], it.path) THEN <<[it EXCEPT !.do = "list"]>>
                                              ELSE NextLayer(it))

List(t) ==
    LET it == Now(t)
        f == layers[it.layer] IN
    /\ At(t, "list")
    /\ UNCHANGED <<layers, writer>>
    /\ IF Exists(f, it.path)
       THEN job' = [job EXCEPT ![t].answer.entries = @ \cup Children(f, it.path),
                               ![t].agenda = NextLayer(it) \o Tail(@)]
       ELSE Abort(t, "FileNotFound")

MarksLook(t) ==
    LET p == Now(t).path
        marks == IF Exists(Upper, MarkDir(p)) THEN <<Do("marks", p)>> ELSE << >> IN
    Look(t, "marks_look", TRUE, marks)

\* Fault: the names of the marks are taken for those of the entries.
MarksUnstripped(t) ==
    LET marked == Children(Upper, MarkDir(Now(t).path)) IN
    /\ At(t, "marks")
    /\ UNCHANGED <<layers, writer>>
    /\ job' = [job EXCEPT
                 ![t].answer.entries = {q \in @ : q \in UserPaths => MarkDir(q) \notin marked},
                 ![t].agenda = Tail(@)]

Marks(t) ==
    LET marked == Children(Upper, MarkDir(Now(t).path)) IN
    /\ At(t, "marks")
    /\ UNCHANGED <<layers, writer>>
    /\ job' = [job EXCEPT
                 ![t].answer.entries = {q \in @ : q \in UserPaths => Mark(q) \notin marked},
                 ![t].agenda = Tail(@)]

(* set_*_time, and the handle.                                              *)

\* The first layer's file system does not support it, be there a file or not.
SetTime(t) == Reply(t, "set_time", Answer("NotSupported"))

Fill(t) ==
    /\ At(t, "fill")
    /\ writer' = [writer EXCEPT ![t] =
                    OpenHandle(writer[t].path, writer[t].buf \o job[t].request.data)]
    /\ UNCHANGED layers
    /\ Resume(t, << >>)

Drop(t) ==
    /\ At(t, "drop")
    /\ layers' = [layers EXCEPT ![1] = Insert(@, writer[t].path, FileEntry(writer[t].buf))]
    /\ writer' = [writer EXCEPT ![t] = ClosedHandle]
    /\ Resume(t, << >>)

-----------------------------------------------------------------------------
Step(t) ==
    \/ NotMarked(t)    \/ Find(t)          \/ FoundExists(t)  \/ OpenFileStep(t)
    \/ MetadataStep(t) \/ EnsureDir(t)     \/ CreateDirStep(t) \/ CreateFileStep(t)
    \/ UnmarkLook(t)   \/ Unmark(t)        \/ AppendLook(t)   \/ CopyUp(t)
    \/ AppendFile(t)   \/ RemoveLook(t)    \/ RemoveFileStep(t) \/ RemoveDirStep(t)
    \/ MarkStep(t)     \/ ListLook(t)      \/ List(t)         \/ MarksLook(t)
    \/ Marks(t)        \/ SetTime(t)       \/ Fill(t)         \/ Drop(t)

Start(t) ==
    /\ ~Busy(t)
    /\ at[t] < Len(script[t])
    /\ at' = [at EXCEPT ![t] = @ + 1]
    /\ LET r == script[t][at[t] + 1]
       IN job' = [job EXCEPT ![t] = Job(r, StepsOf(r), View[r.path])]
    /\ UNCHANGED <<layers, writer>>

\* The caller drops the future of its call where it awaits a layer.
Cancel(t) ==
    /\ t \in Impatient
    /\ Busy(t) /\ Now(t).do \notin {"fill", "drop"}
    /\ UNCHANGED <<layers, writer, at>>
    /\ Stop(t, Answer("Ok"), TRUE)

\* What the overlay shows at the path of each call that is under way.
Watch ==
    shown' = [t \in Tasks |-> IF ~Busy(t)' THEN {}
                              ELSE shown[t] \cup {View'[job'[t].request.path]}]

Next ==
    /\ \E t \in Tasks : Start(t) \/ (Step(t) /\ UNCHANGED at) \/ Cancel(t)
    /\ Watch
    /\ UNCHANGED script

\* The executor polls every task that is woken; nobody has to cancel.
Fairness == \A t \in Tasks : WF_<<layers, writer, at, job>>(Start(t) \/ (Step(t) /\ UNCHANGED at))

Spec == Init /\ [][Next]_vars /\ Fairness

-----------------------------------------------------------------------------
CreatingOps == {"create_dir", "create_file", "append_file"}
RemovingOps == {"remove_file", "remove_dir"}

\* No request but the one t is in is about p.
Sole(t, p) ==
    \A u \in Tasks : \A i \in DOMAIN script[u] :
        (u = t /\ i = at[t]) \/ script[u][i].path # p \/ script[u][i].op \notin
                                    CreatingOps \cup RemovingOps

Acts(t) == job'[t] # job[t]
Ends(t, ops) == Busy(t) /\ ~Busy(t)' /\ job[t].request.op \in ops

\* The call makes a directory above its path.  ensure_has_parent looks for the
\* parent, in any layer and whatever it is, and makes it in the first layer some
\* awaits later: a directory that another call removes in between is made again,
\* and a file of a lower layer is covered by a directory.
MakesItsParents(t, p) ==
    LET r == job[t].request IN
    /\ r.op \in CreatingOps
    /\ p # r.path /\ Below(r.path, p)
    /\ View'[p] = DirectoryEntry
    /\ \/ IsFile(View, p)
       \/ \E u \in Tasks \ {t} : \E i \in 1 .. at[u] :
             script[u][i].op \in RemovingOps /\ script[u][i].path = p

\* Another task creates below t's path, a file when t's call began: the file may
\* be covered by a directory, as above.
UsedAsDirectory(t) ==
    LET p == job[t].request.path IN
    /\ job[t].start.kind = "File"
    /\ \E u \in Tasks \ {t} : \E i \in 1 .. at[u] :
          LET r == script[u][i] IN
          r.op \in CreatingOps /\ r.path # p /\ Below(r.path, p)

\* Whatever a call does on the way - directories and marks in the first layer,
\* copies upwards - the overlay shows a difference at the call's own path only,
\* but for the directories above it that are gone or are files; in whatever order
\* the tasks' steps come and wherever a call is dropped.
OnlyItsOwnPath ==
    [][\A t \in Tasks : Acts(t) =>
          \A p \in UserPaths \ {job[t].request.path} :
             View'[p] = View[p] \/ MakesItsParents(t, p)]_vars

\* A call on a path no other call changes meanwhile does what it promises: when
\* it has answered Ok, the overlay shows the directory, the client's data, the
\* lower file with the data appended, or nothing.  An error leaves the path as
\* it was.  A file below which another call creates something is left out.
SoleCallsTakeEffect ==
    [][\A t \in Tasks :
          LET r == job[t].request
              shows == View'[r.path]
              start == job[t].start IN
          /\ Ends(t, CreatingOps \cup RemovingOps)
          /\ ~job'[t].cancelled
          /\ Sole(t, r.path) /\ ~UsedAsDirectory(t)
          => \/ job'[t].answer.code # "Ok" /\ shows = start
             \/ /\ job'[t].answer.code = "Ok"
                /\ CASE r.op = "create_dir"  -> shows = DirectoryEntry
                     [] r.op = "create_file" -> shows = FileEntry(r.data)
                     [] r.op = "append_file" -> shows = FileEntry(start.content \o r.data)
                     [] r.op \in RemovingOps -> shows = VacantEntry]_vars

\* A call that is dropped on the way leaves its path as it was, or as it wanted
\* it, or - a removal that was to mark what a lower layer holds too - as that
\* lower layer has it, but never anything else.
DroppedCallsLeaveNoMixture ==
    [][\A t \in Tasks :
          LET r == job[t].request
              shows == View'[r.path]
              start == job[t].start IN
          /\ Ends(t, CreatingOps \cup RemovingOps)
          /\ job'[t].cancelled
          /\ Sole(t, r.path) /\ ~UsedAsDirectory(t)
          => \/ shows = start
             \/ r.op = "create_dir" /\ shows = DirectoryEntry
             \/ r.op = "create_file" /\ shows = FileEntry(<< >>)
             \/ r.op \in RemovingOps /\ shows = VacantEntry
             \/ r.op \in RemovingOps /\ \E i \in 2 .. Len(layers) : shows = layers[i][r.path]]_vars

\* What has been removed does not come back by itself: a path that shows nothing
\* shows something again only by a call that creates it, and unless another call
\* removes the same path meanwhile that is what the call made, never what a
\* lower layer held before; or it is a directory that a call below it makes again.
NothingComesBack ==
    [][\A p \in UserPaths : ~Exists(View, p) /\ Exists(View', p) =>
          \E t \in Tasks :
             LET r == job[t].request IN
             /\ Acts(t)
             /\ \/ MakesItsParents(t, p)
                \/ /\ r.path = p /\ r.op \in CreatingOps
                   /\ Sole(t, p) => View'[p] \in {DirectoryEntry, FileEntry(<< >>),
                                                  FileEntry(r.data)}]_vars

\* Another task has begun a call of these kinds on t's path.
Rival(t, ops) ==
    \E u \in Tasks \ {t} : \E i \in 1 .. at[u] :
        script[u][i].op \in ops /\ script[u][i].path = job[t].request.path

\* open_file, metadata and exists ask several layers one after another while
\* other calls change them.  They still answer from what the overlay has shown
\* at some moment of the call, but for two cases: a call that is removing the
\* very path may make them miss it, and a file that is being created again may
\* be met in the first layer before its mark is taken away.
ReadsAreReal ==
    [][\A t \in Tasks :
          LET r == job[t].request
              answer == job'[t].answer
              real == shown[t] \cup IF Rival(t, CreatingOps) THEN {Upper[r.path]} ELSE {}
          IN Ends(t, {"open_file", "metadata", "exists"}) /\ ~job'[t].cancelled =>
             CASE answer.code \in {"FileNotFound", "False"} ->
                    Rival(t, RemovingOps) \/ \E e \in shown[t] : e.kind = "Vacant"
               [] r.op = "open_file" /\ answer.code = "Ok" ->
                    FileEntry(answer.content) \in real
               [] r.op = "metadata" ->
                    \E e \in real : e.kind = answer.kind /\ Len(e.content) = answer.len
               [] OTHER -> \E e \in real : e.kind # "Vacant"]_vars

\* A listing made layer by layer while others work in the directory has every
\* entry that nobody touches and is shown, and none that is not.
ListingsAreRight ==
    [][\A t \in Tasks : Ends(t, {"read_dir"}) /\ ~job'[t].cancelled
                        /\ job'[t].answer.code = "Ok" =>
          \A q \in UserPaths : q # Root /\ Parent(q) = job[t].request.path /\ Sole(t, q) =>
             (q \in job'[t].answer.entries <=> Exists(View, q))]_vars

\* Every call ends.
EveryCallEnds == <>(\A t \in Tasks : ~Busy(t) /\ at[t] = Len(script[t]))
=============================================================================
