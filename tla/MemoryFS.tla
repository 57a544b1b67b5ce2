------------------------------- MODULE MemoryFS -------------------------------
(***************************************************************************)
(* MemoryFS (src/impls/memory.rs): one HashMap behind an Arc<RwLock<..>>,   *)
(* used by any number of threads through the FileSystem trait.             *)
(*                                                                         *)
(* The unit of interleaving is the lock section.  A trait method that      *)
(* takes the lock once is one action; create_dir, create_file, open_file   *)
(* and remove_dir take it twice and are two actions, between which any     *)
(* other thread may run.  A write handle keeps its own buffer and takes    *)
(* the lock only when it flushes, which dropping it also does.             *)
(*                                                                         *)
(* Time stamps are left out here: no method of this file decides anything  *)
(* by them.                                                                *)
(***************************************************************************)
EXTENDS FsTree

CONSTANTS
    Threads,
    Calls,          \* the calls clients issue: [thread, op, path]
    FilePaths,      \* the paths a disciplined client uses for files, see below
    Scoped,         \* the threads that issue no call while they hold a writer
    MaxLen          \* bound: a buffer grows to at most MaxLen bytes

ASSUME CallsAssumption == Calls \subseteq [thread : Threads, op : Ops, path : Paths]
ASSUME FilePathsAssumption == FilePaths \subseteq Paths \ {Root}
ASSUME BoundsAssumption == Scoped \subseteq Threads /\ MaxLen \in Nat

VARIABLES
    files,      \* MemoryFsImpl.files
    pc,         \* the two-section call a thread is in the middle of, or "idle"
    arg,        \* that call's path
    writer,     \* the thread's WritableFile; bound: one open handle per thread
    res         \* the thread's last finished call and what it answered

vars == <<files, pc, arg, writer, res>>

PendingOps == {"create_dir", "create_file", "open_file", "remove_dir"}

TypeOK ==
    /\ files \in Maps
    /\ pc \in [Threads -> {"idle"} \cup PendingOps]
    /\ arg \in [Threads -> Paths]
    /\ writer \in [Threads -> Handles(Nat)]
    /\ res \in [Threads -> Results]

Init ==
    /\ files = EmptyMap
    /\ pc = [t \in Threads |-> "idle"]
    /\ arg = [t \in Threads |-> Root]
    /\ writer = [t \in Threads |-> ClosedHandle]
    /\ res = [t \in Threads |-> NoResult]

-----------------------------------------------------------------------------
May(t, op, p) == [thread |-> t, op |-> op, path |-> p] \in Calls

\* t calls op on p; its previous call has returned.
Issue(t, op, p) ==
    /\ pc[t] = "idle"
    /\ t \in Scoped => ~writer[t].open
    /\ May(t, op, p)

\* The first lock section of op is over and the call goes on.
Proceed(t, op, p) ==
    /\ pc' = [pc EXCEPT ![t] = op]
    /\ arg' = [arg EXCEPT ![t] = p]
    /\ UNCHANGED res

\* The call returns.
Return(t, op, p, answer) ==
    /\ res' = [res EXCEPT ![t] = Result(op, p, answer)]
    /\ pc' = [pc EXCEPT ![t] = "idle"]
    /\ arg' = [arg EXCEPT ![t] = Root]

\* The call a thread is in the middle of returns.
Complete(t, answer) == Return(t, pc[t], arg[t], answer)

-----------------------------------------------------------------------------
(* create_dir: look up the parent, unlock, lock again, insert if vacant.    *)

CreateDirEnsureParent(t, p) ==
    /\ Issue(t, "create_dir", p)
    /\ IF HasParent(files, p) THEN Proceed(t, "create_dir", p)
                              ELSE Return(t, "create_dir", p, Answer("NoParent"))
    /\ UNCHANGED <<files, writer>>

OccupiedAnswer(p) ==
    Answer(IF IsFile(files, p) THEN "FileExists" ELSE "DirectoryExists")

\* Fault: map.insert without a look at the entry.
CreateDirInsertBlindly(t) ==
    /\ pc[t] = "create_dir"
    /\ files' = Insert(files, arg[t], DirectoryEntry)
    /\ Complete(t, Answer("Ok"))
    /\ UNCHANGED writer

CreateDirInsert(t) ==
    LET p == arg[t] IN
    /\ pc[t] = "create_dir"
    /\ IF Exists(files, p)
       THEN Complete(t, OccupiedAnswer(p)) /\ UNCHANGED files
       ELSE Complete(t, Answer("Ok")) /\ files' = Insert(files, p, DirectoryEntry)
    /\ UNCHANGED writer

(* create_file: look up the parent, unlock, lock again, insert an empty file *)
(* whatever is there, and hand out a writer with an empty buffer.            *)

CreateFileEnsureParent(t, p) ==
    /\ Issue(t, "create_file", p)
    /\ ~writer[t].open
    /\ IF HasParent(files, p) THEN Proceed(t, "create_file", p)
                              ELSE Return(t, "create_file", p, Answer("NoParent"))
    /\ UNCHANGED <<files, writer>>

CreateFileInsert(t) ==
    LET p == arg[t] IN
    /\ pc[t] = "create_file"
    /\ files' = Insert(files, p, FileEntry(<< >>))
    /\ writer' = [writer EXCEPT ![t] = OpenHandle(p, << >>)]
    /\ Complete(t, Answer("Ok"))

(* open_file: set_access_time fails if the file is gone, then unlock, lock    *)
(* again and take a snapshot of the content.                                  *)

OpenFileTouch(t, p) ==
    /\ Issue(t, "open_file", p)
    /\ IF Exists(files, p) THEN Proceed(t, "open_file", p)
                           ELSE Return(t, "open_file", p, Answer("FileNotFound"))
    /\ UNCHANGED <<files, writer>>

OpenAnswer(f, p) ==
    IF ~Exists(f, p) THEN Answer("FileNotFound")
    ELSE IF ~IsFile(f, p) THEN Answer("NotAFile")
    ELSE [Answer("Ok") EXCEPT !.content = f[p].content]

OpenFileGet(t) ==
    /\ pc[t] = "open_file"
    /\ Complete(t, OpenAnswer(files, arg[t]))
    /\ UNCHANGED <<files, writer>>

(* remove_dir: list the directory, unlock, lock again, remove the entry.     *)

RemoveDirList(t, p) ==
    /\ Issue(t, "remove_dir", p)
    /\ IF ~Exists(files, p) THEN Return(t, "remove_dir", p, Answer("FileNotFound"))
       ELSE IF Children(files, p) # {} THEN Return(t, "remove_dir", p, Answer("NotEmpty"))
       ELSE Proceed(t, "remove_dir", p)
    /\ UNCHANGED <<files, writer>>

RemoveAnswer(f, p) == Answer(IF Exists(f, p) THEN "Ok" ELSE "FileNotFound")

RemoveDirRemove(t) ==
    /\ pc[t] = "remove_dir"
    /\ files' = Remove(files, arg[t])
    /\ Complete(t, RemoveAnswer(files, arg[t]))
    /\ UNCHANGED writer

-----------------------------------------------------------------------------
(* The methods with one lock section.                                       *)

\* append_file: a writer whose buffer starts with the present content and
\* whose cursor is at its end; that the entry is a file is not looked at.
AppendFile(t, p) ==
    /\ Issue(t, "append_file", p)
    /\ ~writer[t].open
    /\ IF Exists(files, p)
       THEN /\ writer' = [writer EXCEPT ![t] = OpenHandle(p, files[p].content)]
            /\ Return(t, "append_file", p, Answer("Ok"))
       ELSE Return(t, "append_file", p, Answer("FileNotFound")) /\ UNCHANGED writer
    /\ UNCHANGED files

RemoveFile(t, p) ==
    /\ Issue(t, "remove_file", p)
    /\ files' = Remove(files, p)
    /\ Return(t, "remove_file", p, RemoveAnswer(files, p))
    /\ UNCHANGED writer

ReadDir(t, p) ==
    /\ Issue(t, "read_dir", p)
    /\ Return(t, "read_dir", p, ReadDirAnswer(files, p))
    /\ UNCHANGED <<files, writer>>

Metadata(t, p) ==
    /\ Issue(t, "metadata", p)
    /\ Return(t, "metadata", p, MetadataAnswer(files, p))
    /\ UNCHANGED <<files, writer>>

ExistsCall(t, p) ==
    /\ Issue(t, "exists", p)
    /\ Return(t, "exists", p, ExistsAnswer(files, p))
    /\ UNCHANGED <<files, writer>>

-----------------------------------------------------------------------------
(* The write handle.  Writing and seeking move the cursor of the handle's   *)
(* own buffer; only flush takes the lock.                                   *)

Holds(t) == pc[t] = "idle" /\ writer[t].open

Write(t, byte) ==
    /\ Holds(t)
    /\ writer[t].pos < MaxLen
    /\ writer' = [writer EXCEPT ![t].buf = Overwrite(@, writer[t].pos, byte),
                                ![t].pos = @ + 1]
    /\ UNCHANGED <<files, pc, arg, res>>

\* Fault: an offset is subtracted without a check that it stays in the file.
SeekUnchecked(t, position) ==
    /\ Holds(t)
    /\ writer' = [writer EXCEPT ![t].pos = @ - position]
    /\ UNCHANGED <<files, pc, arg, res>>

Seek(t, position) ==
    /\ Holds(t)
    /\ writer' = [writer EXCEPT ![t].pos = position]
    /\ UNCHANGED <<files, pc, arg, res>>

\* Fault: the entry's type is kept, as its creation time is.
PublishKeepingType(t) ==
    LET p == writer[t].path
        kind == IF Exists(files, p) THEN files[p].kind ELSE "File"
    IN files' = Insert(files, p, [kind |-> kind, content |-> writer[t].buf])

\* Replaces whatever is at the destination by a file with the whole buffer.
\* The buffer stays in the handle: the clone is swapped in for it.
Publish(t) ==
    files' = Insert(files, writer[t].path, FileEntry(writer[t].buf))

\* Fault: the buffer is moved into the map, the handle keeps an empty one.
FlushMovingBuffer(t) ==
    /\ Holds(t)
    /\ Publish(t)
    /\ writer' = [writer EXCEPT ![t].buf = << >>]
    /\ UNCHANGED <<pc, arg, res>>

Flush(t) ==
    /\ Holds(t)
    /\ Publish(t)
    /\ UNCHANGED <<pc, arg, writer, res>>

Drop(t) ==
    /\ Holds(t)
    /\ Publish(t)
    /\ writer' = [writer EXCEPT ![t] = ClosedHandle]
    /\ UNCHANGED <<pc, arg, res>>

-----------------------------------------------------------------------------
Begin(t, p) ==
    \/ CreateDirEnsureParent(t, p) \/ CreateFileEnsureParent(t, p)
    \/ OpenFileTouch(t, p)         \/ RemoveDirList(t, p)
    \/ AppendFile(t, p)            \/ RemoveFile(t, p)
    \/ ReadDir(t, p)               \/ Metadata(t, p)
    \/ ExistsCall(t, p)

Finish(t) ==
    \/ CreateDirInsert(t) \/ CreateFileInsert(t)
    \/ OpenFileGet(t)     \/ RemoveDirRemove(t)

UseHandle(t) ==
    \/ \E byte \in Bytes : Write(t, byte)
    \/ \E position \in 0 .. MaxLen : Seek(t, position)
    \/ Flush(t)
    \/ Drop(t)

Next ==
    \E t \in Threads :
        \/ \E p \in Paths : Begin(t, p)
        \/ Finish(t)
        \/ UseHandle(t)

Spec == Init /\ [][Next]_vars

-----------------------------------------------------------------------------
(* What holds whatever the clients do.                                      *)

\* VfsMetadata.len is "Length of the file in bytes, 0 for directories"
\* (path.rs): no handle, however late it flushes, leaves content in a
\* directory entry.
DirectoriesHaveNoContent ==
    \A p \in Paths : IsDirectory(files, p) => files[p].content = << >>

\* create_dir looks at the path in one lock section and inserts in that same
\* section, so a file that another thread creates after create_dir has
\* checked the parent is never replaced by a directory.
FilesNeverBecomeDirectories ==
    [][\A p \in Paths : IsFile(files, p) => ~IsDirectory(files', p)]_vars

-----------------------------------------------------------------------------
(* What disciplined clients may rely on.  MemoryFS itself looks at entry     *)
(* kinds almost nowhere: create_file and append_file open a directory for    *)
(* writing, and a flush replaces it.  Nor does remove_dir notice an entry    *)
(* created after it has listed the directory.  The two disciplines rule out  *)
(* exactly these.                                                            *)

CreatingOps == {"create_dir", "create_file", "append_file"}

\* A path is used for files or for directories, never for both; a file has
\* nothing below it.
TypedPaths ==
    \A c \in Calls :
        /\ c.op \in {"create_file", "append_file", "remove_file"} => c.path \in FilePaths
        /\ c.op \in {"create_dir", "remove_dir"} => c.path \notin FilePaths
        /\ c.op \in CreatingOps => Parent(c.path) \notin FilePaths

\* Only the thread that alone creates entries in a directory removes it, with
\* no writer open when it does; the root is never removed.
OwnedRemovals ==
    \A c \in Calls : c.op = "remove_dir" =>
        /\ c.path # Root
        /\ c.thread \in Scoped
        /\ \A d \in Calls :
              d.op \in CreatingOps /\ Parent(d.path) = c.path => d.thread = c.thread

Discipline == TypedPaths /\ OwnedRemovals

\* The map is a tree: the root is a directory and whatever exists lies in a
\* directory that exists, across every interleaving of the two-section
\* methods and of handles flushed late.
TreeOK == IsTree(files)

\* Every path has the kind it is used for.
KindsOK ==
    \A p \in Paths :
        /\ IsFile(files, p) => p \in FilePaths
        /\ IsDirectory(files, p) => p \notin FilePaths

\* Between its two sections a creating call still has the parent it has
\* looked up.
CreatorOK(t) == pc[t] \in {"create_dir", "create_file"} =>
    /\ May(t, pc[t], arg[t])
    /\ arg[t] # Root
    /\ IsDirectory(files, Parent(arg[t]))
    /\ pc[t] = "create_file" => ~writer[t].open

\* An open handle can be flushed: its directory is there.
WriterOK(t) == writer[t].open =>
    /\ May(t, "create_file", writer[t].path) \/ May(t, "append_file", writer[t].path)
    /\ IsDirectory(files, Parent(writer[t].path))

\* Between its two sections a remove_dir still has the directory it has listed
\* empty, unless another remove_dir has removed it.
RemoverOK(t) == pc[t] = "remove_dir" =>
    /\ May(t, "remove_dir", arg[t])
    /\ Children(files, arg[t]) = {}
    /\ ~writer[t].open

TreeInv ==
    /\ TreeOK
    /\ KindsOK
    /\ \A t \in Threads : CreatorOK(t) /\ WriterOK(t) /\ RemoverOK(t)

\* Every call of a disciplined client is one atomic step of AtomicFS, with the
\* answer AtomicFS gives, at its last lock section.
Atomic == INSTANCE AtomicFS
AtomicSpec == Atomic!Spec
=============================================================================
