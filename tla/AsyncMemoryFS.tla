----------------------------- MODULE AsyncMemoryFS -----------------------------
(***************************************************************************)
(* AsyncMemoryFS (src/async_vfs/impls/memory.rs): one HashMap behind an     *)
(* Arc<RwLock<..>>, used by the tasks of an executor.  No guard is held     *)
(* over an await that can be pending, so a method is a sequence of lock     *)
(* sections, and a task that awaits the lock between two of them may see    *)
(* others run, or may be dropped there.                                     *)
(*                                                                         *)
(* A section that only reads is an operator on the map, a section that      *)
(* writes is an action; AsyncVfsPath puts them in order.  Unlike the        *)
(* synchronous file system, opening a file touches no time stamp and is one *)
(* section, and a handle publishes its buffer only when it is dropped.      *)
(***************************************************************************)
EXTENDS FsTree

CONSTANT Tasks

VARIABLES
    files,      \* AsyncMemoryFsImpl.files
    writer      \* per task, the AsyncWritableFile it holds

fsVars == <<files, writer>>

FsTypeOK ==
    /\ files \in Maps
    /\ writer \in [Tasks -> Handles(Nat)]

\* AsyncMemoryFS::new
NewMap == EmptyMap

-----------------------------------------------------------------------------
(* Sections that only read.                                                 *)

\* ensure_has_parent, the first section of create_dir and create_file.
EnsureHasParent(p) == Answer(IF HasParent(files, p) THEN "Ok" ELSE "NoParent")

\* read_dir collects the children under one read guard.
ReadDirSection(p) == ReadDirAnswer(files, p)

MetadataSection(p) == MetadataAnswer(files, p)

ExistsSection(p) == ExistsAnswer(files, p)

\* The content is a snapshot: the Arc is cloned.
OpenFileSection(p) ==
    IF ~Exists(files, p) THEN Answer("FileNotFound")
    ELSE IF ~IsFile(files, p) THEN Answer("NotAFile")
    ELSE [Answer("Ok") EXCEPT !.content = files[p].content]

\* The first section of remove_dir.
RemoveDirListSection(p) ==
    IF ~Exists(files, p) THEN Answer("FileNotFound")
    ELSE IF Children(files, p) # {} THEN Answer("NotEmpty")
    ELSE Answer("Ok")

\* The trait's default copy_file, move_file and move_dir, and set_*_time: no
\* lock, no await.
TransferAnswer == Answer("NotSupported")
SetTimeAnswer == Answer("NotSupported")

-----------------------------------------------------------------------------
(* Sections that write, each with what it answers.                          *)

CreateDirAnswer(p) ==
    Answer(IF IsFile(files, p) THEN "FileExists"
           ELSE IF IsDirectory(files, p) THEN "DirectoryExists" ELSE "Ok")

CreateDirInsert(p) ==
    /\ files' = IF Exists(files, p) THEN files ELSE Insert(files, p, DirectoryEntry)
    /\ UNCHANGED writer

\* Whatever is at p becomes an empty file, and the task holds a handle.
CreateFileInsert(t, p) ==
    /\ files' = Insert(files, p, FileEntry(<< >>))
    /\ writer' = [writer EXCEPT ![t] = OpenHandle(p, << >>)]

\* The handle starts with the present content and its cursor at the end; that
\* the entry is a file is not looked at.
AppendFileAnswer(p) == Answer(IF Exists(files, p) THEN "Ok" ELSE "FileNotFound")

AppendFile(t, p) ==
    /\ writer' = IF Exists(files, p)
                 THEN [writer EXCEPT ![t] = OpenHandle(p, files[p].content)]
                 ELSE writer
    /\ UNCHANGED files

\* remove_file, and the second section of remove_dir.
RemoveAnswer(p) == Answer(IF Exists(files, p) THEN "Ok" ELSE "FileNotFound")

RemoveFile(p) == files' = Remove(files, p) /\ UNCHANGED writer

-----------------------------------------------------------------------------
(* The handle.  poll_write, poll_flush and poll_close reach the Cursor and  *)
(* nothing else, and are always ready.                                      *)

PollWrite(t, data) ==
    /\ writer' = [writer EXCEPT ![t] = OpenHandle(writer[t].path, writer[t].buf \o data)]
    /\ UNCHANGED files

\* Fault: a handle that is dropped publishes nothing.
DropForgetting(t) ==
    /\ writer' = [writer EXCEPT ![t] = ClosedHandle]
    /\ UNCHANGED files

\* AsyncWritableFile::drop: block_on(write()) and insert; no await, so it
\* cannot be dropped in its turn.
Drop(t) ==
    /\ files' = Insert(files, writer[t].path, FileEntry(writer[t].buf))
    /\ writer' = [writer EXCEPT ![t] = ClosedHandle]
=============================================================================
