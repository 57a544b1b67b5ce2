------------------------------- MODULE AtomicFS -------------------------------
(***************************************************************************)
(* What a file system of this crate promises its clients: a tree of files   *)
(* and directories on which every call is one atomic step.  This is the     *)
(* contract of the FileSystem trait (filesystem.rs), with the answers that  *)
(* MemoryFS gives.                                                          *)
(*                                                                         *)
(* A call has a defined effect only where the contract says so: create_file *)
(* over a directory, say, is no step of this specification.                 *)
(***************************************************************************)
EXTENDS FsTree

CONSTANT Threads

VARIABLES
    files,      \* the tree
    writer,     \* per thread, its open write handle
    res         \* per thread, its last call and the answer

vars == <<files, writer, res>>

\* A file system starts as any tree.
Init ==
    /\ IsTree(files)
    /\ writer = [t \in Threads |-> ClosedHandle]
    /\ res = [t \in Threads |-> NoResult]

\* Something can be put at p.
HasRoom(p) == p # Root /\ IsDirectory(files, Parent(p))

Tell(t, op, p, answer) == res' = [res EXCEPT ![t] = Result(op, p, answer)]

\* A call that fails changes nothing.
Refuse(t, op, p, code) == Tell(t, op, p, Answer(code)) /\ UNCHANGED <<files, writer>>

-----------------------------------------------------------------------------
CreateDir(t, p) ==
    \/ ~HasRoom(p) /\ Refuse(t, "create_dir", p, "NoParent")
    \/ HasRoom(p) /\ IsFile(files, p) /\ Refuse(t, "create_dir", p, "FileExists")
    \/ HasRoom(p) /\ IsDirectory(files, p) /\ Refuse(t, "create_dir", p, "DirectoryExists")
    \/ /\ HasRoom(p) /\ ~Exists(files, p)
       /\ files' = Insert(files, p, DirectoryEntry)
       /\ Tell(t, "create_dir", p, Answer("Ok"))
       /\ UNCHANGED writer

\* A handle is opened while no other is.
CreateFile(t, p) ==
    \/ ~HasRoom(p) /\ Refuse(t, "create_file", p, "NoParent")
    \/ /\ HasRoom(p) /\ ~IsDirectory(files, p) /\ ~writer[t].open
       /\ files' = Insert(files, p, FileEntry(<< >>))
       /\ writer' = [writer EXCEPT ![t] = OpenHandle(p, << >>)]
       /\ Tell(t, "create_file", p, Answer("Ok"))

AppendFile(t, p) ==
    \/ ~Exists(files, p) /\ Refuse(t, "append_file", p, "FileNotFound")
    \/ /\ IsFile(files, p) /\ ~writer[t].open
       /\ writer' = [writer EXCEPT ![t] = OpenHandle(p, files[p].content)]
       /\ Tell(t, "append_file", p, Answer("Ok"))
       /\ UNCHANGED files

OpenFile(t, p) ==
    \/ ~Exists(files, p) /\ Refuse(t, "open_file", p, "FileNotFound")
    \/ IsDirectory(files, p) /\ Refuse(t, "open_file", p, "NotAFile")
    \/ /\ IsFile(files, p)
       /\ Tell(t, "open_file", p, [Answer("Ok") EXCEPT !.content = files[p].content])
       /\ UNCHANGED <<files, writer>>

RemoveFile(t, p) ==
    \/ ~Exists(files, p) /\ Refuse(t, "remove_file", p, "FileNotFound")
    \/ /\ IsFile(files, p)
       /\ files' = Remove(files, p)
       /\ Tell(t, "remove_file", p, Answer("Ok"))
       /\ UNCHANGED writer

RemoveDir(t, p) ==
    \/ ~Exists(files, p) /\ Refuse(t, "remove_dir", p, "FileNotFound")
    \/ Children(files, p) # {} /\ Refuse(t, "remove_dir", p, "NotEmpty")
    \/ /\ IsDirectory(files, p) /\ p # Root /\ Children(files, p) = {}
       /\ files' = Remove(files, p)
       /\ Tell(t, "remove_dir", p, Answer("Ok"))
       /\ UNCHANGED writer

Look(t, p) ==
    /\ \/ Tell(t, "read_dir", p, ReadDirAnswer(files, p))
       \/ Tell(t, "metadata", p, MetadataAnswer(files, p))
       \/ Tell(t, "exists", p, ExistsAnswer(files, p))
    /\ UNCHANGED <<files, writer>>

\* An open handle is written to, moved, and published, which puts its whole
\* buffer at its path; the last publication closes it.
EditHandle(t) ==
    /\ writer[t].open
    /\ \E byte \in Bytes :
         writer' = [writer EXCEPT ![t].buf = Overwrite(@, writer[t].pos, byte),
                                  ![t].pos = @ + 1]
    /\ UNCHANGED <<files, res>>

MoveHandle(t) ==
    /\ writer[t].open
    /\ writer'[t].pos \in Nat
    /\ writer' = [writer EXCEPT ![t].pos = writer'[t].pos]
    /\ UNCHANGED <<files, res>>

PublishHandle(t) ==
    LET p == writer[t].path IN
    /\ writer[t].open
    /\ HasRoom(p) /\ ~IsDirectory(files, p)
    /\ files' = Insert(files, p, FileEntry(writer[t].buf))
    /\ writer' \in {writer, [writer EXCEPT ![t] = ClosedHandle]}
    /\ UNCHANGED res

-----------------------------------------------------------------------------
Call(t, p) ==
    \/ CreateDir(t, p)  \/ CreateFile(t, p) \/ AppendFile(t, p) \/ OpenFile(t, p)
    \/ RemoveFile(t, p) \/ RemoveDir(t, p)  \/ Look(t, p)

Next ==
    \E t \in Threads :
        \/ \E p \in Paths : Call(t, p)
        \/ EditHandle(t) \/ MoveHandle(t) \/ PublishHandle(t)

Spec == Init /\ [][Next]_vars
=============================================================================
