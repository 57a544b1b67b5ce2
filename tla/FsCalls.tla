-------------------------------- MODULE FsCalls --------------------------------
(***************************************************************************)
(* The VfsPath calls (path.rs) that OverlayFS makes on one of its layers, a *)
(* MemoryFS that nobody else uses meanwhile: each call maps the layer's     *)
(* file map to the map it leaves behind and the code it answers.  A call    *)
(* made of several steps leaves behind what it has done before it failed.   *)
(***************************************************************************)
EXTENDS FsTree

Done(f) == [map |-> f, code |-> "Ok"]
Failed(f, code) == [map |-> f, code |-> code]

\* The `?` between two calls: the second runs on what the first has left.
Then(first, Second(_)) == IF first.code = "Ok" THEN Second(first.map) ELSE first

\* VfsPath::get_parent; the root's parent is the root.
ParentIsDirectory(f, p) == IsDirectory(f, Parent(p))

MemCreateDir(f, p) ==
    IF ~HasParent(f, p) THEN Failed(f, "NoParent")
    ELSE IF IsFile(f, p) THEN Failed(f, "FileExists")
    ELSE IF IsDirectory(f, p) THEN Failed(f, "DirectoryExists")
    ELSE Done(Insert(f, p, DirectoryEntry))

CreateDir(f, p) ==
    IF ParentIsDirectory(f, p) THEN MemCreateDir(f, p) ELSE Failed(f, "NoParent")

\* From the top down; only a directory that is there already is no failure.
CreateDirAll(f, p) ==
    LET Descend[n \in 0 .. Len(p)] ==
          IF n = 0 THEN Done(f)
          ELSE LET made == Then(Descend[n - 1], LAMBDA g : MemCreateDir(g, SubSeq(p, 1, n)))
               IN IF made.code = "DirectoryExists" THEN Done(made.map) ELSE made
    IN Descend[Len(p)]

\* The file is empty, or holds what has been copied into it when the handle
\* is dropped.
CreateFile(f, p, content) ==
    IF ParentIsDirectory(f, p) /\ HasParent(f, p)
    THEN Done(Insert(f, p, FileEntry(content))) ELSE Failed(f, "NoParent")

\* Between two file systems: a destination that exists is an error, otherwise
\* the source's content is read and written to a new file.
CopyFile(source, p, f, q) ==
    IF Exists(f, q) THEN Failed(f, "FileExists")
    ELSE IF ~Exists(source, p) THEN Failed(f, "FileNotFound")
    ELSE IF ~IsFile(source, p) THEN Failed(f, "NotAFile")
    ELSE CreateFile(f, q, source[p].content)

\* remove_file does not look at the kind of what it removes.
RemoveFile(f, p) ==
    IF Exists(f, p) THEN Done(Remove(f, p)) ELSE Failed(f, "FileNotFound")

RemoveDir(f, p) ==
    IF ~Exists(f, p) THEN Failed(f, "FileNotFound")
    ELSE IF Children(f, p) # {} THEN Failed(f, "NotEmpty")
    ELSE Done(Remove(f, p))
=============================================================================
