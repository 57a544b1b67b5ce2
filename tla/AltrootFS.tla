-------------------------------- MODULE AltrootFS --------------------------------
(***************************************************************************)
(* AltrootFS (src/impls/altroot.rs) in front of a PhysicalFS.  It keeps no  *)
(* state and forwards a call to the VfsPath below its root, which makes its *)
(* own checks once more.  What a method of VfsPath does, on either of the   *)
(* two or from one to the other, is therefore a list of steps that all end  *)
(* at the PhysicalFS; one step is one call of the operating system.         *)
(***************************************************************************)
EXTENDS PhysicalFS

CONSTANT AltRoot    \* AltrootFS.root, a path of the PhysicalFS

OnDisk(p) == [fs |-> "physical", path |-> p]
Up(h) == [h EXCEPT !.path = Parent(@)]

\* AltrootFS::path
AltPath(p) == AltRoot \o p

\* The PhysicalFS path that h ends at.  But for create_dir, create_file and
\* copy_file every method of the altroot forwards to the same method of the path
\* below its root, and that to the PhysicalFS: one step, at this path.
Real(h) == IF h.fs = "altroot" THEN AltPath(h.path) ELSE h.path
Os(h) == OsPath(Real(h))

\* A VfsPath, on one of the two file systems.
Places == {h \in [fs : {"physical", "altroot"}, path : AnyPath] : Os(h) \in Paths}

ASSUME RootsAssumption ==
    /\ PhysRoot \in Paths
    /\ AltRoot \in AnyPath

Steps == {"parent_exists", "parent_is_dir", "create_dir", "ensure_dir", "kind_there", "kind_ensured",
          "create_file", "open_append", "write", "absent", "open", "copy_some", "copy_rest",
          "os_copy", "os_some", "os_rest", "rename", "rename_dir", "remove_file", "remove_dir",
          "remove_dir_all", "list", "children", "walk", "copy_entry", "open_file", "metadata",
          "exists", "read_dir", "set_time", "set_time_elsewhere"}

\* left is what a directory iterator has yet to yield, todo the stack of
\* directories a WalkDirIterator has yet to list.
Items == [do : Steps, path : Places, dest : Places, left : SUBSET Places, todo : Seq(Places)]

Do(do, h) == [do |-> do, path |-> h, dest |-> h, left |-> {}, todo |-> << >>]
From(do, h, g) == [Do(do, h) EXCEPT !.dest = g]

-----------------------------------------------------------------------------
\* get_parent: exists and metadata, which AltrootFS forwards one to one.
InDirectory(h) == <<Do("parent_exists", Up(h)), Do("parent_is_dir", Up(h))>>

\* FileSystem::create_dir and create_file: the path below the altroot's root
\* looks for its parent again.
Forwarded(do, h) ==
    IF h.fs = "altroot" THEN Append(InDirectory(OnDisk(Real(h))), Do(do, h)) ELSE <<Do(do, h)>>

CreateDirSteps(h) == InDirectory(h) \o Forwarded("create_dir", h)

\* From the top down, by the file system's own create_dir.
CreateDirAllSteps(h) ==
    LET steps(n) == Forwarded("ensure_dir", [h EXCEPT !.path = SubSeq(@, 1, n)])
        each == IF h.fs = "altroot" THEN 3 ELSE 1
    IN [i \in 1 .. each * Len(h.path) |-> steps(((i - 1) \div each) + 1)[((i - 1) % each) + 1]]

CreateFileSteps(h) == InDirectory(h) \o Forwarded("create_file", h)

WriteFileSteps(h) == Append(CreateFileSteps(h), Do("write", h))

AppendFileSteps(h) == <<Do("open_append", h), Do("write", h)>>

OsCopySteps(h, g) ==
    <<From("os_copy", h, g), From("os_some", h, g), From("os_rest", h, g)>>

\* AltrootFS::copy_file: the path below its root copies, and asks once more
\* whether the destination is there.
AltrootCopySteps(h, g) == <<Do("absent", OnDisk(Real(g)))>> \o OsCopySteps(h, g)

\* io::copy from one file system to the other.
StreamSteps(h, g) ==
    <<Do("open", h)>> \o CreateFileSteps(g) \o <<From("copy_some", h, g), From("copy_rest", h, g)>>

\* Between two file systems, and to the altroot's own root, which it does not
\* support, the bytes are streamed.
Transfer(h, g) ==
    IF h.fs # g.fs \/ (h.fs = "altroot" /\ g.path = Root) THEN StreamSteps(h, g)
    ELSE IF h.fs = "altroot" THEN AltrootCopySteps(h, g) ELSE OsCopySteps(h, g)

CopyFileSteps(h, g) == <<Do("absent", g)>> \o Transfer(h, g)

\* Only PhysicalFS moves a file itself; its error is the answer.
MoveItself(h, g) == h.fs = "physical" /\ g.fs = "physical"

\* Fault: the source is removed once it is open.
MoveFileRemovingFirst(h, g) ==
    <<Do("absent", g)>>
    \o IF MoveItself(h, g) THEN <<From("rename", h, g)>>
       ELSE <<Do("open", h), Do("remove_file", h)>> \o Tail(StreamSteps(h, g))

MoveFileSteps(h, g) ==
    <<Do("absent", g)>>
    \o IF MoveItself(h, g) THEN <<From("rename", h, g)>>
       ELSE Append(StreamSteps(h, g), Do("remove_file", h))

\* copy_dir's walk begins with the source's directory on the stack.
CopyTreeSteps(h, g) ==
    Append(CreateDirSteps(g), [From("walk", h, g) EXCEPT !.todo = <<h>>])

CopyDirSteps(h, g) == <<Do("absent", g)>> \o CopyTreeSteps(h, g)

MoveTreeSteps(h, g) == Append(CopyTreeSteps(h, g), Do("remove_dir_all", h))

MoveDirSteps(h, g) ==
    <<Do("absent", g)>>
    \o IF MoveItself(h, g) THEN <<From("rename_dir", h, g)>> ELSE MoveTreeSteps(h, g)
=============================================================================
