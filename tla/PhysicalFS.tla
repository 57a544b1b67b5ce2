------------------------------- MODULE PhysicalFS -------------------------------
(***************************************************************************)
(* PhysicalFS (src/impls/physical.rs): which call of the operating system a *)
(* method makes, at which path, and what it makes of the errors.  All state *)
(* is on the disk; AsyncPhysicalFS makes the same calls from a thread pool. *)
(***************************************************************************)
EXTENDS Disk

CONSTANT PhysRoot   \* PhysicalFS.root, a path of the operating system

\* Fault: a path that begins with '/' replaces the root it is joined to.
OsPathUnstripped(p) == IF p = Root THEN PhysRoot ELSE p

\* get_path
OsPath(p) == PhysRoot \o p

\* Of the operating system's errors only NotFound has a kind of its own.
VfsCode(error) ==
    IF error = "None" THEN "Ok" ELSE IF error = "NotFound" THEN "FileNotFound" ELSE "IoError"

ReadDir(f, p) ==
    LET entries == {SubSeq(q, Len(PhysRoot) + 1, Len(q)) : q \in Children(f, OsPath(p))} IN
    IF IsDirectory(f, OsPath(p)) THEN [Answer("Ok") EXCEPT !.entries = entries]
    ELSE Answer(IF IsFile(f, OsPath(p)) THEN "IoError" ELSE VfsCode(Find(f, OsPath(p))))

CreateDir(f, p) == Mkdir(f, OsPath(p))

\* Fault: the path is looked up as it is given.
KindThereUnrooted(f, p) ==
    IF ~Exists(f, p) THEN "Panic" ELSE IF IsDirectory(f, p) THEN "DirectoryExists" ELSE "FileExists"

\* create_dir asks what there is already, and unwraps the answer.
KindThere(f, p) ==
    LET q == OsPath(p) IN
    IF ~Exists(f, q) THEN "Panic" ELSE IF IsDirectory(f, q) THEN "DirectoryExists" ELSE "FileExists"

OpenAnswer(f, p) == VfsCode(Find(f, OsPath(p)))

\* A directory can be opened, though not read from.
OpenFile(f, p) == [Opened(OsPath(p)) EXCEPT !.directory = IsDirectory(f, OsPath(p))]

CreateFile(f, p) == Creat(f, OsPath(p))

\* Fault: opened for writing, and moved to the end once.
AppendFileSeeking(f, p) ==
    [Opened(OsPath(p)) EXCEPT !.pos = Len(f[OsPath(p)].content)]

AppendFile(f, p) == [Opened(OsPath(p)) EXCEPT !.appending = TRUE]

Metadata(f, p) ==
    LET it == f[OsPath(p)] IN
    IF it.kind = "Vacant" THEN Answer(VfsCode(Find(f, OsPath(p))))
    ELSE [Answer("Ok") EXCEPT !.kind = it.kind, !.len = Len(it.content)]

\* set_modification_time and set_access_time
SetTime(f, p) == VfsCode(Find(f, OsPath(p)))

ThereIs(f, p) == Exists(f, OsPath(p))

RemoveFile(f, p) == Unlink(f, OsPath(p))

RemoveDir(f, p) == Rmdir(f, OsPath(p))

\* std::fs::copy looks at the source, and creates or empties the destination
\* before it copies.
CopyFile(f, p, q) ==
    IF ~IsFile(f, OsPath(p))
    THEN Outcome(f, IF Exists(f, OsPath(p)) THEN "InvalidInput" ELSE Find(f, OsPath(p)))
    ELSE Creat(f, OsPath(q))

MoveFile(f, p, q) == Rename(f, OsPath(p), OsPath(q))

\* Whatever the error, the caller is to move the entries one by one.
MoveDir(f, p, q) ==
    LET renamed == Rename(f, OsPath(p), OsPath(q)) IN
    IF renamed.error = "None" THEN renamed ELSE [renamed EXCEPT !.error = "NotSupported"]
=============================================================================
