-------------------------------- MODULE FsTree --------------------------------
(***************************************************************************)
(* The file map every implementation of the FileSystem trait presents: a   *)
(* map from paths to entries (MemoryFsImpl.files in memory.rs), with the   *)
(* pure operators on it that the specifications share.                     *)
(*                                                                         *)
(* A path is the sequence of its components, so the root "" is << >> and   *)
(* "/a/b" is <<a, b>>.  PathAlgebra is where the texts and their           *)
(* normalisation are modelled; here paths are already normal, which is the *)
(* only form VfsPath hands to a file system (join_internal).               *)
(*                                                                         *)
(* The map is total: a path the HashMap does not hold has the entry Vacant.*)
(***************************************************************************)
EXTENDS Naturals, Sequences

CONSTANTS
    Paths,      \* the paths the model knows, closed under Parent
    Bytes       \* the bytes clients write

Root == << >>

\* The path up to its last '/'; the root is its own parent.
Parent(p) == IF p = Root THEN Root ELSE SubSeq(p, 1, Len(p) - 1)

ASSUME PathsAssumption ==
    /\ Root \in Paths
    /\ \A p \in Paths : Parent(p) \in Paths

\* A path is a sequence of names; one that a method puts together out of two
\* need not be among Paths.
Names == UNION {{p[i] : i \in DOMAIN p} : p \in Paths}
AnyPath == Seq(Names)

ASSUME PathsAreSequences == Paths \subseteq AnyPath

\* p is q or lies somewhere in it.
Below(p, q) == Len(q) <= Len(p) /\ SubSeq(p, 1, Len(q)) = q

\* The path below q that p is below root.
Rebase(p, root, q) == q \o SubSeq(p, Len(root) + 1, Len(p))

\* 0 fills the gap a writer leaves when it seeks past the end.
ASSUME BytesAssumption == Bytes \subseteq Nat

Kinds == {"Vacant", "File", "Directory"}
Contents == Seq(Bytes \cup {0})

VacantEntry == [kind |-> "Vacant", content |-> << >>]
DirectoryEntry == [kind |-> "Directory", content |-> << >>]
FileEntry(content) == [kind |-> "File", content |-> content]

Entries == {VacantEntry} \cup [kind : {"File", "Directory"}, content : Contents]
Maps == [Paths -> Entries]

\* MemoryFsImpl::new: the root directory and nothing else.
EmptyMap == [p \in Paths |-> IF p = Root THEN DirectoryEntry ELSE VacantEntry]

Exists(f, p) == f[p].kind # "Vacant"
IsFile(f, p) == f[p].kind = "File"
IsDirectory(f, p) == f[p].kind = "Directory"

\* What read_dir lists: the keys below p with no further '/'.
Children(f, p) == {q \in Paths \ {Root} : Parent(q) = p /\ Exists(f, q)}

\* Fault: any path but the root will do.
HasParentUnchecked(f, p) == p # Root

\* ensure_has_parent: the root has no '/', hence no parent.  The parent has to
\* exist; that it is a directory is not looked at.
HasParent(f, p) == p # Root /\ Exists(f, Parent(p))

\* The root is a directory and whatever exists lies in a directory.
IsTree(f) ==
    /\ IsDirectory(f, Root)
    /\ \A p \in Paths \ {Root} : Exists(f, p) => IsDirectory(f, Parent(p))

Insert(f, p, entry) == [f EXCEPT ![p] = entry]
Remove(f, p) == [f EXCEPT ![p] = VacantEntry]

-----------------------------------------------------------------------------
(* What a call answers: a result code and, where the call returns data, the *)
(* entries, the content, or the type and length it reports.                 *)

Codes == {"Ok", "FileNotFound", "FileExists", "DirectoryExists",
          "NoParent", "NotAFile", "NotEmpty", "NotSupported", "IoError", "True", "False"}

Ops == {"create_dir", "create_file", "append_file", "open_file", "read_dir",
        "metadata", "exists", "remove_file", "remove_dir"}

Answers == [code : Codes, entries : SUBSET Paths, content : Contents,
            kind : Kinds, len : Nat]

Answer(code) ==
    [code |-> code, entries |-> {}, content |-> << >>, kind |-> "Vacant", len |-> 0]

ReadDirAnswer(f, p) ==
    IF Exists(f, p) THEN [Answer("Ok") EXCEPT !.entries = Children(f, p)]
    ELSE Answer("FileNotFound")

MetadataAnswer(f, p) ==
    IF Exists(f, p)
    THEN [Answer("Ok") EXCEPT !.kind = f[p].kind, !.len = Len(f[p].content)]
    ELSE Answer("FileNotFound")

ExistsAnswer(f, p) == Answer(IF Exists(f, p) THEN "True" ELSE "False")

\* A finished call.
Results == [op : Ops \cup {"none"}, path : Paths, answer : Answers]
Result(op, p, answer) == [op |-> op, path |-> p, answer |-> answer]
NoResult == Result("none", Root, Answer("Ok"))

-----------------------------------------------------------------------------
(* A write handle: WritableFile, a Cursor<Vec<u8>> and its destination.     *)

Handles(positions) ==
    [open : BOOLEAN, path : Paths, buf : Contents, pos : positions]

ClosedHandle == [open |-> FALSE, path |-> Root, buf |-> << >>, pos |-> 0]
OpenHandle(p, content) ==
    [open |-> TRUE, path |-> p, buf |-> content, pos |-> Len(content)]

\* Cursor<Vec<u8>>::write of one byte: a position past the end fills the gap
\* with zeros, one inside overwrites.
Overwrite(buf, pos, byte) ==
    [i \in 1 .. (IF pos < Len(buf) THEN Len(buf) ELSE pos + 1) |->
        IF i = pos + 1 THEN byte ELSE IF i <= Len(buf) THEN buf[i] ELSE 0]
=============================================================================
