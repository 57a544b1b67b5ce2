---------------------------------- MODULE Disk ----------------------------------
(***************************************************************************)
(* The file system of the operating system, as std::fs shows it to          *)
(* PhysicalFS.  None of it is code of this crate: each operator is what one *)
(* system call does, at once or not at all, and the error it gives.         *)
(* Symbolic links and permissions are left out.                             *)
(***************************************************************************)
EXTENDS FsTree

CONSTANT Device     \* the device each path is on

ASSUME DeviceAssumption == DOMAIN Device = Paths

\* What a call leaves and answers; with it the file that has lost its name and
\* the move it has made, which is none when from is to.
Outcome(f, error) ==
    [map |-> f, error |-> error, unlinked |-> {}, from |-> Root, to |-> Root]

\* The error of a path whose directory is not there.
Lookup(f, p) ==
    IF p = Root \/ IsDirectory(f, Parent(p)) THEN "None"
    ELSE IF \E s \in Paths : IsFile(f, s) /\ s # p /\ Below(p, s) THEN "NotADirectory"
    ELSE "NotFound"

Find(f, p) == IF Exists(f, p) THEN "None" ELSE IF Lookup(f, p) = "None" THEN "NotFound"
                                                                       ELSE Lookup(f, p)

Mkdir(f, p) ==
    IF Exists(f, p) THEN Outcome(f, "AlreadyExists")
    ELSE IF Lookup(f, p) # "None" THEN Outcome(f, Lookup(f, p))
    ELSE Outcome(Insert(f, p, DirectoryEntry), "None")

\* O_CREAT with O_TRUNC: a file that is there stays the same file.
Creat(f, p) ==
    IF Lookup(f, p) # "None" THEN Outcome(f, Lookup(f, p))
    ELSE IF IsDirectory(f, p) THEN Outcome(f, "IsADirectory")
    ELSE Outcome(Insert(f, p, FileEntry(<< >>)), "None")

Unlink(f, p) ==
    IF Find(f, p) # "None" THEN Outcome(f, Find(f, p))
    ELSE IF IsDirectory(f, p) THEN Outcome(f, "IsADirectory")
    ELSE [Outcome(Remove(f, p), "None") EXCEPT !.unlinked = {p}]

Rmdir(f, p) ==
    IF Find(f, p) # "None" THEN Outcome(f, Find(f, p))
    ELSE IF IsFile(f, p) THEN Outcome(f, "NotADirectory")
    ELSE IF Children(f, p) # {} THEN Outcome(f, "DirectoryNotEmpty")
    ELSE Outcome(Remove(f, p), "None")

MoveTree(f, p, q) ==
    [s \in Paths |->
        IF Below(s, q) THEN (IF Rebase(s, q, p) \in Paths THEN f[Rebase(s, q, p)] ELSE VacantEntry)
        ELSE IF Below(s, p) THEN VacantEntry ELSE f[s]]

\* A file replaces a file, a directory an empty directory.
Rename(f, p, q) ==
    IF Find(f, p) # "None" THEN Outcome(f, Find(f, p))
    ELSE IF Lookup(f, q) # "None" THEN Outcome(f, Lookup(f, q))
    ELSE IF p = q THEN Outcome(f, "None")
    ELSE IF Device[p] # Device[q] THEN Outcome(f, "CrossesDevices")
    ELSE IF Below(q, p) THEN Outcome(f, "InvalidInput")
    ELSE IF IsFile(f, p) /\ IsDirectory(f, q) THEN Outcome(f, "IsADirectory")
    ELSE IF IsDirectory(f, p) /\ IsFile(f, q) THEN Outcome(f, "NotADirectory")
    ELSE IF Children(f, q) # {} THEN Outcome(f, "DirectoryNotEmpty")
    ELSE [Outcome(MoveTree(f, p, q), "None")
            EXCEPT !.unlinked = {q}, !.from = p, !.to = q]

-----------------------------------------------------------------------------
(* An open file stays the same file wherever a rename puts it, and keeps its *)
(* content when it loses its name; appending holds of O_APPEND.              *)

OpenFiles == [open : BOOLEAN, path : Paths, pos : Nat, appending : BOOLEAN,
              directory : BOOLEAN, gone : BOOLEAN, content : Contents]

Closed == [open |-> FALSE, path |-> Root, pos |-> 0, appending |-> FALSE,
           directory |-> FALSE, gone |-> FALSE, content |-> << >>]
Opened(p) == [Closed EXCEPT !.open = TRUE, !.path = p]

ContentOf(f, h) == IF h.gone THEN h.content ELSE f[h.path].content

\* An open file after a call that has left outcome where f was.
Follow(h, f, outcome) ==
    IF ~h.open \/ h.gone THEN h
    ELSE IF h.path \in outcome.unlinked THEN [h EXCEPT !.gone = TRUE, !.content = f[h.path].content]
    ELSE IF outcome.from # outcome.to /\ Below(h.path, outcome.from)
         THEN [h EXCEPT !.path = Rebase(@, outcome.from, outcome.to)]
    ELSE h

\* data written at the handle's position, or at the end; a gap is zeros.
Written(content, h, data) ==
    LET pos == IF h.appending THEN Len(content) ELSE h.pos
        end == pos + Len(data)
    IN [i \in 1 .. (IF end > Len(content) THEN end ELSE Len(content)) |->
           IF i > pos /\ i <= end THEN data[i - pos]
           ELSE IF i <= Len(content) THEN content[i] ELSE 0]
=============================================================================
