------------------------------- MODULE OverlayFS -------------------------------
(***************************************************************************)
(* OverlayFS (src/impls/overlay.rs): several file systems shown as one.     *)
(* Only the first layer is written to; a path removed from a lower layer is *)
(* marked by a file in the first layer, ".whiteout/<path>_wo" (its mark).   *)
(*                                                                         *)
(* OverlayFS keeps no state of its own: everything is in the layers, which  *)
(* are MemoryFS here, and a restart changes nothing.  One client uses the   *)
(* overlay through VfsPath, nobody uses the layers directly, so a call and  *)
(* all the calls it makes on the layers are one action; FsCalls has those.  *)
(***************************************************************************)
EXTENDS OverlayLayers

CONSTANTS
    Calls,          \* the calls the client may issue: [op, path]
    Polite,         \* whether the client keeps to the rules below
    MaxLen          \* bound: a buffer grows to at most MaxLen bytes

ASSUME OverlayCallsAssumption == Calls \subseteq [op : Ops, path : UserPaths]
ASSUME OverlayBoundsAssumption == Polite \in BOOLEAN /\ MaxLen \in Nat

VARIABLES
    writer,     \* the client's open write handle, on the first layer; bound: one
    res         \* the client's last call and what it answered

vars == <<layers, writer, res>>

TypeOK ==
    /\ layers \in Seq(Maps)
    /\ writer \in Handles(Nat)
    /\ res \in Results

Init ==
    /\ layers \in InitialLayers
    /\ writer = ClosedHandle
    /\ res = NoResult

-----------------------------------------------------------------------------
\* ensure_has_parent: the parent's directories are made in the first layer.
MirrorParent(p) ==
    IF p # Root /\ Shown(Parent(p)) THEN CreateDirAll(Upper, Parent(p))
                                    ELSE Failed(Upper, "NoParent")

\* Fault: what is created again stays marked.
UnmarkNothing(f, p) == Done(f)

Unmark(f, p) == IF Exists(f, Mark(p)) THEN RemoveFile(f, Mark(p)) ELSE Done(f)

\* The mark is made after the entry itself has been removed.
PutMark(f, p) ==
    Then(CreateDirAll(f, Parent(Mark(p))), LAMBDA g : CreateFile(g, Mark(p), << >>))

-----------------------------------------------------------------------------
(* The rules of a polite client, of which the overlay enforces none: what a  *)
(* lower layer alone holds it neither makes a directory of nor replaces by   *)
(* a file when it is a directory; it appends to files, or where a file could *)
(* be; it removes files and empty directories by the call for each, and no   *)
(* file it is still writing.                                                 *)

Rules(op, p) ==
    /\ op = "create_dir" => ~Exists(View, p) \/ Exists(Upper, p)
    /\ op = "create_file" => ~IsDirectory(View, p)
    /\ op = "append_file" => ~IsDirectory(View, p) /\ IsDirectory(View, Parent(p))
    /\ op = "remove_file" => ~IsDirectory(View, p) /\ ~(writer.open /\ writer.path = p)
    /\ op = "remove_dir" =>
        /\ p # Root /\ ~IsFile(View, p)
        /\ Children(View, p) = {} \/ Children(Upper, p) # {}

Issue(op, p) == [op |-> op, path |-> p] \in Calls /\ (Polite => Rules(op, p))

Tell(op, p, answer) == res' = Result(op, p, answer)

\* The call answers from what is there.
Look(op, p, answer) == Issue(op, p) /\ Tell(op, p, answer) /\ UNCHANGED <<layers, writer>>

\* The call leaves outcome.map in the first layer.
Leave(op, p, outcome) ==
    /\ layers' = [layers EXCEPT ![1] = outcome.map]
    /\ Tell(op, p, Answer(outcome.code))

\* VfsPath's own check, of the parent in the overlay, precedes f.
InDirectory(p, outcome) ==
    IF Shown(Parent(p)) /\ IsDirectory(View, Parent(p)) THEN outcome
                                                         ELSE Failed(Upper, "NoParent")

-----------------------------------------------------------------------------
CreateDirCall(p) ==
    /\ Issue("create_dir", p)
    /\ Leave("create_dir", p, InDirectory(p,
         Then(Then(MirrorParent(p),
              LAMBDA f : CreateDir(f, p)),
              LAMBDA f : Unmark(f, p))))
    /\ UNCHANGED writer

CreateFileCall(p) ==
    LET outcome == InDirectory(p,
          Then(Then(MirrorParent(p),
               LAMBDA f : CreateFile(f, p, << >>)),
               LAMBDA f : Unmark(f, p)))
    IN
    /\ Issue("create_file", p)
    /\ ~writer.open
    /\ Leave("create_file", p, outcome)
    /\ writer' = IF outcome.code = "Ok" THEN OpenHandle(p, << >>) ELSE writer

\* Fault: the file is created in the first layer instead of copied to it.
CopyUpNothing(p) ==
    IF Exists(Upper, p) THEN Done(Upper)
    ELSE Then(MirrorParent(p),
              LAMBDA f : IF ~Found(p) THEN Failed(f, "FileNotFound")
                         ELSE CreateFile(f, p, << >>))

\* A file that only a lower layer holds is copied to the first one.
CopyUp(p) ==
    IF Exists(Upper, p) THEN Done(Upper)
    ELSE Then(MirrorParent(p),
              LAMBDA f : IF ~Found(p) THEN Failed(f, "FileNotFound")
                         ELSE CopyFile(layers[TopLayer(p)], p, f, p))

AppendFileCall(p) ==
    LET outcome == CopyUp(p) IN
    /\ Issue("append_file", p)
    /\ ~writer.open
    /\ Leave("append_file", p, outcome)
    /\ writer' = IF outcome.code = "Ok" THEN OpenHandle(p, outcome.map[p].content)
                                        ELSE writer

\* Removed from the first layer if it is there, and marked in any case.
RemoveAndMark(p, removed) ==
    IF ~Found(p) THEN Failed(Upper, "FileNotFound")
    ELSE Then(IF Exists(Upper, p) THEN removed ELSE Done(Upper),
              LAMBDA f : PutMark(f, p))

RemoveFileCall(p) ==
    /\ Issue("remove_file", p)
    /\ Leave("remove_file", p, RemoveAndMark(p, RemoveFile(Upper, p)))
    /\ UNCHANGED writer

\* Fault: the first layer is asked to remove a file, which looks for no entries.
RemoveDirCallAsFile(p) ==
    /\ Issue("remove_dir", p)
    /\ Leave("remove_dir", p, RemoveAndMark(p, RemoveFile(Upper, p)))
    /\ UNCHANGED writer

RemoveDirCall(p) ==
    /\ Issue("remove_dir", p)
    /\ Leave("remove_dir", p, RemoveAndMark(p, RemoveDir(Upper, p)))
    /\ UNCHANGED writer

\* What the layers hold below p, but for what is marked.
Listing(p) ==
    LET held == UNION {Children(layers[i], p) : i \in DOMAIN layers}
        marked == IF Exists(Upper, MarkDir(p)) THEN Children(Upper, MarkDir(p)) ELSE {}
    IN {q \in held : q \in UserPaths => Mark(q) \notin marked}

ReadDirCall(p) ==
    Look("read_dir", p, IF Exists(View, p) THEN [Answer("Ok") EXCEPT !.entries = Listing(p)]
                                            ELSE Answer("FileNotFound"))

OpenFileCall(p) ==
    Look("open_file", p,
         IF ~Exists(View, p) THEN Answer("FileNotFound")
         ELSE IF ~IsFile(View, p) THEN Answer("NotAFile")
         ELSE [Answer("Ok") EXCEPT !.content = View[p].content])

MetadataCall(p) == Look("metadata", p, MetadataAnswer(View, p))

ExistsCall(p) == Look("exists", p, Answer(IF Shown(p) THEN "True" ELSE "False"))

-----------------------------------------------------------------------------
(* The handle create_file and append_file hand out is the first layer's.     *)

Write(byte) ==
    /\ writer.open
    /\ writer.pos < MaxLen
    /\ writer' = [writer EXCEPT !.buf = Overwrite(@, writer.pos, byte), !.pos = @ + 1]
    /\ UNCHANGED <<layers, res>>

Publish ==
    layers' = [layers EXCEPT ![1] = Insert(@, writer.path, FileEntry(writer.buf))]

Flush == writer.open /\ Publish /\ UNCHANGED <<writer, res>>

Drop == writer.open /\ Publish /\ writer' = ClosedHandle /\ UNCHANGED res

-----------------------------------------------------------------------------
Call(p) ==
    \/ CreateDirCall(p)  \/ CreateFileCall(p) \/ AppendFileCall(p) \/ OpenFileCall(p)
    \/ RemoveFileCall(p) \/ RemoveDirCall(p)  \/ ReadDirCall(p)
    \/ MetadataCall(p)   \/ ExistsCall(p)

Next ==
    \/ \E p \in UserPaths : Call(p)
    \/ \E byte \in Bytes : Write(byte)
    \/ Flush
    \/ Drop

Spec == Init /\ [][Next]_vars

-----------------------------------------------------------------------------
\* Nothing in the layers ever lies outside a directory: not an entry whose
\* directory is removed, nor a mark, a copy or a file that is published late.
LayersAreTrees == \A i \in DOMAIN layers : IsTree(layers[i])

\* In every state the variables are of their types and the layers are trees.
LayersInv == TypeOK /\ LayersAreTrees

\* A mark only ever hides lower layers: what the first layer holds is shown,
\* across removals, re-creations, copies upwards and late publications.
MarksHideOnlyLower ==
    \A p \in UserPaths : Exists(Upper, Mark(p)) => ~Exists(Upper, p)

\* Seen by a client that keeps the rules and overlooks ".whiteout" in the root,
\* the stack of layers and its marks are one plain file system: removed entries
\* stay removed, re-created directories come back empty, files copied to the
\* first layer keep their content.
Alone(x) == [t \in {"client"} |-> x]
Atomic == INSTANCE AtomicFS WITH
            Paths <- UserPaths, Threads <- {"client"}, files <- View,
            writer <- Alone(writer),
            res <- Alone([res EXCEPT !.answer.entries = @ \cap UserPaths])
AtomicSpec == Atomic!Spec
=============================================================================
