------------------------------ MODULE OverlayLayers ------------------------------
(***************************************************************************)
(* What the synchronous and the asynchronous overlay share: the stack of    *)
(* layers, the marks in the first one, and the file system they show.       *)
(***************************************************************************)
EXTENDS FsCalls

CONSTANTS
    WoDir,          \* the name ".whiteout"
    Wo,             \* the function from a name to that name with "_wo" appended
    RootWo,         \* the name "_wo"
    InitialLayers   \* the stacks of layers the overlay may be made of

\* The paths a client uses; the rest of Paths is below ".whiteout".
UserPaths == {p \in Paths : p = Root \/ p[1] # WoDir}

\* The directory that holds the marks of what is removed from p, and p's mark.
MarkDir(p) == <<WoDir>> \o p
Mark(p) ==
    IF p = Root THEN <<WoDir, RootWo>> ELSE Append(MarkDir(Parent(p)), Wo[p[Len(p)]])

ASSUME OverlayPathsAssumption ==
    /\ <<WoDir>> \in Paths
    /\ \A p \in UserPaths : MarkDir(p) \in Paths /\ Mark(p) \in Paths
\* Wo appends the same letters to every name a path may end in.
ASSUME NamesAssumption ==
    /\ \A p \in UserPaths \ {Root} : p[Len(p)] \in DOMAIN Wo
    /\ \A m, n \in DOMAIN Wo : Wo[m] = Wo[n] => m = n
    /\ \A n \in DOMAIN Wo : Wo[n] # RootWo
ASSUME LayersAssumption == \A ls \in InitialLayers : Len(ls) > 0 /\ ls \in Seq(Maps)

VARIABLE layers     \* OverlayFS.layers, the layers' maps

-----------------------------------------------------------------------------
Upper == layers[1]

\* read_path: where p is read from, if it is anywhere and not marked.  The
\* marks of the directories above p are not looked at.
Found(p) ==
    p = Root \/ (~Exists(Upper, Mark(p)) /\ \E i \in DOMAIN layers : Exists(layers[i], p))

TopLayer(p) ==
    IF p = Root THEN 1
    ELSE CHOOSE i \in DOMAIN layers :
            Exists(layers[i], p) /\ \A j \in 1 .. i - 1 : ~Exists(layers[j], p)

Entry(p) == IF Found(p) THEN layers[TopLayer(p)][p] ELSE VacantEntry

\* What the overlay shows.
View == [p \in UserPaths |-> Entry(p)]

\* exists looks for a mark of the root too.
Shown(p) == ~Exists(Upper, Mark(p)) /\ Exists(View, p)

-----------------------------------------------------------------------------
\* Layers agree when they are trees, none has something below a path another
\* has a file at, and none holds marks.
LayersAgree ==
    \A ls \in InitialLayers : \A i, j \in DOMAIN ls :
        /\ IsTree(ls[i])
        /\ \A p \in Paths : IsDirectory(ls[i], p) => ls[i][p] = DirectoryEntry
        /\ \A p \in UserPaths : IsFile(ls[i], p) => ~IsDirectory(ls[j], p)
        /\ ~Exists(ls[i], <<WoDir>>)

\* Marks tell names apart when no user name is one.
MarksAreDistinct ==
    \A p \in UserPaths \ {Root} :
        p[Len(p)] # RootWo /\ \A n \in DOMAIN Wo : p[Len(p)] # Wo[n]
=============================================================================
