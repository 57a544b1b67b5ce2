----------------------------- MODULE MCAsyncOverlay -----------------------------
(* Two tasks on one overlay of two layers.  The lower layer holds the directory *)
(* /d, the files /d/x and /d/y and the file /g, and no layer has /h or /g/y;    *)
(* the first one is empty, or has a later version of /d/x, or the mark of /d/x. *)
(* Or the lower layer is empty and the first one alone has /d, with /d/x in it, *)
(* or with a file /g beside it.                                                 *)
EXTENDS AsyncOverlayFS, TLC

CONSTANTS one, two

mcTasks == {one, two}
mcD == <<"d">>
mcDX == <<"d", "x">>
mcDY == <<"d", "y">>
mcG == <<"g">>
mcH == <<"h">>
mcGY == <<"g", "y">>
mcUser == {Root, mcD, mcDX, mcDY, mcG, mcGY, mcH}
mcWo == [d |-> "d_wo", x |-> "x_wo", y |-> "y_wo", g |-> "g_wo", h |-> "h_wo"]
mcPaths ==
    mcUser \cup {<<".whiteout">> \o p : p \in mcUser}
    \cup {<<".whiteout", "_wo">>, <<".whiteout", "d_wo">>,
          <<".whiteout", "d", "x_wo">>, <<".whiteout", "d", "y_wo">>, <<".whiteout", "g_wo">>,
          <<".whiteout", "g", "y_wo">>, <<".whiteout", "h_wo">>}
mcBytes == {1, 2}

mcLower ==
    [p \in mcPaths |->
        IF p \in {Root, mcD} THEN DirectoryEntry
        ELSE IF p \in {mcDX, mcDY, mcG} THEN FileEntry(<<1>>) ELSE VacantEntry]
mcShadowing == [EmptyMap EXCEPT ![mcD] = DirectoryEntry, ![mcDX] = FileEntry(<<2, 2>>)]
mcMarked ==
    [EmptyMap EXCEPT ![<<".whiteout">>] = DirectoryEntry,
                     ![<<".whiteout", "d">>] = DirectoryEntry,
                     ![<<".whiteout", "d", "x_wo">>] = FileEntry(<< >>)]
mcOwn == [EmptyMap EXCEPT ![mcD] = DirectoryEntry, ![mcG] = FileEntry(<<2>>)]
mcInitialLayers ==
    {<<upper, mcLower>> : upper \in {EmptyMap, mcShadowing, mcMarked}}
    \cup {<<upper, EmptyMap>> : upper \in {mcOwn, mcShadowing}}

Ask(op, p) == [op |-> op, path |-> p, data |-> <<2>>]
Only(op, p) == <<Ask(op, p)>>

\* What the two tasks do.
mcPairs == {
    <<Only("create_file", mcDX), Only("open_file", mcDX)>>,
    <<Only("append_file", mcDX), Only("open_file", mcDX)>>,
    <<Only("remove_file", mcDX), Only("open_file", mcDX)>>,
    <<Only("remove_file", mcDX), Only("exists", mcDX)>>,
    <<Only("remove_file", mcDX) \o Only("create_file", mcDX), Only("metadata", mcDX)>>,
    <<Only("remove_file", mcDX) \o Only("remove_dir", mcD), Only("create_file", mcG)>>,
    <<Only("remove_file", mcDX), Only("create_file", mcDX)>>,
    <<Only("append_file", mcDX), Only("remove_file", mcG)>>,
    <<Only("append_file", mcDX), Only("remove_file", mcDX)>>,
    <<Only("remove_dir", mcD) \o Only("create_dir", mcD), Only("append_file", mcDX)>>,
    <<Only("create_file", mcDX), Only("remove_dir", mcD)>>,
    <<Only("remove_file", mcG) \o Only("create_dir", mcG), Only("read_dir", Root)>>,
    <<Only("create_file", mcGY), Only("open_file", mcG)>>,
    <<Only("append_file", mcGY), Only("remove_file", mcG)>>,
    <<Only("create_dir", mcH), Only("open_file", mcH)>>,
    <<Only("create_dir", mcDX), Only("remove_dir", mcD)>>,
    <<Only("remove_file", mcDY) \o Only("create_file", mcDY), Only("read_dir", mcD)>>,
    <<Only("create_file", mcH), Only("open_file", mcH)>>,
    <<Only("create_file", mcDX) \o Only("set_time", mcDX), Only("read_dir", mcD)>> }

mcScripts == {[t \in mcTasks |-> pair[IF t = one THEN 1 ELSE 2]] : pair \in mcPairs}

ASSUME mcMarksAreDistinct == MarksAreDistinct
=============================================================================
