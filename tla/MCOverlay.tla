------------------------------- MODULE MCOverlay -------------------------------
(* An overlay of three layers under a polite client.  Each of the two lower    *)
(* layers may hold the directory /d, the file /d/x in it and the file /g, with *)
(* contents that tell the layers apart.                                        *)
EXTENDS OverlayFS, TLC

mcD == <<"d">>
mcDX == <<"d", "x">>
mcG == <<"g">>
mcUser == {Root, mcD, mcDX, mcG}
mcWo == [d |-> "d_wo", x |-> "x_wo", g |-> "g_wo"]
mcPaths ==
    mcUser \cup {<<".whiteout">> \o p : p \in mcUser}
    \cup {<<".whiteout", "_wo">>, <<".whiteout", "d_wo">>,
          <<".whiteout", "d", "x_wo">>, <<".whiteout", "g_wo">>}
mcBytes == {1}

\* A layer with the directory /d, and the files given with their content.
Layer(files, content) ==
    [p \in mcPaths |->
        IF p \in {Root, mcD} THEN DirectoryEntry
        ELSE IF p \in files THEN FileEntry(content) ELSE VacantEntry]

mcInitialLayers ==
    {<<EmptyMap, EmptyMap, Layer({mcDX}, <<1>>)>>}
    \cup {<<EmptyMap, Layer({mcG}, <<1, 1>>), Layer(files, <<1>>)>> :
            files \in {{mcDX}, {mcDX, mcG}}}

On(ops, paths) == [op : ops, path : paths]
mcCalls ==
    On({"create_dir", "remove_dir", "create_file", "remove_file", "metadata"}, {mcD})
    \cup On({"create_file", "append_file", "remove_file", "open_file"}, {mcDX, mcG})
    \cup On({"read_dir", "exists"}, {Root, mcD})
    \cup On({"exists"}, {mcDX})

ASSUME mcLayersAgree == LayersAgree
ASSUME mcMarksAreDistinct == MarksAreDistinct
=============================================================================
