------------------------------ MODULE MCAsyncPath ------------------------------
(* Two tasks in calls of AsyncVfsPath on one AsyncMemoryFS that holds nothing, *)
(* or the tree /s, /s/x, /s/e, /s/e/y; either task's calls may be dropped.     *)
EXTENDS AsyncVfsPath, TLC

CONSTANTS one, two

mcTasks == {one, two}
mcS == <<"s">>
mcSX == <<"s", "x">>
mcSE == <<"s", "e">>
mcSEY == <<"s", "e", "y">>
mcD == <<"d">>
mcDE == <<"d", "e">>
mcDEY == <<"d", "e", "y">>
mcG == <<"g">>
mcPaths == {Root, mcS, mcSX, mcSE, mcSEY, mcD, <<"d", "x">>, mcDE, mcDEY, mcG}
mcBytes == {1, 2}

mcFull ==
    [p \in mcPaths |->
        CASE p \in {Root, mcS, mcSE} -> DirectoryEntry
          [] p = mcSX -> FileEntry(<<1>>)
          [] p = mcSEY -> FileEntry(<<2>>)
          [] OTHER -> VacantEntry]
mcTrees == {NewMap, mcFull}

Ask(op, p, q) == [op |-> op, path |-> p, dest |-> q, data |-> <<1>>]
Only(op, p) == <<Ask(op, p, Root)>>

\* What the two tasks do.
mcPairs == {
    <<Only("create_dir_all", mcDEY), Only("create_dir_all", mcDE)>>,
    <<<<Ask("copy_dir", mcS, mcD)>>, Only("create_dir", mcG)>>,
    <<<<Ask("move_dir", mcS, mcD)>>, Only("walk_dir", mcS)>>,
    <<<<Ask("move_dir", mcS, mcD)>>, Only("write_file", mcSX)>>,
    <<<<Ask("move_dir", mcS, mcD)>>, Only("create_dir_all", mcG) \o <<Ask("move_dir", mcG, mcS)>>>>,
    <<<<Ask("move_file", mcSX, mcG)>>, Only("write_file", mcG)>>,
    <<<<Ask("move_file", mcSX, mcDE)>>, Only("create_dir_all", mcD)>>,
    <<<<Ask("move_file", mcSX, mcG)>>, <<Ask("copy_dir", mcS, mcD)>>>>,
    <<<<Ask("copy_file", mcSX, mcG)>>, Only("remove_dir_all", mcS)>>,
    <<Only("remove_dir_all", mcS), Only("walk_dir", mcS)>>,
    <<Only("remove_dir_all", mcS), Only("create_dir", mcSEY)>>,
    <<Only("remove_dir", mcSE) \o Only("set_time", mcSX),
      Only("remove_file", mcSEY) \o Only("walk_dir", mcS)>>,
    <<Only("append_file", mcSX) \o Only("read_to_string", mcSX),
      Only("walk_dir", mcS) \o Only("is_dir", mcS)>>,
    <<Only("is_file", mcSX) \o Only("is_file", mcG),
      Only("remove_file", mcSEY) \o Only("read_to_string", mcSEY)>>,
    <<Only("is_dir", mcSE) \o Only("is_dir", mcG),
      Only("remove_file", mcSX) \o <<Ask("copy_dir", mcS, mcD)>>>>,
    <<Only("is_dir", mcSX), <<Ask("move_file", mcSEY, mcG)>>>>,
    <<Only("read_to_string", mcSX) \o Only("is_dir", mcSE), Only("write_file", mcSEY)>> }

mcScripts == {[t \in mcTasks |-> pair[IF t = one THEN 1 ELSE 2]] : pair \in mcPairs}
=============================================================================
