------------------------------- MODULE MCPhysical -------------------------------
(* A thread and an async task on a PhysicalFS rooted in /srv, with an altroot at *)
(* its /alt.  /srv/alt holds the directory s with the file x; /srv/m is another *)
(* device.  /alt and /g, which only the operating system can name, are there   *)
(* for paths that escape.                                                       *)
EXTENDS PhysicalClients, TLC

CONSTANTS thread, task, leftover

mcTasks == {thread, task}
mcAsync == {task}
mcStraggler == [t \in mcAsync |-> leftover]

mcPhysRoot == <<"srv">>
mcAltRoot == <<"alt">>
mcS == <<"s">>
mcSX == <<"s", "x">>
mcD == <<"d">>
mcDX == <<"d", "x">>
mcOnAlt == {Root, mcS, mcSX, mcD, mcDX}
mcM == <<"m">>
mcMD == <<"m", "d">>
mcVfsPaths == mcOnAlt \cup {mcAltRoot \o p : p \in mcOnAlt} \cup {mcM, mcMD, <<"m", "d", "x">>}
mcPaths ==
    {Root} \cup mcVfsPaths
    \cup {mcAltRoot \o p : p \in mcVfsPaths} \cup {mcPhysRoot \o p : p \in mcVfsPaths}
    \cup {mcPhysRoot \o mcAltRoot \o p : p \in mcVfsPaths}
    \cup {mcPhysRoot \o mcD \o mcDX, mcPhysRoot \o mcD \o mcD, mcPhysRoot \o mcAltRoot \o <<"x">>}
mcDevice == [p \in mcPaths |-> IF Below(p, mcPhysRoot \o mcM) THEN 2 ELSE 1]
mcBytes == {1, 2}

mcTree ==
    [p \in mcPaths |->
        CASE p \in {Root, mcPhysRoot, <<"srv", "m">>, <<"srv", "alt">>, <<"srv", "alt", "s">>}
               -> DirectoryEntry
          [] p = <<"srv", "alt", "s", "x">> -> FileEntry(<<1, 2>>)
          [] OTHER -> VacantEntry]
mcBare ==
    [p \in mcPaths |-> IF p \in {Root, mcPhysRoot} THEN DirectoryEntry ELSE VacantEntry]
mcTrees == {mcTree, mcBare}

P(p) == OnDisk(p)
A(p) == [fs |-> "altroot", path |-> p]
Ask(op, h, g) == [op |-> op, path |-> h, dest |-> g, data |-> <<2>>]
Only(op, h) == <<Ask(op, h, h)>>
mcAltS == mcAltRoot \o mcS
mcAltSX == mcAltRoot \o mcSX
mcAltD == mcAltRoot \o mcD

mcPairs == {
    <<<<Ask("move_dir", A(mcS), A(mcD))>>, Only("create_dir", P(mcS))>>,
    <<Only("read_dir", A(mcS)), <<Ask("move_dir", A(mcS), A(mcD))>> >>,
    <<Only("append_file", A(mcSX)), <<Ask("move_dir", P(mcAltS), P(mcD))>> >>,
    <<<<Ask("move_dir", P(mcAltS), P(mcMD))>>, Only("set_time_elsewhere", P(mcAltSX))>>,
    <<Only("exists", P(mcMD)) \o <<Ask("copy_dir", P(mcM), P(mcD))>>,
      <<Ask("move_file", P(mcAltSX), P(mcMD))>> \o Only("set_time", P(mcMD))>>,
    <<<<Ask("move_file", A(mcSX), P(mcD))>>, Only("open_file", P(mcD))>>,
    <<Only("metadata", A(mcD)) \o Only("create_dir", P(mcM)), <<Ask("move_file", A(mcSX), A(mcD))>> >>,
    <<<<Ask("move_file", A(mcS), P(mcD))>>, Only("metadata", P(mcD))>>,
    <<<<[Ask("append_file", P(mcAltSX), P(mcAltSX)) EXCEPT !.data = <<1>>]>>,
      Only("append_file", A(mcSX)) \o Only("open_file", A(mcSX))>>,
    <<Only("remove_dir_all", P(mcAltS)), Only("create_dir_all", A(mcSX))>>,
    <<Only("create_dir", P(mcAltS)), Only("remove_dir_all", A(mcS))>>,
    <<Only("open_file", A(mcSX)), Only("remove_file", A(mcSX)) \o Only("write_file", A(mcSX))>>,
    <<<<Ask("copy_dir", A(mcS), P(mcD))>>, Only("remove_dir", P(mcM)) \o Only("set_time_elsewhere", P(mcM))>>,
    <<<<Ask("copy_file", A(mcSX), A(mcD))>>, <<Ask("copy_file", P(mcAltSX), P(mcD))>> >>,
    <<Only("write_file", P(mcD)), Only("remove_file", A(mcSX))>>,
    <<Only("remove_dir_all", A(mcS)), Only("write_file", P(mcD))>>,
    <<<<Ask("move_dir", P(mcAltD), P(mcD))>>, Only("remove_file", P(mcAltSX))>>,
    <<Only("write_file", P(mcM)), <<Ask("move_dir", A(mcD), P(mcD))>>>>,
    <<<<Ask("move_dir", P(mcAltSX), P(mcMD))>>, Only("write_file", P(mcD))>>,
    <<Only("create_dir", P(mcD)), <<Ask("move_dir", P(mcAltSX), P(mcAltD))>>>>,
    <<Only("set_time_elsewhere", A(mcSX)), <<Ask("copy_file", P(mcS), A(Root))>> >> }

mcScripts == {[t \in mcTasks |-> pair[IF t = thread THEN 1 ELSE 2]] : pair \in mcPairs}
=============================================================================
