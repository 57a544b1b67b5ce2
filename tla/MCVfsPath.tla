------------------------------- MODULE MCVfsPath -------------------------------
(* Three threads in calls of several steps on a MemoryFS that holds nothing, an   *)
(* empty directory /s, or the tree /s, /s/x, /s/e, /s/e/y.                      *)
EXTENDS VfsPath, TLC

CONSTANTS one, two, three

mcThreads == {one, two, three}
mcS == <<"s">>
mcSX == <<"s", "x">>
mcSE == <<"s", "e">>
mcSEY == <<"s", "e", "y">>
mcD == <<"d">>
mcDE == <<"d", "e">>
mcDEY == <<"d", "e", "y">>
mcG == <<"g">>
mcPaths == {Root, mcS, mcSX, mcSE, mcSEY,
            mcD, <<"d", "x">>, mcDE, mcDEY, mcG}
mcBytes == {1, 2}
mcCalls == [thread : mcThreads, op : Ops, path : mcPaths]

mcFull ==
    [p \in mcPaths |->
        CASE p \in {Root, mcS, mcSE} -> DirectoryEntry
          [] p = mcSX -> FileEntry(<<1>>)
          [] p = mcSEY -> FileEntry(<<2>>)
          [] OTHER -> VacantEntry]
mcTrees == {EmptyMap, [EmptyMap EXCEPT ![mcS] = DirectoryEntry], mcFull}

Ask(op, p, q) == [op |-> op, path |-> p, dest |-> q, data |-> <<1>>]

Only(op, p, q) == <<Ask(op, p, q)>>

\* Each triple is what the three threads do.
mcTriples == {
    <<Only("create_dir_all", mcDE, Root), Only("create_dir_all", mcDEY, Root),
      Only("create_dir_all", mcDE, Root)>>,
    <<Only("create_dir_all", mcDEY, Root), Only("copy_dir", mcS, mcD),
      Only("write_file", mcDE, Root)>>,
    <<Only("copy_dir", mcS, mcD),
      <<Ask("copy_file", mcSX, mcG), Ask("remove_file", mcG, Root)>>,
      Only("create_dir", mcG, Root)>>,
    <<Only("move_dir", mcS, mcD), Only("create_dir_all", mcG, Root),
      Only("move_dir", mcG, mcS)>>,
    <<Only("move_dir", mcS, mcD), Only("write_file", mcSX, Root), << >>>>,
    <<Only("move_dir", mcS, mcD), Only("create_dir_all", mcG, Root),
      <<Ask("write_file", mcG, Root), Ask("remove_file", mcG, Root)>>>>,
    <<Only("move_file", mcSX, mcDE), Only("create_dir_all", mcD, Root),
      Only("remove_dir_all", mcSE, Root)>>,
    <<Only("move_file", mcSX, mcG), Only("copy_dir", mcS, mcD),
      Only("write_file", mcG, Root)>>,
    <<Only("remove_dir_all", mcS, Root), Only("copy_dir", mcS, mcD), << >>>>,
    <<Only("remove_dir_all", mcS, Root), Only("create_dir_all", mcSE, Root),
      Only("create_dir", mcS, Root)>> }

mcScripts ==
    {[t \in mcThreads |-> triple[IF t = one THEN 1 ELSE IF t = two THEN 2 ELSE 3]] :
        triple \in mcTriples}

mcRaceScripts == {[t \in mcThreads |-> IF t = three THEN << >>
                                       ELSE Only("remove_dir_all", mcS, Root)]}

-----------------------------------------------------------------------------
\* remove_dir_all "ensures that the directory at this path is removed" and
\* "returns successfully if directory does not exist" (path.rs:466-468): it
\* never fails when, as it returns, the directory is gone.
RemoveDirAllAcceptsAbsence ==
    [][\A t \in Threads :
          Returns(t, {"remove_dir_all"}) /\ ~Exists(files', job[t].request.path)
            => job'[t].code = "Ok"]_vfsVars
=============================================================================
