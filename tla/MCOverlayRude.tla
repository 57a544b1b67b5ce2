----------------------------- MODULE MCOverlayRude -----------------------------
(* An overlay of two layers under a client that is not polite, or that uses    *)
(* a name that ends in "_wo".  The lower layer holds /a/b and /a_wo/b.         *)
EXTENDS OverlayFS, TLC

mcA == <<"a">>
mcAB == <<"a", "b">>
mcW == <<"a_wo">>
mcWB == <<"a_wo", "b">>
mcUser == {Root, mcA, mcAB, mcW, mcWB}
mcWo == [n \in {"a", "b", "a_wo"} |->
            CASE n = "a" -> "a_wo" [] n = "b" -> "b_wo" [] n = "a_wo" -> "a_wo_wo"]
mcPaths ==
    mcUser \cup {<<".whiteout">> \o p : p \in mcUser}
    \cup {<<".whiteout", "_wo">>, <<".whiteout", "a", "b_wo">>,
          <<".whiteout", "a_wo_wo">>, <<".whiteout", "a_wo", "b_wo">>}

mcLower ==
    [p \in mcPaths |->
        IF p \in {Root, mcA, mcW} THEN DirectoryEntry
        ELSE IF p \in {mcAB, mcWB} THEN FileEntry(<< >>) ELSE VacantEntry]
mcInitialLayers == {<<EmptyMap, mcLower>>}

mcDirCalls == [op : {"remove_dir"}, path : {mcA}] \cup [op : {"remove_file"}, path : {mcAB}]
mcFileCalls == [op : {"remove_file", "create_file"}, path : {mcWB}]

\* "Removes the directory at this path.  The directory must be empty."
\* (path.rs:442-444; test remove_dir_notempty in test_macros.rs): remove_dir on
\* the overlay succeeds only on a directory the overlay shows nothing in.
OverlayRemovesOnlyEmptyDirectories ==
    [][\A p \in UserPaths :
          RemoveDirCall(p) /\ res'.answer.code = "Ok" => Children(View, p) = {}]_vars

\* The ".whiteout" folder is there "to mark removed files" (overlay.rs:13): a
\* path vanishes from the overlay only in a call that removes that path.
OnlyTheRemovedVanishes ==
    [][\A p \in UserPaths :
          Exists(View, p) /\ ~Exists(View', p) =>
            res'.op \in {"remove_file", "remove_dir"} /\ res'.path = p]_vars
=============================================================================
