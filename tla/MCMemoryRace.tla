----------------------------- MODULE MCMemoryRace -----------------------------
(* MemoryFS with a directory that one thread fills and another removes: the  *)
(* clients keep files and directories apart (TypedPaths) but not OwnedRemovals. *)
EXTENDS MemoryFS, TLC

CONSTANTS builder, cleaner, d, s

mcThreads == {builder, cleaner}
mcD == <<d>>
mcS == <<d, s>>
mcPaths == {Root, mcD, mcS}
mcCalls == [thread : {builder}, op : {"create_dir"}, path : {mcD, mcS}]
           \cup [thread : {cleaner}, op : {"remove_dir"}, path : {mcD}]

\* "Removes the directory at this path.  The directory must be empty."
\* (path.rs:442-444): a remove_dir that succeeds removes nothing that holds
\* entries at that moment.
RemovesOnlyEmptyDirectories ==
    [][\A p \in Paths :
          IsDirectory(files, p) /\ ~Exists(files', p) => Children(files, p) = {}]_vars
=============================================================================
