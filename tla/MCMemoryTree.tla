----------------------------- MODULE MCMemoryTree -----------------------------
(* MemoryFS under disciplined clients.  The thread owner alone creates things *)
(* in /a and removes /a; guest shares /a itself, the root and the file /g     *)
(* with it, removes and reads anything, and keeps handles open across calls.  *)
EXTENDS MemoryFS, TLC

CONSTANTS owner, guest, a, f, g

mcThreads == {owner, guest}
mcA == <<a>>
mcAF == <<a, f>>
mcG == <<g>>
mcPaths == {Root, mcA, mcAF, mcG}
mcFilePaths == {mcAF, mcG}
mcBytes == {1}

On(t, ops, paths) == [thread : {t}, op : ops, path : paths]

mcCalls ==
    On(owner, {"create_dir", "remove_dir"}, {mcA})
    \cup On(owner, {"create_file", "append_file"}, {mcAF})
    \cup On(owner, {"create_file", "remove_file"}, {mcG})
    \cup On(guest, {"create_dir", "read_dir"}, {mcA})
    \cup On(guest, {"append_file", "open_file"}, {mcG})
    \cup On(guest, {"remove_file", "metadata", "exists"}, {mcAF})

ASSUME mcDiscipline == Discipline
=============================================================================
