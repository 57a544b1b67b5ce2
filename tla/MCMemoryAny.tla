------------------------------ MODULE MCMemoryAny ------------------------------
(* MemoryFS under clients without any discipline: the thread wild makes       *)
(* and removes files and directories at one path, opens and removes the root, *)
(* and calls on while its handle is open; rival makes a directory there       *)
(* meanwhile.                                                                 *)
(*                                                                            *)
(* The history variable image keeps, apart from the handle's own buffer, the  *)
(* byte last written at each position.                                        *)
EXTENDS MemoryFS, Integers, TLC

CONSTANTS wild, rival, a, b

mcThreads == {wild, rival}
mcA == <<a>>
mcAB == <<a, b>>
mcPaths == {Root, mcA, mcAB}
mcFilePaths == {mcAB}
mcBytes == {1}

On(t, ops, paths) == [thread : {t}, op : ops, path : paths]

mcCalls ==
    On(wild, CreatingOps \cup {"remove_file", "remove_dir"}, {mcA})
    \cup On(wild, {"append_file", "remove_dir"}, {Root})
    \cup On(wild, {"create_file"}, {mcAB})
    \cup On(rival, {"create_dir"}, {mcA})

-----------------------------------------------------------------------------
VARIABLE image

Unwritten == -1
Positions == 1 .. MaxLen

\* The byte at each position of a content.
ImageOf(content) ==
    [i \in Positions |-> IF i <= Len(content) THEN content[i] ELSE Unwritten]

\* The content a reader is owed: up to the last position written, the gaps zero.
Owed(img) ==
    LET written == {i \in Positions : img[i] # Unwritten}
        length == CHOOSE n \in 0 .. MaxLen :
                    (n = 0 \/ n \in written) /\ \A i \in written : i <= n
    IN [i \in 1 .. length |-> IF img[i] = Unwritten THEN 0 ELSE img[i]]

AnyInit == Init /\ image = [t \in Threads |-> ImageOf(<< >>)]

AnyNext ==
    \E t \in Threads :
        \/ /\ (\E p \in Paths : Begin(t, p)) \/ Finish(t)
           /\ image' = IF ~writer[t].open /\ writer'[t].open
                       THEN [image EXCEPT ![t] = ImageOf(files'[writer'[t].path].content)]
                       ELSE image
        \/ \E byte \in Bytes :
             /\ Write(t, byte)
             /\ image' = [image EXCEPT ![t][writer[t].pos + 1] = byte]
        \/ /\ (\E position \in 0 .. MaxLen : Seek(t, position)) \/ Flush(t)
           /\ UNCHANGED image
        \/ /\ Drop(t)
           /\ image' = [image EXCEPT ![t] = ImageOf(<< >>)]

AnySpec == AnyInit /\ [][AnyNext]_<<vars, image>>

\* Every flush, not only the last or the first one, makes all that was written
\* through the handle readable at its path ("Fix MemoryFS flush", issue #70,
\* test flush_then_read_with_new_handle in memory.rs), seeks and gaps included, whatever
\* other threads have done to that path meanwhile.
FlushShowsAllWrites ==
    [][\A t \in Threads : Flush(t) \/ Drop(t) =>
          /\ IsFile(files', writer[t].path)
          /\ files'[writer[t].path].content = Owed(image[t])]_<<vars, image>>
=============================================================================
