------------------------------- MODULE EmbeddedFS -------------------------------
(***************************************************************************)
(* impls/embedded.rs: a read-only file system over the files a RustEmbed    *)
(* type T carries.                                                          *)
(*                                                                          *)
(* Two things answer its calls: the index that new() builds once from       *)
(* T::iter() (`files` with the lengths, `directory_map` with the children), *)
(* and T::get(), asked again by open_file and metadata.  In a release build *)
(* both show the same files for ever; in a debug build rust-embed reads the *)
(* folder as it is at the moment of the call, which is why metadata has a   *)
(* branch for a file that the index has and T::get does not.                *)
(*                                                                          *)
(* `assets` is a function from the paths of T's files to their contents.    *)
(* A path here is the sequence of its names; normalize_path strips the '/'  *)
(* in front of the text, which sequences do not have.                       *)
(***************************************************************************)
EXTENDS PathAlgebra

\* Fault: only the directory a file lies in learns of it.
DirectoryMapShallow(assets) ==
    [d \in {Front(f) : f \in DOMAIN assets} |->
        {Last(f) : f \in {g \in DOMAIN assets : Front(g) = d}}]

\* The loop of new(): each file is entered in its directory, this directory in
\* its own, up to "".
DirectoryMap(assets) ==
    [d \in UNION {{SubSeq(f, 1, i) : i \in 0 .. Len(f) - 1} : f \in DOMAIN assets} |->
        {f[Len(d) + 1] : f \in {g \in DOMAIN assets : IsStrictPrefix(d, g)}}]

NewIndex(assets) ==
    [files |-> [f \in DOMAIN assets |-> Len(assets[f])],
     directory_map |-> DirectoryMap(assets)]

Said(code) == [code |-> code, names |-> {}, kind |-> "Vacant", len |-> 0]

ReadDirSays(index, p) ==
    IF p \in DOMAIN index.directory_map
    THEN [Said("Ok") EXCEPT !.names = index.directory_map[p]]
    ELSE Said(IF p \in DOMAIN index.files THEN "NotADirectory" ELSE "FileNotFound")

\* The root's path has no '/' to split off: split_at(1) panics.
OpenSays(assets, p) ==
    Said(IF p = Top THEN "Panic" ELSE IF p \in DOMAIN assets THEN "Ok" ELSE "FileNotFound")

MetadataSays(index, assets, p) ==
    IF p \in DOMAIN index.files
    THEN IF p \in DOMAIN assets
         THEN [Said("Ok") EXCEPT !.kind = "File", !.len = index.files[p]]
         ELSE Said("FileNotFound")
    ELSE IF p \in DOMAIN index.directory_map
    THEN [Said("Ok") EXCEPT !.kind = "Directory"]
    ELSE Said("FileNotFound")

ExistsSays(index, p) ==
    Said(IF p \in DOMAIN index.files \cup DOMAIN index.directory_map \cup {Top}
         THEN "True" ELSE "False")

\* create_dir, create_file, append_file, remove_file, remove_dir.
WriteSays == Said("NotSupported")
=============================================================================
