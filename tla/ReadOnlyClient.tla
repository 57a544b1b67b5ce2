----------------------------- MODULE ReadOnlyClient -----------------------------
(***************************************************************************)
(* A client of an EmbeddedFS with a MemoryFS and an AsyncMemoryFS beside   *)
(* it.  It moves its VfsPath by join, parent and what read_dir lists, opens*)
(* files and uses the handles (ReadHandle), and makes longer calls, step by*)
(* step: copy_file and move_file from the embedded to the memory file      *)
(* system, and read_to_string.  Meanwhile other clients rewrite the files  *)
(* of the memory file systems, and somebody edits the folder that a debug  *)
(* build of rust-embed reads.                                              *)
(***************************************************************************)
EXTENDS ReadHandle, EmbeddedFS

CONSTANTS
    Texts,      \* the arguments of join
    Places,     \* bound: the paths the client goes to
    Packed,     \* what T may carry when new() is called
    Editions,   \* what its folder may become
    Rewrites,   \* the contents other clients write
    Absent      \* no file there

ASSUME ClientAssumption ==
    /\ Rewrites \subseteq Contents /\ Rewrites # {} /\ Absent \notin Contents
    /\ \A assets \in Packed \cup Editions : \A f \in DOMAIN assets :
          /\ f \in Seq(Seq(STRING)) /\ IsNormal(f) /\ f # Top
          /\ assets[f] \in Contents
          /\ \A g \in DOMAIN assets : ~IsStrictPrefix(f, g)
\* Paths and texts are sequences of names; the client starts at the root.
ASSUME PlacesAssumption ==
    /\ Places \subseteq Seq(Seq(STRING)) /\ Top \in Places
    /\ Texts \subseteq Seq(Seq(STRING))

VARIABLES
    at,         \* the client's VfsPath on the embedded file system
    packed,     \* history: what T::iter listed in new()
    index,      \* EmbeddedFS.files and directory_map
    assets,     \* what T::get answers now
    stored,     \* the one file of the MemoryFS and of the AsyncMemoryFS
    task        \* the longer call under way and its next step

fsVars == <<packed, index, assets>>
clientVars == <<at, stored, task>>
vars == <<handleVars, fsVars, clientVars>>

Idle == [call |-> "none", step |-> "none"]
Doing(call, step) == [call |-> call, step |-> step]
Stores == {"memory", "async"}

Init ==
    /\ HandleInit
    /\ at = Top
    /\ packed \in Packed
    /\ assets = packed
    /\ index = NewIndex(packed)
    /\ stored = [memory |-> Absent, async |-> CHOOSE bytes \in Rewrites : TRUE]
    /\ task = Idle

Free == task = Idle /\ kind = "none"

GoTo(p) ==
    /\ Free
    /\ p \in Places
    /\ at' = p
    /\ UNCHANGED <<handleVars, fsVars, stored, task>>

Join(text) ==
    /\ JoinAnswer(at, text).code = "Ok"
    /\ GoTo(JoinAnswer(at, text).path)

Up == GoTo(ParentPath(at))

\* read_dir gives paths below this one.
Enter(name) ==
    /\ ReadDirSays(index, at).code = "Ok"
    /\ name \in ReadDirSays(index, at).names
    /\ GoTo(Append(at, name))

OpenEmbedded ==
    /\ Free
    /\ OpenSays(assets, at).code = "Ok"
    /\ Open("embedded", assets[at])
    /\ UNCHANGED <<fsVars, clientVars>>

\* The handle gets the Arc of the content that the file has now.  (Bound: the
\* client turns to the other file systems only from the root of this one.)
OpenStored(store) ==
    /\ Free
    /\ at = Top
    /\ stored[store] # Absent
    /\ Open(store, stored[store])
    /\ UNCHANGED <<fsVars, clientVars>>

UseHandle ==
    /\ task = Idle
    /\ \/ Close
       \/ \E size \in Sizes : Read(size)
       \/ \E whence \in Whences : \E offset \in Offsets(whence) : Seek(whence, offset)
    /\ UNCHANGED <<fsVars, clientVars>>

-----------------------------------------------------------------------------
(* The longer calls.                                                        *)

CopyingCalls == {"copy", "move"}

\* copy_file and move_file look once whether the destination exists.
CopyStart(call) ==
    /\ Free
    /\ stored["memory"] = Absent
    /\ task' = Doing(call, "open")
    /\ UNCHANGED <<handleVars, fsVars, at, stored>>

\* read_to_string asks for the metadata first.
StringStart ==
    /\ Free
    /\ MetadataSays(index, assets, at).kind = "File"
    /\ task' = Doing("string", "open")
    /\ UNCHANGED <<handleVars, fsVars, at, stored>>

\* The file may have gone, or never have been one: the call ends in an error.
\* At the root it panics.
TaskOpen ==
    /\ task.step = "open"
    /\ IF OpenSays(assets, at).code = "Ok"
       THEN /\ Open("embedded", assets[at])
            /\ task' = Doing(task.call, IF task.call = "string" THEN "loop" ELSE "create")
       ELSE task' = Idle /\ UNCHANGED handleVars
    /\ UNCHANGED <<fsVars, at, stored>>

\* create_file on the memory file system: an empty file, for all to see.
CopyCreate ==
    /\ task.step = "create"
    /\ stored' = [stored EXCEPT !["memory"] = << >>]
    /\ task' = Doing(task.call, "loop")
    /\ UNCHANGED <<handleVars, fsVars, at>>

\* Fault: the loop runs until it has as many bytes as the metadata say.
LoopOverByLength == at \in DOMAIN index.files /\ Len(gathered) = index.files[at]

\* std::io::copy and read_to_string go on until a read returns 0.
LoopOver == ended

TaskRead ==
    /\ task.step = "loop" /\ ~LoopOver
    /\ \E size \in Sizes \ {0} : Read(size)
    /\ UNCHANGED <<fsVars, clientVars>>

\* The writer publishes what it was given when it is dropped.  move_file asks
\* for the source's removal before, and when that is refused answers the error
\* with the copy in place.
TaskEnd ==
    /\ task.step = "loop" /\ LoopOver
    /\ stored' = IF task.call \in CopyingCalls
                 THEN [stored EXCEPT !["memory"] = gathered] ELSE stored
    /\ assets' = IF task.call = "move" /\ WriteSays.code = "Ok"
                 THEN Restrict(assets, DOMAIN assets \ {at}) ELSE assets
    /\ task' = Idle
    /\ Close
    /\ UNCHANGED <<packed, index, at>>

TaskStep == TaskOpen \/ CopyCreate \/ TaskRead \/ TaskEnd

-----------------------------------------------------------------------------
(* Everybody else.                                                          *)

\* Fault: the writer changes the vector in place, which open readers share.
RewriteInPlace(store, bytes) ==
    /\ stored[store] # Absent
    /\ stored' = [stored EXCEPT ![store] = bytes]
    /\ content' = IF kind = store THEN bytes ELSE content
    /\ UNCHANGED <<kind, position, ended, panicked, from, gathered, fsVars, at, task>>

\* A writer's flush or drop puts a new vector behind a new Arc into the map.
Rewrite(store, bytes) ==
    /\ stored[store] # Absent
    /\ stored' = [stored EXCEPT ![store] = bytes]
    /\ UNCHANGED <<handleVars, fsVars, at, task>>

RemoveStored ==
    /\ stored' = [stored EXCEPT !["memory"] = Absent]
    /\ UNCHANGED <<handleVars, fsVars, at, task>>

\* In a debug build the folder is a folder.
Edit(edition) ==
    /\ assets' = edition
    /\ UNCHANGED <<handleVars, packed, index, clientVars>>

Next ==
    \/ \E text \in Texts : Join(text)
    \/ Up
    \/ \E d \in DOMAIN index.directory_map : \E name \in index.directory_map[d] : Enter(name)
    \/ OpenEmbedded
    \/ \E store \in Stores : OpenStored(store)
    \/ UseHandle
    \/ \E call \in CopyingCalls : CopyStart(call)
    \/ StringStart
    \/ TaskStep
    \/ \E store \in Stores, bytes \in Rewrites : Rewrite(store, bytes)
    \/ RemoveStored
    \/ \E edition \in Editions : Edit(edition)

Spec == Init /\ [][Next]_vars

-----------------------------------------------------------------------------
\* The variables are of their types, the async cursor's range included.
ClientTypeOK ==
    /\ HandleTypeOK /\ CursorInside
    /\ IsNormal(at) /\ at \in Places
    /\ stored["memory"] \in Contents \cup {Absent} /\ stored["async"] \in Contents
    /\ task \in {Idle} \cup {Doing(call, step) : call \in CopyingCalls \cup {"string"},
                                               step \in {"open", "create", "loop"}}

\* From whatever path, join resolves "." and "..", empty names and a leading
\* slash as if the two texts had been one, and never gets above the root; it
\* refuses exactly what ends in a slash.  A path is its parent joined with its
\* filename, and its parent is what joining ".." gives.
JoinsResolve ==
    /\ \A text \in Texts :
          LET answer == JoinAnswer(at, text) IN
          IF EndsInSlash(text) THEN answer.code = "InvalidPath"
          ELSE /\ answer.code = "Ok"
               /\ answer.path = Resolved(at, text)
               /\ IsNormal(answer.path)
    /\ JoinAnswer(at, <<Above>>).path = ParentPath(at)
    /\ at # Top => JoinAnswer(ParentPath(at), <<Filename(at)>>).path = at
    /\ \A extension \in Extension(Filename(at)) : Last(Filename(at)) = extension

\* The index that new() has built shows exactly the tree of the files T
\* carried: exists, metadata, read_dir and open_file agree about every path,
\* and whoever follows the listings comes to every file.  (The root of an
\* empty T exists and yet has neither metadata nor a listing; a file edited
\* since is opened as it is now.)
EmbeddedIsTree ==
    LET isFile == at \in DOMAIN packed
        below == {f \in DOMAIN packed : IsStrictPrefix(at, f)}
        metadata == MetadataSays(index, packed, at)
        listing == ReadDirSays(index, at)
    IN /\ ExistsSays(index, at).code = "True" <=> isFile \/ below # {} \/ at = Top
       /\ metadata.code = "Ok" <=> isFile \/ below # {}
       /\ metadata.code = "Ok" => metadata.kind = (IF isFile THEN "File" ELSE "Directory")
       /\ isFile => metadata.len = Len(packed[at])
       /\ listing.code = (IF isFile THEN "NotADirectory"
                          ELSE IF below # {} THEN "Ok" ELSE "FileNotFound")
       /\ listing.names = {name \in {f[Len(at) + 1] : f \in below} :
                              ExistsSays(index, Append(at, name)).code = "True"}
       /\ \A f \in below : f[Len(at) + 1] \in listing.names
       /\ OpenSays(packed, at).code = "Ok" <=> isFile

\* copy_file, move_file and read_to_string deliver the whole of the content the
\* file had when they opened it: not what the index says of its length, and
\* nothing of what it has become meanwhile.  A move, which the read-only source
\* refuses at last, leaves the source and the complete copy.
DeliveredWhole ==
    [][task.step = "loop" /\ task' = Idle =>
          /\ gathered = content
          /\ task.call \in CopyingCalls => stored'["memory"] = content
          /\ assets' = assets]_vars
=============================================================================
