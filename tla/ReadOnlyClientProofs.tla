-------------------------- MODULE ReadOnlyClientProofs --------------------------
(***************************************************************************)
(* The client uses its handles as ReadHandle specifies them, so that what   *)
(* is proved of a handle holds for it; and its copies are whole.            *)
(***************************************************************************)
EXTENDS ReadOnlyClient, ReadHandleProofs, FiniteSetTheorems, SequenceTheorems,
        NaturalsInduction, WellFoundedInduction

\* Whatever can be opened is a content.
ContentsOK ==
    /\ \A f \in DOMAIN assets : assets[f] \in Contents
    /\ stored["memory"] \in Contents \cup {Absent}
    /\ stored["async"] \in Contents
    /\ DOMAIN stored = Stores

\* A reader of embedded data that has returned 0 stands at the end or behind.
EndedAtTheEnd ==
    ended => kind # "none" /\ (kind = "embedded" => position >= Len(content))

\* The handle of a call that has opened its file is the one it opened, and it
\* has never been moved.
TaskHasItsHandle ==
    /\ task.step \in {"create", "loop"} => kind = "embedded" /\ from = 0
    /\ task.step = "open" => kind = "none"

ClientInv == ContentsOK /\ HandleInv /\ EndedAtTheEnd /\ TaskHasItsHandle

LEMMA ClientInit == Init => ClientInv
  <1> SUFFICES ASSUME Init PROVE ClientInv
    OBVIOUS
  <1>1. ContentsOK
    <2>1. (CHOOSE bytes \in Rewrites : TRUE) \in Contents
      BY ClientAssumption
    <2>2. \A f \in DOMAIN assets : assets[f] \in Contents
      BY ClientAssumption DEF Init
    <2> QED
      BY <2>1, <2>2 DEF Init, ContentsOK, Stores
  <1>2. HandleInv
    BY InitHasInv DEF Init
  <1>3. EndedAtTheEnd /\ TaskHasItsHandle
    BY DEF Init, HandleInit, NoHandle, Idle, EndedAtTheEnd, TaskHasItsHandle
  <1> QED
    BY <1>1, <1>2, <1>3 DEF ClientInv

\* A handle step keeps embedded readers where they may end.
LEMMA ReadEndsAtTheEnd ==
    ASSUME HandleInv, EndedAtTheEnd, NEW size \in Sizes, Read(size)
    PROVE  EndedAtTheEnd'
  <1>0. kind # "none" /\ kind' = kind /\ content' = content
    BY DEF Read
  <1> SUFFICES ASSUME kind = "embedded", ended' PROVE position' >= Len(content)
    BY <1>0 DEF EndedAtTheEnd
  <1>1. position \in Nat /\ Len(content) \in Nat /\ size \in Nat
    BY ContentFacts, WidthAssumption, SizesAssumption DEF HandleInv, FieldsOK, Unsigned, Width
  <1>2. /\ position' = position + Amount(size)
        /\ size > 0 /\ Amount(size) = 0
    BY <1>1 DEF Read, SliceThere
  <1> QED
    BY <1>1, <1>2 DEF Amount, Left, LeftForCursor

\* Every step of the client is a step of the handle, or leaves it alone.
LEMMA StepsOfTheHandle ==
    ASSUME ContentsOK, [Next]_vars
    PROVE  [HandleNext]_handleVars
  <1>1. CASE UNCHANGED handleVars
    BY <1>1
  <1>2. CASE OpenEmbedded
    <2>1. Open("embedded", assets[at]) /\ at \in DOMAIN assets
      BY <1>2 DEF OpenEmbedded, OpenSays, Said
    <2> QED
      BY <2>1 DEF ContentsOK, HandleNext, HandleKinds
  <1>3. ASSUME NEW store \in Stores, OpenStored(store) PROVE HandleNext
    BY <1>3 DEF OpenStored, Stores, ContentsOK, HandleNext, HandleKinds
  <1>4. CASE UseHandle
    BY <1>4 DEF UseHandle, HandleNext
  <1>5. CASE TaskOpen
    <2>1. CASE OpenSays(assets, at).code = "Ok"
      <3>1. Open("embedded", assets[at]) /\ at \in DOMAIN assets
        BY <1>5, <2>1 DEF TaskOpen, OpenSays, Said
      <3> QED
        BY <3>1 DEF ContentsOK, HandleNext, HandleKinds
    <2>2. CASE OpenSays(assets, at).code # "Ok"
      BY <1>5, <2>2 DEF TaskOpen
    <2> QED
      BY <2>1, <2>2
  <1>6. CASE TaskRead
    BY <1>6 DEF TaskRead, HandleNext
  <1>7. CASE TaskEnd
    BY <1>7 DEF TaskEnd, HandleNext
  <1>8. ASSUME NEW p, GoTo(p) PROVE UNCHANGED handleVars
    BY <1>8 DEF GoTo
  <1> QED
    BY <1>1, <1>2, <1>3, <1>4, <1>5, <1>6, <1>7, <1>8
    DEF Next, vars, Join, Up, Enter, CopyStart, StringStart, TaskStep, CopyCreate, Rewrite,
        RemoveStored, Edit

\* Files are edited, rewritten and copied, and contents are all that is stored.
LEMMA StepKeepsContents ==
    ASSUME ContentsOK, HandleInv, [Next]_vars
    PROVE  ContentsOK'
  <1>1. CASE UNCHANGED <<assets, stored>>
    BY <1>1 DEF ContentsOK
  <1>2. CASE CopyCreate
    BY <1>2, NothingIsTyped DEF CopyCreate, ContentsOK, Stores, fsVars
  <1>3. CASE TaskEnd
    <2>1. gathered \in Contents
      BY GatheredIsContent
    <2>2. /\ stored' = stored \/ stored' = [stored EXCEPT !["memory"] = gathered]
          /\ assets' = assets
      BY <1>3 DEF TaskEnd, WriteSays, Said
    <2> QED
      BY <1>3, <2>1, <2>2 DEF TaskEnd, ContentsOK, Stores, fsVars
  <1>4. ASSUME NEW store \in Stores, NEW bytes \in Rewrites, Rewrite(store, bytes)
        PROVE  ContentsOK'
    <2>1. bytes \in Contents
      BY ClientAssumption
    <2> QED
      BY <1>4, <2>1 DEF Rewrite, ContentsOK, Stores, fsVars
  <1>5. CASE RemoveStored
    BY <1>5 DEF RemoveStored, ContentsOK, Stores, fsVars
  <1>6. ASSUME NEW edition \in Editions, Edit(edition) PROVE ContentsOK'
    <2>1. \A f \in DOMAIN edition : edition[f] \in Contents
      BY ClientAssumption
    <2> QED
      BY <1>6, <2>1 DEF Edit, ContentsOK, clientVars
  <1>7. ASSUME NEW p, GoTo(p) PROVE UNCHANGED <<assets, stored>>
    BY <1>7 DEF GoTo, fsVars
  <1> QED
    BY <1>1, <1>2, <1>3, <1>4, <1>5, <1>6, <1>7
    DEF Next, vars, fsVars, clientVars, Join, Up, Enter, OpenEmbedded, OpenStored, UseHandle,
        CopyStart, StringStart, TaskStep, TaskOpen, TaskRead

LEMMA StepEndsAtTheEnd ==
    ASSUME HandleInv, EndedAtTheEnd, [HandleNext]_handleVars
    PROVE  EndedAtTheEnd'
  <1>1. CASE UNCHANGED handleVars
    BY <1>1 DEF handleVars, EndedAtTheEnd
  <1>2. ASSUME NEW k \in HandleKinds, NEW bytes \in Contents, Open(k, bytes)
        PROVE  EndedAtTheEnd'
    BY <1>2 DEF Open, EndedAtTheEnd
  <1>3. CASE Close
    BY <1>3 DEF Close, EndedAtTheEnd
  <1>4. ASSUME NEW size \in Sizes, Read(size) PROVE EndedAtTheEnd'
    BY <1>4, ReadEndsAtTheEnd
  <1>5. ASSUME NEW whence \in Whences, NEW offset \in Offsets(whence), Seek(whence, offset)
        PROVE  EndedAtTheEnd'
    BY <1>5 DEF Seek, MovesTo, handleVars, EndedAtTheEnd
  <1> QED
    BY <1>1, <1>2, <1>3, <1>4, <1>5 DEF HandleNext

LEMMA StepKeepsTheTask ==
    ASSUME HandleInv, TaskHasItsHandle, [Next]_vars
    PROVE  TaskHasItsHandle'
  <1>1. CASE UNCHANGED <<handleVars, task>>
    BY <1>1 DEF handleVars, TaskHasItsHandle
  <1>2. CASE task' = Idle
    BY <1>2 DEF Idle, TaskHasItsHandle
  <1>3. CASE (\E call \in CopyingCalls : CopyStart(call)) \/ StringStart
    BY <1>3 DEF CopyStart, StringStart, Free, Doing, handleVars, TaskHasItsHandle
  <1>4. CASE TaskOpen
    <2>1. CASE OpenSays(assets, at).code = "Ok"
      BY <1>4, <2>1 DEF TaskOpen, Open, Doing, TaskHasItsHandle, HandleInv, StartsAtZero
    <2>2. CASE OpenSays(assets, at).code # "Ok"
      BY <1>2, <1>4, <2>2 DEF TaskOpen
    <2> QED
      BY <2>1, <2>2
  <1>5. CASE CopyCreate
    BY <1>5 DEF CopyCreate, Doing, handleVars, TaskHasItsHandle
  <1>6. CASE TaskRead
    BY <1>6 DEF TaskRead, Read, clientVars, TaskHasItsHandle
  <1>7. CASE TaskEnd
    BY <1>2, <1>7 DEF TaskEnd
  <1>8. CASE task = Idle /\ task' = task
    BY <1>2, <1>8
  <1>9. ASSUME NEW p, GoTo(p) PROVE UNCHANGED <<handleVars, task>>
    BY <1>9 DEF GoTo
  <1> QED
    BY <1>1, <1>3, <1>4, <1>5, <1>6, <1>7, <1>8, <1>9
    DEF Next, vars, fsVars, clientVars, Join, Up, Enter, OpenEmbedded, OpenStored, UseHandle,
        Free, TaskStep, Rewrite, RemoveStored, Edit

LEMMA ClientStep == ClientInv /\ [Next]_vars => ClientInv'
  <1> SUFFICES ASSUME ClientInv, [Next]_vars PROVE ClientInv'
    OBVIOUS
  <1>1. [HandleNext]_handleVars
    BY StepsOfTheHandle DEF ClientInv
  <1>2. HandleInv'
    BY <1>1, NextKeepsInv DEF ClientInv
  <1> QED
    BY <1>1, <1>2, StepKeepsContents, StepEndsAtTheEnd, StepKeepsTheTask DEF ClientInv

LEMMA ClientInvariant == Spec => []ClientInv
  <1> QED
    BY ClientInit, ClientStep, PTL DEF Spec

-----------------------------------------------------------------------------
\* The client's steps are steps of its handle: whatever is rewritten, edited or
\* copied, an open handle keeps its content and its place.
THEOREM ClientKeepsHandles == Spec => HandleSpec
  <1>1. Init => HandleInit
    BY DEF Init
  <1>2. ClientInv /\ [Next]_vars => [HandleNext]_handleVars
    BY StepsOfTheHandle DEF ClientInv
  <1> QED
    BY <1>1, <1>2, ClientInvariant, PTL DEF Spec, HandleSpec

\* So the client's reads are in order and its async cursors inside.
THEOREM ClientReadsInOrder == Spec => []ReadsInOrder
  <1> QED
    BY ClientKeepsHandles, ReadersReadInOrder, PTL

\* copy_file, move_file and read_to_string deliver the content as opened, whole,
\* whatever the index says and whatever happens to the file meanwhile.
THEOREM CallsDeliverTheWhole == Spec => DeliveredWhole
  <1>1. ASSUME ClientInv, [Next]_vars, task.step = "loop", task' = Idle
        PROVE  /\ gathered = content
               /\ task.call \in CopyingCalls => stored'["memory"] = content
               /\ assets' = assets
    <2>1. TaskEnd
      <3>1. task # Idle /\ task' # task
        BY <1>1 DEF Idle
      <3>2. ASSUME NEW p, GoTo(p) PROVE FALSE
        BY <3>1, <3>2 DEF GoTo
      <3>3. ~TaskOpen
        BY <1>1 DEF TaskOpen
      <3> QED
        BY <1>1, <3>1, <3>2, <3>3
        DEF Next, vars, clientVars, fsVars, Join, Up, Enter, OpenEmbedded, OpenStored, UseHandle,
            Free, CopyStart, StringStart, TaskStep, CopyCreate, TaskRead, Rewrite, RemoveStored,
            Edit, Doing
    <2>2. /\ ended /\ kind = "embedded" /\ from = 0
          /\ position >= Len(content)
      BY <1>1, <2>1 DEF TaskEnd, LoopOver, ClientInv, TaskHasItsHandle, EndedAtTheEnd
    <2>3. gathered = content
      <3>1. /\ gathered \in Seq(Bytes) /\ Len(gathered) \in Nat
            /\ content \in Seq(Bytes) /\ Len(content) \in Nat
            /\ Len(gathered) = position /\ position \in Nat
        BY <1>1, <2>2, ContentFacts, WidthAssumption
        DEF ClientInv, HandleInv, FieldsOK, ReadsInOrder, Unsigned, Width
      <3>2. \A i \in 1 .. Len(gathered) : i \in 1 .. Len(content) /\ gathered[i] = content[i]
        BY <1>1, <2>2, <3>1 DEF ClientInv, HandleInv, ReadsInOrder
      <3>3. Len(gathered) = Len(content)
        <4>1. CASE Len(gathered) = 0
          BY <2>2, <3>1, <4>1
        <4>2. CASE Len(gathered) > 0
          <5>1. Len(gathered) \in 1 .. Len(content)
            BY <3>1, <3>2, <4>2
          <5> QED
            BY <2>2, <3>1, <5>1
        <4> QED
          BY <3>1, <4>1, <4>2
      <3> QED
        BY <3>1, <3>2, <3>3
    <2> QED
      BY <1>1, <2>1, <2>3 DEF TaskEnd, WriteSays, Said, ClientInv, ContentsOK, Stores
  <1>2. ClientInv /\ [Next]_vars
          => (task.step = "loop" /\ task' = Idle =>
                /\ gathered = content
                /\ task.call \in CopyingCalls => stored'["memory"] = content
               /\ assets' = assets)
    BY <1>1
  <1> QED
    BY <1>2, ClientInvariant, PTL DEF Spec, DeliveredWhole

-----------------------------------------------------------------------------
(* What new() has indexed.                                                  *)

LEMMA StrictPrefixes ==
    ASSUME NEW S, NEW p \in Seq(S), NEW f \in Seq(S)
    PROVE  IsStrictPrefix(p, f) <=> \E i \in 0 .. Len(f) - 1 : p = SubSeq(f, 1, i)
  <1>1. Len(p) \in Nat /\ Len(f) \in Nat
    OBVIOUS
  <1>2. SubSeq(p, 1, Len(p)) = p /\ SubSeq(f, 1, Len(f)) = f
    OBVIOUS
  <1>3. ASSUME IsStrictPrefix(p, f)
        PROVE  \E i \in 0 .. Len(f) - 1 : p = SubSeq(f, 1, i)
    <2>1. Len(p) <= Len(f) /\ SubSeq(p, 1, Len(p)) = SubSeq(f, 1, Len(p)) /\ p # f
      BY <1>3 DEF IsStrictPrefix, IsPrefix
    <2>2. Len(p) # Len(f)
      BY <1>2, <2>1
    <2>3. Len(p) \in 0 .. Len(f) - 1
      BY <1>1, <2>1, <2>2
    <2> QED
      BY <1>2, <2>1, <2>3
  <1>4. ASSUME NEW i \in 0 .. Len(f) - 1, p = SubSeq(f, 1, i)
        PROVE  IsStrictPrefix(p, f)
    <2>1. Len(p) = i
      BY <1>1, <1>4
    <2>2. Len(p) <= Len(f) /\ p # f
      BY <1>1, <1>4, <2>1
    <2> QED
      BY <1>2, <1>4, <2>1, <2>2 DEF IsStrictPrefix, IsPrefix
  <1> QED
    BY <1>3, <1>4

\* Who goes on to the next name of a file below comes to the file, or to a
\* directory on the way.
LEMMA OneNameFurther ==
    ASSUME NEW S, NEW p \in Seq(S), NEW f \in Seq(S), IsStrictPrefix(p, f)
    PROVE  LET q == Append(p, f[Len(p) + 1]) IN q = f \/ (q \in Seq(S) /\ IsStrictPrefix(q, f))
  <1> DEFINE n == Len(p) + 1
             q == Append(p, f[n])
  <1>1. PICK i \in 0 .. Len(f) - 1 : p = SubSeq(f, 1, i)
    BY StrictPrefixes
  <1>2. Len(f) \in Nat /\ Len(p) = i /\ n \in 1 .. Len(f) /\ f[n] \in S
    BY <1>1
  <1>3. q = SubSeq(f, 1, n) /\ q \in Seq(S)
    BY <1>1, <1>2
  <1>4. CASE n = Len(f)
    BY <1>2, <1>3, <1>4
  <1>5. CASE n # Len(f)
    <2>1. n \in 0 .. Len(f) - 1
      BY <1>2, <1>5
    <2> QED
      BY <1>3, <2>1, StrictPrefixes
  <1> QED
    BY <1>4, <1>5

\* directory_map has what is on the way to a file.
LEMMA WhatIsIndexed ==
    ASSUME NEW carried, \A f \in DOMAIN carried : f \in Seq(Seq(STRING)),
           NEW p \in Seq(Seq(STRING))
    PROVE  /\ DOMAIN NewIndex(carried).files = DOMAIN carried
           /\ p \in DOMAIN NewIndex(carried).directory_map
                 <=> \E f \in DOMAIN carried : IsStrictPrefix(p, f)
           /\ p \in DOMAIN NewIndex(carried).directory_map
                 => NewIndex(carried).directory_map[p]
                       = {f[Len(p) + 1] : f \in {g \in DOMAIN carried : IsStrictPrefix(p, g)}}
           /\ \A f \in DOMAIN carried : NewIndex(carried).files[f] = Len(carried[f])
  <1> DEFINE ways(f) == {SubSeq(f, 1, i) : i \in 0 .. Len(f) - 1}
             dirs == UNION {ways(f) : f \in DOMAIN carried}
  <1>1. DOMAIN DirectoryMap(carried) = dirs
    BY DEF DirectoryMap
  <1>2. ASSUME NEW f \in DOMAIN carried PROVE p \in ways(f) <=> IsStrictPrefix(p, f)
    <2>1. IsStrictPrefix(p, f) <=> \E i \in 0 .. Len(f) - 1 : p = SubSeq(f, 1, i)
      BY StrictPrefixes
    <2> QED
      BY <2>1
  <1>3. p \in dirs <=> \E f \in DOMAIN carried : p \in ways(f)
    <2> HIDE DEF ways
    <2> QED
      OBVIOUS
  <1>4. p \in dirs <=> \E f \in DOMAIN carried : IsStrictPrefix(p, f)
    BY <1>2, <1>3
  <1>5. p \in dirs => DirectoryMap(carried)[p]
                         = {f[Len(p) + 1] : f \in {g \in DOMAIN carried : IsStrictPrefix(p, g)}}
    BY <1>1 DEF DirectoryMap
  <1> HIDE DEF dirs
  <1> QED
    BY <1>1, <1>4, <1>5 DEF NewIndex

\* The index is the one of new(), and the client's path is a path.
IndexOfNew ==
    /\ packed \in Packed
    /\ index = NewIndex(packed)
    /\ at \in Seq(Seq(STRING))

LEMMA IndexInvariant == Spec => []IndexOfNew
  <1>1. Init => IndexOfNew
    BY DEF Init, IndexOfNew, Top
  <1>2. IndexOfNew /\ [Next]_vars => IndexOfNew'
    <2> SUFFICES ASSUME IndexOfNew, [Next]_vars PROVE IndexOfNew'
      OBVIOUS
    <2>1. CASE UNCHANGED <<packed, index, at>>
      BY <2>1 DEF IndexOfNew
    <2>2. ASSUME NEW p, GoTo(p) PROVE IndexOfNew'
      BY <2>2, PlacesAssumption DEF GoTo, fsVars, IndexOfNew
    <2> QED
      BY <2>1, <2>2
      DEF Next, vars, fsVars, clientVars, Join, Up, Enter, OpenEmbedded, OpenStored, UseHandle,
          CopyStart, StringStart, TaskStep, TaskOpen, CopyCreate, TaskRead, TaskEnd, Rewrite,
          RemoveStored, Edit
  <1> QED
    BY <1>1, <1>2, PTL DEF Spec

\* Whatever files T carries, as long as none of them is the root or lies below
\* another, what new() indexes is their tree: exists, metadata, read_dir and
\* open_file agree about the client's path wherever it is.
THEOREM EmbeddedIndexIsTree == Spec => []EmbeddedIsTree
  <1>1. ASSUME IndexOfNew PROVE EmbeddedIsTree
    <2> DEFINE isFile == at \in DOMAIN packed
               below == {f \in DOMAIN packed : IsStrictPrefix(at, f)}
               names == {f[Len(at) + 1] : f \in below}
               metadata == MetadataSays(index, packed, at)
               listing == ReadDirSays(index, at)
    <2>1. /\ \A f \in DOMAIN packed :
                /\ f \in Seq(Seq(STRING)) /\ f # Top
                /\ \A g \in DOMAIN packed : ~IsStrictPrefix(f, g)
          /\ at \in Seq(Seq(STRING))
          /\ index = NewIndex(packed)
      BY <1>1, ClientAssumption DEF IndexOfNew
    <2>2. /\ DOMAIN index.files = DOMAIN packed
          /\ at \in DOMAIN index.directory_map <=> below # {}
          /\ below # {} => index.directory_map[at] = names
          /\ isFile => index.files[at] = Len(packed[at])
      BY <2>1, WhatIsIndexed
    <2>3. isFile => below = {} /\ at # Top
      BY <2>1
    <2>4. ASSUME NEW f \in below
          PROVE  ExistsSays(index, Append(at, f[Len(at) + 1])).code = "True"
      <3> DEFINE q == Append(at, f[Len(at) + 1])
      <3>1. f \in Seq(Seq(STRING)) /\ IsStrictPrefix(at, f)
        BY <2>1
      <3>2. q = f \/ (q \in Seq(Seq(STRING)) /\ IsStrictPrefix(q, f))
        BY <2>1, <3>1, OneNameFurther
      <3> HIDE DEF q
      <3>3. q \in DOMAIN index.files \cup DOMAIN index.directory_map
        BY <2>1, <2>2, <3>2, WhatIsIndexed
      <3>4. ExistsSays(index, q).code = "True"
        BY <3>3 DEF ExistsSays, Said
      <3> QED
        BY <3>4 DEF q
    <2> HIDE DEF isFile, below, names
    <2>5. ExistsSays(index, at).code = "True" <=> isFile \/ below # {} \/ at = Top
      BY <2>2 DEF ExistsSays, Said, isFile
    <2>6. /\ metadata.code = "Ok" <=> isFile \/ below # {}
          /\ metadata.code = "Ok" => metadata.kind = (IF isFile THEN "File" ELSE "Directory")
          /\ isFile => metadata.len = Len(packed[at])
      BY <2>2 DEF MetadataSays, Said, isFile
    <2>7. /\ listing.code = (IF isFile THEN "NotADirectory"
                             ELSE IF below # {} THEN "Ok" ELSE "FileNotFound")
          /\ listing.names = IF below # {} THEN names ELSE {}
      BY <2>2, <2>3 DEF ReadDirSays, Said, isFile
    <2>8. listing.names = names
      BY <2>7 DEF names
    <2>9. OpenSays(packed, at).code = "Ok" <=> isFile
      BY <2>3 DEF OpenSays, Said, isFile
    <2>10. names = {name \in names : ExistsSays(index, Append(at, name)).code = "True"}
      BY <2>4 DEF names
    <2>11. \A f \in below : f[Len(at) + 1] \in names
      BY DEF names
    <2> QED
      BY <2>5, <2>6, <2>7, <2>8, <2>9, <2>10, <2>11
      DEF EmbeddedIsTree, isFile, below, names
  <1> QED
    BY <1>1, IndexInvariant, PTL

-----------------------------------------------------------------------------
(* The path algebra: join's loop computes what the reference says.          *)

Names == Seq(STRING)

\* What holds at 0 and goes from each number to the next holds up to N.
LEMMA CountedInduction ==
    ASSUME NEW N \in Nat, NEW S, 0 \in S,
           \A n \in 0 .. N - 1 : n \in S => n + 1 \in S
    PROVE  \A n \in 0 .. N : n \in S
<1> DEFINE Out == {n \in 0 .. N : n \notin S}
<1> SUFFICES ASSUME Out # {} PROVE FALSE
  OBVIOUS
<1>1. Out \in SUBSET Nat
  OBVIOUS
<1>2. PICK m \in Out : \A k \in Out : <<k, m>> \notin OpToRel(<, Nat)
  <2> HIDE DEF Out
  <2> QED
    BY <1>1, NatLessThanWellFounded, WFMin
<1>3. m \in 0 .. N /\ m # 0 /\ m - 1 \in 0 .. N - 1 /\ m - 1 \in 0 .. N /\ m - 1 < m
  OBVIOUS
<1>4. <<m - 1, m>> \in OpToRel(<, Nat)
  BY <1>3 DEF OpToRel
<1>5. m - 1 \in S
  BY <1>2, <1>3, <1>4
<1>6. m - 1 + 1 = m /\ m \notin S
  BY <1>3
<1>7. m - 1 + 1 \in S
  BY <1>3, <1>5
<1> QED
  BY <1>6, <1>7

LEMMA FrontAndLast ==
    ASSUME NEW S, NEW s \in Seq(S), s # << >>
    PROVE  /\ Len(s) \in Nat \ {0}
           /\ Front(s) \in Seq(S) /\ Len(Front(s)) = Len(s) - 1
           /\ \A k \in 1 .. Len(s) - 1 : Front(s)[k] = s[k]
           /\ Last(s) = s[Len(s)] /\ Last(s) \in S
           /\ s = Append(Front(s), Last(s))
<1>1. Len(s) \in Nat \ {0} /\ \A i \in 1 .. Len(s) : s[i] \in S
  BY EmptySeq
<1>2. Len(s) - 1 \in Nat /\ \A i \in 1 .. Len(s) - 1 : s[i] \in S
  BY <1>1
<1>3. /\ Front(s) \in Seq(S) /\ Len(Front(s)) = Len(s) - 1
      /\ \A k \in 1 .. Len(s) - 1 : Front(s)[k] = s[k]
  <2> DEFINE n == Len(s) - 1
             front == SubSeq(s, 1, n)
  <2>1. Front(s) = front
    BY DEF Front
  <2> HIDE DEF n
  <2>a. n \in Nat /\ \A i \in 1 .. n : s[i] \in S
    BY <1>2 DEF n
  <2>2. n \in Int /\ (1 <= n => n - 1 + 1 = n) /\ (~(1 <= n) => n = 0) /\ \A i \in 1 .. n : s[i] \in S
    BY <2>a
  <2>3. /\ front \in Seq(S) /\ Len(front) = IF 1 <= n THEN n - 1 + 1 ELSE 0
        /\ \A k \in 1 .. n - 1 + 1 : front[k] = s[1 + k - 1]
    BY <2>2, SubSeqProperties
  <2> HIDE DEF front
  <2>4. \A k \in 1 .. n : k \in 1 .. n - 1 + 1 /\ 1 + k - 1 = k
    BY <2>2
  <2>5. \A k \in 1 .. n : front[k] = s[k]
    BY <2>3, <2>4
  <2> QED
    BY <2>1, <2>2, <2>3, <2>5 DEF n
<1>4. Last(s) = s[Len(s)] /\ Last(s) \in S
  BY <1>1 DEF Last
<1>5. s = Append(Front(s), Last(s))
  BY <1>1, <1>3, <1>4
<1> QED
  BY <1>1, <1>3, <1>4, <1>5


\* The end of a concatenation is that of its second part.
LEMMA AppendToConcat ==
    ASSUME NEW S, NEW b \in Seq(S), NEW n \in Seq(S), NEW x \in S
    PROVE  b \o Append(n, x) = Append(b \o n, x)
<1> DEFINE s == b \o n
<1>1. s \in Seq(S) /\ Len(s) = Len(b) + Len(n) /\ Len(b) \in Nat /\ Len(n) \in Nat
  BY ConcatProperties
<1>2. Append(n, x) \in Seq(S) /\ Len(Append(n, x)) = Len(n) + 1
  OBVIOUS
<1>3. b \o Append(n, x) \in Seq(S) /\ Append(s, x) \in Seq(S)
  BY <1>1, <1>2
<1>4. Len(b \o Append(n, x)) = Len(b) + Len(n) + 1 /\ Len(Append(s, x)) = Len(b) + Len(n) + 1
  BY <1>1, <1>2
<1>5. \A k \in 1 .. Len(b) + Len(n) + 1 : (b \o Append(n, x))[k] = Append(s, x)[k]
  BY <1>1, <1>2
<1> HIDE DEF s
<1>6. b \o Append(n, x) = Append(s, x)
  BY <1>3, <1>4, <1>5, SeqEqual
<1> QED
  BY <1>6 DEF s

LEMMA FrontOfConcat ==
    ASSUME NEW S, NEW b \in Seq(S), NEW n \in Seq(S), n # << >>
    PROVE  b \o n # << >> /\ Front(b \o n) = b \o Front(n)
<1> DEFINE s == b \o n
<1>0. s \in Seq(S) /\ Len(s) = Len(b) + Len(n) /\ Len(b) \in Nat /\ Len(n) \in Nat
  BY ConcatProperties
<1>1. Len(n) \in Nat \ {0} /\ Front(n) \in Seq(S) /\ Len(Front(n)) = Len(n) - 1
      /\ \A k \in 1 .. Len(n) - 1 : Front(n)[k] = n[k]
  BY FrontAndLast
<1>2. s # << >>
  BY <1>0, <1>1
<1>3. /\ \A k \in 1 .. Len(b) + Len(n) : s[k] = IF k <= Len(b) THEN b[k] ELSE n[k - Len(b)]
      /\ b \o Front(n) \in Seq(S) /\ Len(b \o Front(n)) = Len(b) + Len(Front(n))
      /\ \A k \in 1 .. Len(b) + Len(Front(n)) :
            (b \o Front(n))[k] = IF k <= Len(b) THEN b[k] ELSE Front(n)[k - Len(b)]
  BY <1>1, ConcatProperties
<1> DEFINE both == b \o Front(n)
<1> HIDE DEF s, both
<1>4. /\ Front(s) \in Seq(S) /\ Len(Front(s)) = Len(s) - 1
      /\ \A k \in 1 .. Len(s) - 1 : Front(s)[k] = s[k]
  BY <1>0, <1>2, FrontAndLast
<1>5. both \in Seq(S) /\ Len(both) = Len(Front(s))
  BY <1>0, <1>1, <1>3, <1>4 DEF both
<1>6. ASSUME NEW k \in 1 .. Len(Front(s)) PROVE Front(s)[k] = both[k]
  <2>1. k \in 1 .. Len(s) - 1 /\ k \in 1 .. Len(b) + Len(n) /\ k \in 1 .. Len(b) + Len(Front(n))
    BY <1>0, <1>1, <1>4
  <2>2. ~(k <= Len(b)) => k - Len(b) \in 1 .. Len(n) - 1
    BY <1>0, <2>1
  <2> QED
    BY <1>1, <1>3, <1>4, <2>1, <2>2 DEF both
<1>7. Front(s) = both
  BY <1>4, <1>5, <1>6, SeqEqual
<1> QED
  BY <1>2, <1>7 DEF both, s

LEMMA MaxOfInterval ==
    ASSUME NEW n \in Nat \ {0}, NEW s \in SUBSET (1 .. n), n \in s
    PROVE  Max(s) = n
  <1>1. \A y \in s : n >= y
    OBVIOUS
  <1>2. \A x \in s : (\A y \in s : x >= y) => x = n
    OBVIOUS
  <1> QED
    BY <1>1, <1>2 DEF Max

\* f is the function that FoldLeft computes on the sets of positions up to n.
FoldsTo(f, start, text, n) ==
    f = [s \in SUBSET (1 .. n) |->
            IF s = {} THEN start
            ELSE TakeComponent(f[s \ {Max(s)}], text[Max(s)])]

\* There is one, for every n.
LEMMA FoldExists ==
    ASSUME NEW start, NEW text, NEW N \in Nat
    PROVE  \E f : FoldsTo(f, start, text, N)
<1> DEFINE S == {n \in 0 .. N : \E f : FoldsTo(f, start, text, n)}
<1>1. 0 \in S
  <2> DEFINE f == [s \in SUBSET (1 .. 0) |-> start]
  <2>1. 1 .. 0 = {}
    OBVIOUS
  <2>2. FoldsTo(f, start, text, 0)
    BY <2>1 DEF FoldsTo
  <2> QED
    BY <2>2
<1>2. ASSUME NEW n \in 0 .. N - 1, n \in S PROVE n + 1 \in S
  <2>1. PICK f : FoldsTo(f, start, text, n)
    BY <1>2
  <2> DEFINE value(g, s) == TakeComponent(g[s \ {Max(s)}], text[Max(s)])
             g == [s \in SUBSET (1 .. n + 1) |->
                      IF n + 1 \in s THEN TakeComponent(f[s \ {n + 1}], text[n + 1]) ELSE f[s]]
  <2>2. ASSUME NEW s \in SUBSET (1 .. n + 1)
        PROVE  g[s] = IF s = {} THEN start ELSE value(g, s)
    <3>1. CASE n + 1 \in s
      <4>1. Max(s) = n + 1
        BY <3>1, MaxOfInterval
      <4>2. s \ {n + 1} \in SUBSET (1 .. n + 1) /\ n + 1 \notin s \ {n + 1} /\ s # {}
        BY <3>1
      <4>3. g[s \ {n + 1}] = f[s \ {n + 1}] /\ g[s] = TakeComponent(f[s \ {n + 1}], text[n + 1])
        BY <4>2, <3>1
      <4> HIDE DEF g
      <4> QED
        BY <4>1, <4>2, <4>3
    <3>2. CASE n + 1 \notin s
      <4>1. s \in SUBSET (1 .. n) /\ g[s] = f[s]
        BY <3>2
      <4>2. f[s] = IF s = {} THEN start ELSE value(f, s)
        BY <2>1, <4>1 DEF FoldsTo
      <4>3. s # {} => s \ {Max(s)} \in SUBSET (1 .. n + 1) /\ n + 1 \notin s \ {Max(s)}
        BY <3>2
      <4>4. s # {} => g[s \ {Max(s)}] = f[s \ {Max(s)}]
        BY <4>3
      <4> HIDE DEF g
      <4> QED
        BY <4>1, <4>2, <4>4
    <3> QED
      BY <3>1, <3>2
  <2>3. g = [s \in SUBSET (1 .. n + 1) |-> g[s]]
    OBVIOUS
  <2>4. g = [s \in SUBSET (1 .. n + 1) |-> IF s = {} THEN start ELSE value(g, s)]
    <3> HIDE DEF g
    <3> QED
      BY <2>2, <2>3
  <2>5. FoldsTo(g, start, text, n + 1)
    <3> HIDE DEF g
    <3> QED
      BY <2>4 DEF FoldsTo
  <2> QED
    BY <2>5
<1>3. \A n \in 0 .. N : n \in S
  <2> HIDE DEF S
  <2> QED
    BY <1>1, <1>2, CountedInduction
<1> QED
  BY <1>3

\* join's loop goes through the names of the text one after the other: walk[k]
\* is what it has after k turns.
LEMMA JoinLoop ==
    ASSUME NEW start, NEW text, Len(text) \in Nat, DOMAIN text = 1 .. Len(text)
    PROVE  \E walk :
              /\ walk[0] = start
              /\ \A k \in 1 .. Len(text) : walk[k] = TakeComponent(walk[k - 1], text[k])
              /\ FoldLeft(TakeComponent, start, text) = walk[Len(text)]
<1> DEFINE N == Len(text)
           f == CHOOSE f : FoldsTo(f, start, text, N)
           walk == [k \in 0 .. N |-> f[1 .. k]]
<1>1. N \in Nat /\ DOMAIN text = 1 .. N /\ Len(text) = N
  OBVIOUS
<1>2. FoldsTo(f, start, text, N)
  BY <1>1, FoldExists
<1>3. FoldLeft(TakeComponent, start, text) = f[1 .. N]
  BY <1>1 DEF FoldLeft, MapThenFoldSet, FoldsTo
<1> HIDE DEF f, N
<1>4. walk[0] = start
  <2>1. 1 .. 0 = {} /\ {} \in SUBSET (1 .. N)
    OBVIOUS
  <2>2. f[{}] = start
    BY <1>2, <2>1 DEF FoldsTo
  <2> QED
    BY <1>1, <2>1, <2>2
<1>5. ASSUME NEW k \in 1 .. N PROVE walk[k] = TakeComponent(walk[k - 1], text[k])
  <2>1. 1 .. k \in SUBSET (1 .. N) /\ k \in 1 .. k /\ (1 .. k) \ {k} = 1 .. k - 1 /\ k \in Nat \ {0}
    BY <1>1
  <2>2. Max(1 .. k) = k
    BY <2>1, MaxOfInterval
  <2>3. f[1 .. k] = TakeComponent(f[1 .. k - 1], text[k])
    BY <1>2, <2>1, <2>2 DEF FoldsTo
  <2>4. k - 1 \in 0 .. N /\ k \in 0 .. N
    BY <1>1
  <2> QED
    BY <2>3, <2>4
<1>6. walk[Len(text)] = f[1 .. N] /\ N = Len(text)
  BY <1>1
<1> HIDE DEF walk
<1> QED
  BY <1>3, <1>4, <1>5, <1>6

-----------------------------------------------------------------------------
Real(name) == name \notin {Nothing, Here, Above}

LEMMA ThreeNames ==
    /\ Nothing # Here /\ Nothing # Above /\ Here # Above
    /\ \A name : /\ name \in {Nothing, Here} => ~Real(name) /\ name # Above
                 /\ Real(name) => name \notin {Nothing, Here} /\ name # Above
                 /\ name = Above => name \notin {Nothing, Here} /\ ~Real(name)
                 /\ name \in {Nothing, Here} \/ Real(name) \/ name = Above
<1>1. Len(Nothing) = 1 /\ Len(Here) = 2 /\ Len(Above) = 3
  BY DEF Nothing, Here, Above
<1>2. Nothing # Here /\ Nothing # Above /\ Here # Above
  BY <1>1
<1> QED
  BY <1>2 DEF Real

LEMMA CountsGrow ==
    ASSUME NEW ns, NEW i \in Nat, NEW m \in Nat, i <= m
    PROVE  /\ Count(ns, i + 1 .. m) \in Nat /\ Ups(ns, i + 1 .. m) \in Nat
           /\ Count(ns, i + 1 .. m + 1) =
                 Count(ns, i + 1 .. m) + (IF Real(ns[m + 1]) THEN 1 ELSE 0)
           /\ Ups(ns, i + 1 .. m + 1) =
                 Ups(ns, i + 1 .. m) + (IF ns[m + 1] = Above THEN 1 ELSE 0)
<1> DEFINE Reals(S) == {k \in S : Real(ns[k])}
           Aboves(S) == {k \in S : ns[k] = Above}
<1>1. IsFiniteSet(i + 1 .. m)
  BY FS_Interval
<1>2. /\ IsFiniteSet(Reals(i + 1 .. m)) /\ Cardinality(Reals(i + 1 .. m)) \in Nat
      /\ IsFiniteSet(Aboves(i + 1 .. m)) /\ Cardinality(Aboves(i + 1 .. m)) \in Nat
  <2>1. Reals(i + 1 .. m) \in SUBSET (i + 1 .. m) /\ Aboves(i + 1 .. m) \in SUBSET (i + 1 .. m)
    OBVIOUS
  <2> HIDE DEF Reals, Aboves
  <2>2. IsFiniteSet(Reals(i + 1 .. m)) /\ IsFiniteSet(Aboves(i + 1 .. m))
    BY <1>1, <2>1, FS_Subset
  <2> QED
    BY <2>2, FS_CardinalityType
<1>3. i + 1 .. m + 1 = (i + 1 .. m) \cup {m + 1} /\ m + 1 \notin i + 1 .. m
  OBVIOUS
<1>4. Reals(i + 1 .. m + 1) = IF Real(ns[m + 1]) THEN Reals(i + 1 .. m) \cup {m + 1} ELSE Reals(i + 1 .. m)
  BY <1>3
<1>5. Aboves(i + 1 .. m + 1) = IF ns[m + 1] = Above THEN Aboves(i + 1 .. m) \cup {m + 1} ELSE Aboves(i + 1 .. m)
  BY <1>3
<1>6. m + 1 \notin Reals(i + 1 .. m) /\ m + 1 \notin Aboves(i + 1 .. m)
  BY <1>3
<1>7. \A S : Count(ns, S) = Cardinality(Reals(S)) /\ Ups(ns, S) = Cardinality(Aboves(S))
  BY DEF Count, Ups, Real
<1> HIDE DEF Reals, Aboves
<1>8. /\ Cardinality(Reals(i + 1 .. m) \cup {m + 1}) = Cardinality(Reals(i + 1 .. m)) + 1
      /\ Cardinality(Aboves(i + 1 .. m) \cup {m + 1}) = Cardinality(Aboves(i + 1 .. m)) + 1
  BY <1>2, <1>6, FS_AddElement
<1> QED
  BY <1>2, <1>4, <1>5, <1>7, <1>8

LEMMA NothingCounted ==
    ASSUME NEW ns, NEW m \in Nat
    PROVE  Count(ns, m + 1 .. m) = 0 /\ Ups(ns, m + 1 .. m) = 0
<1>1. m + 1 .. m = {}
  OBVIOUS
<1>2. {i \in {} : ns[i] \notin {Nothing, Here, Above}} = {} /\ {i \in {} : ns[i] = Above} = {}
  OBVIOUS
<1> QED
  BY <1>1, <1>2, FS_EmptySet DEF Count, Ups

\* The names among the first m that no ".." of these takes back.
Alive(ns, m) ==
    {i \in 1 .. m : /\ Real(ns[i])
                    /\ \A j \in i + 1 .. m : Ups(ns, i + 1 .. j) <= Count(ns, i + 1 .. j)}

\* kept lists them, and behind each there are as many more names than ".."
\* as it has followers.
Lists(kept, ns, m) ==
    /\ \A k \in 1 .. Len(kept) : kept[k] \in Alive(ns, m)
    /\ \A i \in Alive(ns, m) : \E k \in 1 .. Len(kept) : kept[k] = i
    /\ \A k, l \in 1 .. Len(kept) : k < l => kept[k] < kept[l]
    /\ \A k \in 1 .. Len(kept) :
          Count(ns, kept[k] + 1 .. m) = Ups(ns, kept[k] + 1 .. m) + Len(kept) - k

KeptNext(kept, ns, m) ==
    IF ns[m + 1] \in {Nothing, Here} THEN kept
    ELSE IF ns[m + 1] # Above THEN Append(kept, m + 1)
    ELSE IF kept = << >> THEN << >> ELSE Front(kept)

LEMMA AliveNext ==
    ASSUME NEW ns, NEW m \in Nat, NEW i \in 1 .. m + 1
    PROVE  i \in Alive(ns, m + 1) <=>
              IF i = m + 1 THEN Real(ns[i])
              ELSE /\ i \in Alive(ns, m)
                   /\ Ups(ns, i + 1 .. m + 1) <= Count(ns, i + 1 .. m + 1)
<1>1. CASE i = m + 1
  <2>1. i + 1 .. m + 1 = {}
    BY <1>1
  <2> QED
    BY <1>1, <2>1 DEF Alive
<1>2. CASE i # m + 1
  <2>1. i \in 1 .. m /\ i + 1 .. m + 1 = (i + 1 .. m) \cup {m + 1}
    BY <1>2
  <2> QED
    BY <1>2, <2>1 DEF Alive
<1> QED
  BY <1>1, <1>2

LEMMA ListsNext ==
    ASSUME NEW ns, NEW m \in Nat, NEW kept \in Seq(Nat), Lists(kept, ns, m)
    PROVE  KeptNext(kept, ns, m) \in Seq(Nat) /\ Lists(KeptNext(kept, ns, m), ns, m + 1)
<1> DEFINE next == KeptNext(kept, ns, m)
<1>1. /\ Len(kept) \in Nat
      /\ \A k \in 1 .. Len(kept) : kept[k] \in 1 .. m /\ kept[k] \in Alive(ns, m)
  BY DEF Lists, Alive
<1>2. \A k \in 1 .. Len(kept) :
         /\ Count(ns, kept[k] + 1 .. m) \in Nat /\ Ups(ns, kept[k] + 1 .. m) \in Nat
         /\ Count(ns, kept[k] + 1 .. m) = Ups(ns, kept[k] + 1 .. m) + Len(kept) - k
         /\ Count(ns, kept[k] + 1 .. m + 1) =
               Count(ns, kept[k] + 1 .. m) + (IF Real(ns[m + 1]) THEN 1 ELSE 0)
         /\ Ups(ns, kept[k] + 1 .. m + 1) =
               Ups(ns, kept[k] + 1 .. m) + (IF ns[m + 1] = Above THEN 1 ELSE 0)
  <2> TAKE k \in 1 .. Len(kept)
  <2>1. kept[k] \in Nat /\ kept[k] <= m
    BY <1>1
  <2>2. Count(ns, kept[k] + 1 .. m) = Ups(ns, kept[k] + 1 .. m) + Len(kept) - k
    BY DEF Lists
  <2> QED
    BY <2>1, <2>2, CountsGrow
<1>3. /\ \A i \in Alive(ns, m) : \E k \in 1 .. Len(kept) : kept[k] = i
      /\ \A k, l \in 1 .. Len(kept) : k < l => kept[k] < kept[l]
  BY DEF Lists
<1>4. \A i \in Alive(ns, m + 1) : i \in 1 .. m + 1
  BY DEF Alive
<1>5. \A k \in 1 .. Len(kept) : kept[k] \in 1 .. m + 1 /\ kept[k] # m + 1
  BY <1>1
<1>6. CASE ns[m + 1] \in {Nothing, Here}
  <2>1. next = kept /\ ~Real(ns[m + 1]) /\ ns[m + 1] # Above
    BY <1>6, ThreeNames DEF KeptNext
  <2>2. \A k \in 1 .. Len(kept) : kept[k] \in Alive(ns, m + 1)
    BY <1>1, <1>2, <1>5, <2>1, AliveNext
  <2>3. \A i \in Alive(ns, m + 1) : \E k \in 1 .. Len(kept) : kept[k] = i
    BY <1>3, <1>4, <2>1, AliveNext
  <2> QED
    BY <1>2, <1>3, <2>1, <2>2, <2>3 DEF Lists
<1>7. CASE Real(ns[m + 1])
  <2>1. next = Append(kept, m + 1) /\ ns[m + 1] # Above
    BY <1>7, ThreeNames DEF KeptNext
  <2>2. /\ next \in Seq(Nat) /\ Len(next) = Len(kept) + 1 /\ next[Len(kept) + 1] = m + 1
        /\ \A k \in 1 .. Len(kept) : next[k] = kept[k]
    BY <1>1, <2>1
  <2>3. \A k \in 1 .. Len(next) : k \in 1 .. Len(kept) \/ k = Len(kept) + 1
    BY <1>1, <2>2
  <2> HIDE DEF next
  <2>4. ASSUME NEW k \in 1 .. Len(kept) PROVE kept[k] \in Alive(ns, m + 1)
    <3>1. Ups(ns, kept[k] + 1 .. m + 1) <= Count(ns, kept[k] + 1 .. m + 1)
      BY <1>1, <1>2, <1>7, <2>1
    <3> QED
      BY <1>1, <1>5, <3>1, AliveNext
  <2>5. m + 1 \in Alive(ns, m + 1)
    <3>1. m + 1 \in 1 .. m + 1
      OBVIOUS
    <3> QED
      BY <1>7, <3>1, AliveNext
  <2>6. \A k \in 1 .. Len(next) : next[k] \in Alive(ns, m + 1)
    BY <2>2, <2>3, <2>4, <2>5
  <2>7. ASSUME NEW i \in Alive(ns, m + 1) PROVE \E k \in 1 .. Len(next) : next[k] = i
    <3>1. CASE i = m + 1
      BY <1>1, <2>2, <3>1
    <3>2. CASE i # m + 1
      <4>1. i \in Alive(ns, m)
        BY <1>4, <3>2, AliveNext
      <4>2. PICK k \in 1 .. Len(kept) : kept[k] = i
        BY <1>3, <4>1
      <4>3. k \in 1 .. Len(next) /\ next[k] = i
        BY <1>1, <2>2, <4>2
      <4> QED
        BY <4>3
    <3> QED
      BY <3>1, <3>2
  <2>8. ASSUME NEW k \in 1 .. Len(next), NEW l \in 1 .. Len(next), k < l PROVE next[k] < next[l]
    <3>1. k \in 1 .. Len(kept) /\ next[k] = kept[k]
      BY <1>1, <2>2, <2>8
    <3>2. CASE l \in 1 .. Len(kept)
      BY <1>3, <2>2, <2>8, <3>1, <3>2
    <3>3. CASE l = Len(kept) + 1
      BY <1>1, <2>2, <3>1, <3>3
    <3> QED
      BY <2>3, <3>2, <3>3
  <2>9. ASSUME NEW k \in 1 .. Len(next)
        PROVE  Count(ns, next[k] + 1 .. m + 1) = Ups(ns, next[k] + 1 .. m + 1) + Len(next) - k
    <3>1. CASE k \in 1 .. Len(kept)
      <4>1. next[k] = kept[k]
        BY <2>2, <3>1
      <4> QED
        BY <1>1, <1>2, <1>7, <2>1, <2>2, <3>1, <4>1
    <3>2. CASE k = Len(kept) + 1
      <4>1. next[k] = m + 1 /\ m + 1 \in Nat /\ Len(next) - k = 0
        BY <1>1, <2>2, <3>2
      <4>2. Count(ns, m + 1 + 1 .. m + 1) = 0 /\ Ups(ns, m + 1 + 1 .. m + 1) = 0
        BY <4>1, NothingCounted
      <4> QED
        BY <1>1, <2>2, <3>2, <4>1, <4>2
    <3> QED
      BY <2>3, <3>1, <3>2
  <2> QED
    BY <2>2, <2>6, <2>7, <2>8, <2>9 DEF Lists, next
<1>8. CASE ns[m + 1] = Above
  <2>0. ~Real(ns[m + 1]) /\ ns[m + 1] \notin {Nothing, Here}
    BY <1>8, ThreeNames
  <2>1. CASE kept = << >>
    <3>1. next = << >> /\ Len(kept) = 0
      BY <1>8, <2>0, <2>1 DEF KeptNext
    <3>2. Alive(ns, m + 1) = {}
      BY <1>3, <1>4, <2>0, <3>1, AliveNext
    <3> QED
      BY <3>1, <3>2 DEF Lists
  <2>2. CASE kept # << >>
    <3>1. next = Front(kept) /\ Len(kept) \in Nat /\ Len(kept) >= 1
      BY <1>1, <1>8, <2>0, <2>2, FrontAndLast DEF KeptNext
    <3>2. /\ next \in Seq(Nat) /\ Len(next) = Len(kept) - 1
          /\ \A k \in 1 .. Len(next) : next[k] = kept[k] /\ k \in 1 .. Len(kept) /\ k # Len(kept)
          /\ \A k \in 1 .. Len(kept) : k # Len(kept) => k \in 1 .. Len(next)
      <4> HIDE DEF next
      <4>1. next \in Seq(Nat) /\ Len(next) = Len(kept) - 1
        BY <2>2, <3>1, FrontAndLast
      <4>2. \A k \in 1 .. Len(kept) - 1 : next[k] = kept[k]
        BY <2>2, <3>1, FrontAndLast
      <4> QED
        BY <3>1, <4>1, <4>2
    <3> HIDE DEF next
    <3>3. ASSUME NEW k \in 1 .. Len(kept)
          PROVE  kept[k] \in Alive(ns, m + 1) <=> k # Len(kept)
      <4>1. Ups(ns, kept[k] + 1 .. m + 1) <= Count(ns, kept[k] + 1 .. m + 1) <=> k # Len(kept)
        BY <1>1, <1>2, <1>8, <2>0
      <4> QED
        BY <1>1, <1>5, <4>1, AliveNext
    <3>4. \A i \in Alive(ns, m + 1) : i \in Alive(ns, m)
      BY <1>4, <2>0, AliveNext
    <3>5. \A i \in Alive(ns, m + 1) : \E k \in 1 .. Len(next) : next[k] = i
      BY <1>3, <3>2, <3>3, <3>4
    <3>6. ASSUME NEW k \in 1 .. Len(next)
          PROVE  Count(ns, next[k] + 1 .. m + 1) = Ups(ns, next[k] + 1 .. m + 1) + Len(next) - k
      <4>1. next[k] = kept[k] /\ k \in 1 .. Len(kept) /\ Len(next) = Len(kept) - 1
        BY <3>2
      <4> QED
        BY <1>1, <1>2, <1>8, <2>0, <4>1
    <3>7. \A k, l \in 1 .. Len(next) : k < l => next[k] < next[l]
      BY <1>3, <3>2
    <3> QED
      BY <3>2, <3>3, <3>5, <3>6, <3>7 DEF Lists, next
  <2> QED
    BY <2>1, <2>2
<1> QED
  BY <1>6, <1>7, <1>8 DEF Real

-----------------------------------------------------------------------------
Walks == [base : Seq(Names), names : Seq(Names)]
Stack(walk) == walk.base \o walk.names

\* A turn of the loop puts a name on the path, takes one off, or neither,
\* wherever the collected names begin.
LEMMA TurnOfTheLoop ==
    ASSUME NEW walk \in Walks, NEW name \in Names
    PROVE  /\ TakeComponent(walk, name) \in Walks
           /\ Stack(TakeComponent(walk, name)) =
                 IF name \in {Nothing, Here} THEN Stack(walk)
                 ELSE IF name # Above THEN Append(Stack(walk), name)
                 ELSE IF Stack(walk) = << >> THEN << >> ELSE Front(Stack(walk))
<1> DEFINE next == TakeComponent(walk, name)
<1>0. walk.base \in Seq(Names) /\ walk.names \in Seq(Names)
  BY DEF Walks
<1>1. CASE name \in {Nothing, Here}
  BY <1>1 DEF TakeComponent
<1>2. CASE name \notin {Nothing, Here} /\ name # Above
  <2>1. next = [walk EXCEPT !.names = Append(walk.names, name)]
    BY <1>2 DEF TakeComponent
  <2>a. Append(walk.names, name) \in Seq(Names)
    BY <1>0
  <2>2. next.base = walk.base /\ next.names = Append(walk.names, name) /\ next \in Walks
    BY <1>0, <2>1, <2>a DEF Walks
  <2>3. walk.base \o Append(walk.names, name) = Append(walk.base \o walk.names, name)
    <3> DEFINE b == walk.base
               n == walk.names
    <3>1. b \in Seq(Names) /\ n \in Seq(Names)
      BY <1>0
    <3> HIDE DEF b, n
    <3>2. b \o Append(n, name) = Append(b \o n, name)
      BY <3>1, AppendToConcat
    <3> QED
      BY <3>2 DEF b, n
  <2> QED
    BY <1>2, <2>2, <2>3 DEF Stack
<1>3. CASE name \notin {Nothing, Here} /\ name = Above /\ walk.names # << >>
  <2>1. next = [walk EXCEPT !.names = Front(walk.names)]
    BY <1>3 DEF TakeComponent
  <2>2. Front(walk.names) \in Seq(Names)
    BY <1>0, <1>3, FrontAndLast
  <2>3. next.base = walk.base /\ next.names = Front(walk.names) /\ next \in Walks
    BY <1>0, <2>1, <2>2 DEF Walks
  <2>4. /\ walk.base \o walk.names # << >>
        /\ Front(walk.base \o walk.names) = walk.base \o Front(walk.names)
    BY <1>0, <1>3, FrontOfConcat
  <2> QED
    BY <1>3, <2>3, <2>4 DEF Stack
<1>4. CASE name \notin {Nothing, Here} /\ name = Above /\ walk.names = << >>
  <2>1. next = [walk EXCEPT !.base = ParentPath(walk.base)]
    BY <1>4 DEF TakeComponent
  <2>2. Stack(walk) = walk.base
    BY <1>0, <1>4, ConcatEmptySeq DEF Stack
  <2>3. ParentPath(walk.base) \in Seq(Names)
    BY <1>0, FrontAndLast DEF ParentPath, Top
  <2>4. next.base = ParentPath(walk.base) /\ next.names = << >> /\ next \in Walks
    BY <1>0, <1>4, <2>1, <2>3 DEF Walks
  <2>5. Stack(next) = ParentPath(walk.base)
    BY <2>3, <2>4, ConcatEmptySeq DEF Stack
  <2> QED
    BY <1>4, <2>2, <2>4, <2>5 DEF ParentPath, Top
<1> QED
  BY <1>1, <1>2, <1>3, <1>4

-----------------------------------------------------------------------------
Listed(kept, ns) == [k \in 1 .. Len(kept) |-> ns[kept[k]]]

\* The same for the names that are listed: what the loop does to the path, it
\* does to the list of those that are left.
LEMMA ListedNext ==
    ASSUME NEW ns \in Seq(Names), NEW m \in Nat, m < Len(ns),
           NEW kept \in Seq(Nat), Lists(kept, ns, m),
           NEW walk \in Walks, Stack(walk) = Listed(kept, ns)
    PROVE  /\ TakeComponent(walk, ns[m + 1]) \in Walks
           /\ Stack(TakeComponent(walk, ns[m + 1])) = Listed(KeptNext(kept, ns, m), ns)
<1> DEFINE name == ns[m + 1]
           list == Listed(kept, ns)
           next == KeptNext(kept, ns, m)
<1>1. name \in Names
  BY LenProperties
<1>2. /\ Len(kept) \in Nat /\ DOMAIN kept = 1 .. Len(kept)
      /\ \A k \in 1 .. Len(kept) : kept[k] \in 1 .. Len(ns) /\ ns[kept[k]] \in Names
  BY LenProperties DEF Lists, Alive
<1>3. list \in Seq(Names) /\ Len(list) = Len(kept) /\ \A k \in 1 .. Len(kept) : list[k] = ns[kept[k]]
  BY <1>2 DEF Listed
<1>4. list = << >> <=> kept = << >>
  BY <1>2, <1>3
<1>5. /\ TakeComponent(walk, name) \in Walks
      /\ Stack(TakeComponent(walk, name)) =
            IF name \in {Nothing, Here} THEN list
            ELSE IF name # Above THEN Append(list, name)
            ELSE IF list = << >> THEN << >> ELSE Front(list)
  BY <1>1, TurnOfTheLoop
<1>6. CASE name \in {Nothing, Here}
  BY <1>5, <1>6 DEF KeptNext
<1>7. CASE name \notin {Nothing, Here} /\ name # Above
  <2>1. next = Append(kept, m + 1)
    BY <1>7 DEF KeptNext
  <2>2. Append(list, name) = Listed(Append(kept, m + 1), ns)
    <3>1. /\ Len(Append(kept, m + 1)) = Len(kept) + 1
          /\ \A k \in 1 .. Len(kept) + 1 :
                Append(kept, m + 1)[k] = IF k = Len(kept) + 1 THEN m + 1 ELSE kept[k]
      BY <1>2
    <3>2. Append(list, name) = [k \in 1 .. Len(kept) + 1 |-> IF k = Len(kept) + 1 THEN name ELSE list[k]]
      BY <1>1, <1>2, <1>3
    <3>3. \A k \in 1 .. Len(kept) + 1 : k = Len(kept) + 1 \/ k \in 1 .. Len(kept)
      BY <1>2
    <3> HIDE DEF list
    <3> QED
      BY <1>2, <1>3, <3>1, <3>2, <3>3 DEF Listed
  <2> QED
    BY <1>5, <1>7, <2>1, <2>2
<1>8. CASE name \notin {Nothing, Here} /\ name = Above /\ list = << >>
  <2>1. next = << >> /\ Listed(<< >>, ns) = << >>
    BY <1>4, <1>8 DEF KeptNext, Listed
  <2> QED
    BY <1>5, <1>8, <2>1
<1>9. CASE name \notin {Nothing, Here} /\ name = Above /\ list # << >>
  <2>1. next = Front(kept)
    BY <1>4, <1>9 DEF KeptNext
  <2>2. /\ Front(kept) \in Seq(Nat) /\ Len(Front(kept)) = Len(kept) - 1
        /\ \A k \in 1 .. Len(kept) - 1 : Front(kept)[k] = kept[k]
    BY <1>4, <1>9, FrontAndLast
  <2>3. /\ Front(list) \in Seq(Names) /\ Len(Front(list)) = Len(kept) - 1
        /\ \A k \in 1 .. Len(kept) - 1 : Front(list)[k] = list[k]
    BY <1>3, <1>9, FrontAndLast
  <2>4. Front(list) = [k \in 1 .. Len(kept) - 1 |-> Front(list)[k]]
    BY <2>3
  <2>5. \A k \in 1 .. Len(kept) - 1 : k \in 1 .. Len(kept)
    BY <1>2
  <2>6. Front(list) = Listed(Front(kept), ns)
    <3> DEFINE front == Front(list)
               less == Front(kept)
    <3> HIDE DEF list, front, less
    <3>1. \A k \in 1 .. Len(kept) - 1 : front[k] = ns[less[k]]
      BY <1>3, <2>2, <2>3, <2>5 DEF front, less
    <3>2. front = [k \in 1 .. Len(less) |-> ns[less[k]]]
      BY <2>2, <2>4, <3>1 DEF front, less
    <3> QED
      BY <3>2 DEF front, less, Listed
  <2> QED
    BY <1>5, <1>9, <2>1, <2>6
<1> QED
  BY <1>6, <1>7, <1>8, <1>9

\* The path that join starts from is normal: all its names are left.
LEMMA ListedAtStart ==
    ASSUME NEW ns \in Seq(Names), NEW o \in Nat, o <= Len(ns), \A i \in 1 .. o : Real(ns[i]),
           NEW kept, kept = [k \in 1 .. o |-> k]
    PROVE  kept \in Seq(Nat) /\ Len(kept) = o /\ Lists(kept, ns, o)
<1>1. kept \in Seq(Nat) /\ Len(kept) = o /\ \A k \in 1 .. o : kept[k] = k
  OBVIOUS
<1>2. \A i \in 1 .. o : ns[i] # Above /\ ns[i] \notin {Nothing, Here, Above}
  BY DEF Real
<1>3. ASSUME NEW i \in 1 .. o, NEW j \in i .. o
      PROVE  Ups(ns, i + 1 .. j) = 0 /\ Count(ns, i + 1 .. j) = j - i
  <2>1. {k \in i + 1 .. j : ns[k] = Above} = {}
    BY <1>2
  <2>2. {k \in i + 1 .. j : ns[k] \notin {Nothing, Here, Above}} = i + 1 .. j
    BY <1>2
  <2>3. Cardinality(i + 1 .. j) = j - i
    <3>1. Cardinality(i + 1 .. j) = IF i + 1 > j THEN 0 ELSE j - (i + 1) + 1
      BY FS_Interval
    <3> QED
      BY <3>1
  <2> QED
    BY <2>1, <2>2, <2>3, FS_EmptySet DEF Ups, Count
<1>4. Alive(ns, o) = 1 .. o
  <2>1. ASSUME NEW i \in 1 .. o, NEW j \in i + 1 .. o
        PROVE  Ups(ns, i + 1 .. j) <= Count(ns, i + 1 .. j)
    <3>1. j \in i .. o /\ 0 <= j - i
      OBVIOUS
    <3> QED
      BY <1>3, <3>1
  <2> QED
    BY <2>1 DEF Alive
<1>5. ASSUME NEW k \in 1 .. o
      PROVE  Count(ns, k + 1 .. o) = Ups(ns, k + 1 .. o) + o - k
  <2>1. o \in k .. o
    OBVIOUS
  <2> QED
    BY <1>3, <2>1
<1>6. Lists(kept, ns, o)
  BY <1>1, <1>4, <1>5 DEF Lists
<1> QED
  BY <1>1, <1>6

\* A set that is listed in order has as many elements as the list.
LEMMA CardinalityOfListed ==
    ASSUME NEW S \in SUBSET Nat, NEW n \in Nat, NEW f \in [1 .. n -> S],
           \A i \in S : \E k \in 1 .. n : f[k] = i,
           \A k, l \in 1 .. n : k < l => f[k] < f[l]
    PROVE  Cardinality(S) = n
<1>1. ASSUME NEW k \in 1 .. n, NEW l \in 1 .. n, f[k] = f[l] PROVE k = l
  <2>0. f[k] \in Nat /\ f[l] \in Nat
    OBVIOUS
  <2>1. ~(k < l) /\ ~(l < k)
    BY <1>1, <2>0
  <2> QED
    BY <2>1
<1>2. f \in Injection(1 .. n, S) /\ f \in Surjection(1 .. n, S)
  BY <1>1 DEF Injection, Surjection, IsInjective
<1>3. ExistsBijection(1 .. n, S)
  BY <1>2 DEF ExistsBijection, Bijection
<1> QED
  BY <1>3, FS_CountingElements

\* What the reference says of names is their list.
LEMMA ResolvedIsListed ==
    ASSUME NEW ns \in Seq(Names), NEW kept \in Seq(Nat), Lists(kept, ns, Len(ns))
    PROVE  [k \in 1 .. Cardinality({i \in DOMAIN ns : Survives(ns, i)}) |->
               ns[CHOOSE i \in DOMAIN ns :
                     /\ Survives(ns, i)
                     /\ Cardinality({j \in 1 .. i : Survives(ns, j)}) = k]] = Listed(kept, ns)
<1> DEFINE S == {i \in DOMAIN ns : Survives(ns, i)}
           upto(i) == {j \in 1 .. i : Survives(ns, j)}
<1>1. Len(ns) \in Nat /\ DOMAIN ns = 1 .. Len(ns) /\ Len(kept) \in Nat
  OBVIOUS
<1>2. S = Alive(ns, Len(ns))
  BY <1>1 DEF Survives, Alive, Real
<1>3. /\ \A k \in 1 .. Len(kept) : kept[k] \in S /\ kept[k] \in 1 .. Len(ns) /\ Survives(ns, kept[k])
      /\ \A i \in S : \E k \in 1 .. Len(kept) : kept[k] = i
      /\ \A k, l \in 1 .. Len(kept) : k < l => kept[k] < kept[l]
  BY <1>1, <1>2 DEF Lists
<1>4. Cardinality(S) = Len(kept)
  <2>1. S \in SUBSET Nat /\ kept \in [1 .. Len(kept) -> S]
    BY <1>1, <1>3
  <2> HIDE DEF S
  <2> QED
    BY <1>1, <1>3, <2>1, CardinalityOfListed
<1>5. ASSUME NEW k \in 1 .. Len(kept) PROVE Cardinality(upto(kept[k])) = k
  <2>1. k \in Nat /\ \A l \in 1 .. k : l \in 1 .. Len(kept) /\ (l # k => l < k)
    BY <1>1
  <2>2. ASSUME NEW l \in 1 .. k PROVE kept[l] \in upto(kept[k]) /\ kept[l] \in Nat
    <3>1. kept[l] \in 1 .. Len(ns) /\ kept[k] \in 1 .. Len(ns) /\ kept[l] <= kept[k] /\ Survives(ns, kept[l])
      BY <1>1, <1>3, <2>1
    <3> QED
      BY <3>1
  <2>3. ASSUME NEW i \in upto(kept[k]) PROVE \E l \in 1 .. k : kept[l] = i
    <3>1. i \in S /\ i <= kept[k] /\ i \in Nat /\ kept[k] \in Nat
      BY <1>1, <1>3
    <3>2. PICK l \in 1 .. Len(kept) : kept[l] = i
      BY <1>3, <3>1
    <3>3. ~(k < l)
      BY <1>3, <3>1, <3>2
    <3> QED
      BY <3>2, <3>3
  <2>4. \A l, m \in 1 .. k : l < m => kept[l] < kept[m]
    BY <1>3, <2>1
  <2> DEFINE T == upto(kept[k])
             first == [l \in 1 .. k |-> kept[l]]
  <2>5. /\ T \in SUBSET Nat /\ first \in [1 .. k -> T]
        /\ \A i \in T : \E l \in 1 .. k : first[l] = i
        /\ \A l, m \in 1 .. k : l < m => first[l] < first[m]
    BY <2>2, <2>3, <2>4
  <2> HIDE DEF T, first
  <2>6. Cardinality(T) = k
    BY <2>1, <2>5, CardinalityOfListed
  <2> QED
    BY <2>6 DEF T
<1>6. ASSUME NEW k \in 1 .. Len(kept)
      PROVE  (CHOOSE i \in DOMAIN ns : Survives(ns, i) /\ Cardinality(upto(i)) = k) = kept[k]
  <2>1. kept[k] \in DOMAIN ns /\ Survives(ns, kept[k]) /\ Cardinality(upto(kept[k])) = k
    BY <1>1, <1>3, <1>5
  <2>2. ASSUME NEW i \in DOMAIN ns, Survives(ns, i), Cardinality(upto(i)) = k PROVE i = kept[k]
    <3>1. i \in S
      BY <2>2
    <3>2. PICK l \in 1 .. Len(kept) : kept[l] = i
      BY <1>3, <3>1
    <3>3. l = k
      BY <1>5, <2>2, <3>2
    <3> QED
      BY <3>2, <3>3
  <2> HIDE DEF upto
  <2> QED
    BY <2>1, <2>2
<1> HIDE DEF S
<1>7. [k \in 1 .. Cardinality(S) |-> ns[CHOOSE i \in DOMAIN ns : Survives(ns, i) /\ Cardinality(upto(i)) = k]]
        = [k \in 1 .. Len(kept) |-> ns[kept[k]]]
  <2> DEFINE pick(k) == CHOOSE i \in DOMAIN ns : Survives(ns, i) /\ Cardinality(upto(i)) = k
  <2>1. \A k \in 1 .. Len(kept) : pick(k) = kept[k]
    BY <1>6
  <2> HIDE DEF pick
  <2>2. [k \in 1 .. Cardinality(S) |-> ns[pick(k)]] = [k \in 1 .. Len(kept) |-> ns[kept[k]]]
    BY <1>4, <2>1
  <2> QED
    BY <2>2 DEF pick
<1> QED
  BY <1>7 DEF S, Listed

\* join answers what the reference says, a path without "." and "..".
LEMMA JoinIsResolved ==
    ASSUME NEW p \in Seq(Names), IsNormal(p), NEW text \in Seq(Names), ~EndsInSlash(text)
    PROVE  /\ JoinAnswer(p, text).code = "Ok"
           /\ JoinAnswer(p, text).path = Resolved(p, text)
           /\ Resolved(p, text) \in Seq(Names) /\ IsNormal(Resolved(p, text))
<1> DEFINE ns == IF IsAbsolute(text) THEN text ELSE p \o text
           o == IF IsAbsolute(text) THEN 0 ELSE Len(p)
           start == [base |-> IF IsAbsolute(text) THEN Top ELSE p, names |-> << >>]
           N == Len(text)
<1>1. N \in Nat /\ Len(p) \in Nat /\ DOMAIN p = 1 .. Len(p)
  OBVIOUS
<1>2. /\ ns \in Seq(Names) /\ o \in Nat /\ Len(ns) = o + N
      /\ \A k \in 1 .. N : ns[o + k] = text[k]
  BY <1>1, ConcatProperties
<1>3. \A i \in 1 .. o : ns[i] = p[i] /\ Real(ns[i])
  BY <1>1, ConcatProperties DEF IsNormal, Real
<1>4. start \in Walks
  BY DEF Walks, Top
<1>5. Stack(start) = [k \in 1 .. o |-> ns[k]]
  <2>1. CASE IsAbsolute(text)
    <3>1. Stack(start) = << >> /\ 1 .. o = {}
      BY <2>1 DEF Stack, Top
    <3> QED
      BY <3>1
  <2>2. CASE ~IsAbsolute(text)
    <3>1. Stack(start) = p
      BY <2>2, ConcatEmptySeq DEF Stack
    <3>2. p = [k \in 1 .. Len(p) |-> p[k]]
      BY <1>1
    <3> QED
      BY <1>3, <2>2, <3>1, <3>2
  <2> QED
    BY <2>1, <2>2
<1>6. PICK walk :
         /\ walk[0] = start
         /\ \A k \in 1 .. N : walk[k] = TakeComponent(walk[k - 1], text[k])
         /\ FoldLeft(TakeComponent, start, text) = walk[N]
  <2>1. Len(text) \in Nat /\ DOMAIN text = 1 .. Len(text)
    BY LenProperties
  <2> HIDE DEF start
  <2> QED
    BY <2>1, JoinLoop, Zenon
<1> HIDE DEF ns, o, start
<1> DEFINE Right(k) == /\ walk[k] \in Walks
                       /\ \E kept \in Seq(Nat) :
                             Lists(kept, ns, o + k) /\ Stack(walk[k]) = Listed(kept, ns)
           K == {k \in 0 .. N : Right(k)}
<1>7. 0 \in K
  <2> DEFINE kept == [k \in 1 .. o |-> k]
  <2>1. kept \in Seq(Nat) /\ Len(kept) = o /\ Lists(kept, ns, o)
    <3>1. o <= Len(ns) /\ kept = [k \in 1 .. o |-> k]
      BY <1>1, <1>2
    <3> HIDE DEF kept
    <3> QED
      BY <1>2, <1>3, <3>1, ListedAtStart
  <2>2. Listed(kept, ns) = [k \in 1 .. o |-> ns[k]]
    <3>1. \A k \in 1 .. o : kept[k] = k
      OBVIOUS
    <3> HIDE DEF kept
    <3> QED
      BY <2>1, <3>1 DEF Listed
  <2> HIDE DEF kept
  <2>3. o + 0 = o /\ 0 \in 0 .. N
    BY <1>1, <1>2
  <2> QED
    BY <1>4, <1>5, <1>6, <2>1, <2>2, <2>3
<1>8. ASSUME NEW k \in 0 .. N - 1, k \in K PROVE k + 1 \in K
  <2>1. PICK kept \in Seq(Nat) : Lists(kept, ns, o + k) /\ Stack(walk[k]) = Listed(kept, ns)
    BY <1>8
  <2>2. /\ o + k \in Nat /\ o + k < Len(ns) /\ k + 1 \in 1 .. N /\ k + 1 - 1 = k
        /\ o + (k + 1) = o + k + 1 /\ k + 1 \in 0 .. N
    BY <1>1, <1>2
  <2>3. walk[k + 1] = TakeComponent(walk[k], ns[o + k + 1])
    BY <1>2, <1>6, <2>2
  <2>4. walk[k] \in Walks
    BY <1>8
  <2>5. walk[k + 1] \in Walks /\ Stack(walk[k + 1]) = Listed(KeptNext(kept, ns, o + k), ns)
    BY <1>2, <2>1, <2>2, <2>3, <2>4, ListedNext
  <2>6. KeptNext(kept, ns, o + k) \in Seq(Nat) /\ Lists(KeptNext(kept, ns, o + k), ns, o + (k + 1))
    BY <2>1, <2>2, ListsNext
  <2> QED
    BY <2>2, <2>5, <2>6
<1>9. N \in K
  <2> HIDE DEF K
  <2>1. \A k \in 0 .. N : k \in K
    BY <1>1, <1>7, <1>8, CountedInduction
  <2> QED
    BY <1>1, <2>1
<1>10. PICK kept \in Seq(Nat) : Lists(kept, ns, Len(ns)) /\ Stack(walk[N]) = Listed(kept, ns)
  BY <1>2, <1>9
<1>11. Listed(kept, ns) = Resolved(p, text)
  <2>1. [k \in 1 .. Cardinality({i \in DOMAIN ns : Survives(ns, i)}) |->
           ns[CHOOSE i \in DOMAIN ns :
                 /\ Survives(ns, i)
                 /\ Cardinality({j \in 1 .. i : Survives(ns, j)}) = k]] = Listed(kept, ns)
    BY <1>2, <1>10, ResolvedIsListed
  <2> QED
    BY <2>1 DEF ns, Resolved
<1>12. Listed(kept, ns) \in Seq(Names) /\ IsNormal(Listed(kept, ns))
  <2>1. /\ Len(kept) \in Nat
        /\ \A k \in 1 .. Len(kept) : ns[kept[k]] \in Names /\ Real(ns[kept[k]])
    BY <1>2, <1>10, LenProperties DEF Lists, Alive
  <2> QED
    BY <2>1 DEF Listed, IsNormal, Real
<1>13. JoinAnswer(p, text).code = "Ok"
  BY DEF JoinAnswer
<1>14. JoinAnswer(p, text).path = Stack(walk[N])
  <2>1. CASE text # <<Nothing>>
    BY <1>6, <2>1 DEF JoinAnswer, Stack, start
  <2>2. CASE text = <<Nothing>>
    <3>1. N = 1 /\ text[1] = Nothing /\ ~IsAbsolute(text)
      BY <2>2 DEF IsAbsolute
    <3>2. walk[1] = TakeComponent(walk[0], Nothing)
      BY <1>6, <3>1
    <3>3. walk[1] = start
      BY <1>6, <3>2 DEF TakeComponent
    <3>4. Stack(start) = p
      BY <3>1, ConcatEmptySeq DEF Stack, start
    <3> QED
      BY <2>2, <3>1, <3>3, <3>4 DEF JoinAnswer
  <2> QED
    BY <2>1, <2>2
<1> QED
  BY <1>10, <1>11, <1>12, <1>13, <1>14

-----------------------------------------------------------------------------
(* Where the client gets.                                                   *)

LEMMA NormalPaths ==
    ASSUME NEW p \in Seq(Names), IsNormal(p)
    PROVE  /\ ParentPath(p) \in Seq(Names) /\ IsNormal(ParentPath(p))
           /\ \A name : name \notin {Nothing, Here, Above} => IsNormal(Append(p, name))
           /\ p # Top => /\ Filename(p) \in Names /\ Real(Filename(p))
                         /\ Append(ParentPath(p), Filename(p)) = p
<1>1. DOMAIN p = 1 .. Len(p) /\ Len(p) \in Nat /\ \A i \in 1 .. Len(p) : Real(p[i])
  BY DEF IsNormal, Real
<1>2. ASSUME NEW name, name \notin {Nothing, Here, Above} PROVE IsNormal(Append(p, name))
  BY <1>1, <1>2 DEF IsNormal, Real
<1>3. CASE p = Top
  BY <1>2, <1>3 DEF ParentPath, Top
<1>4. CASE p # Top
  <2>1. /\ Len(p) \in Nat \ {0} /\ Front(p) \in Seq(Names) /\ Len(Front(p)) = Len(p) - 1
        /\ \A k \in 1 .. Len(p) - 1 : Front(p)[k] = p[k]
        /\ Last(p) = p[Len(p)] /\ Last(p) \in Names /\ p = Append(Front(p), Last(p))
    BY <1>4, FrontAndLast DEF Top
  <2>2. IsNormal(Front(p))
    BY <1>1, <2>1 DEF IsNormal, Real
  <2>3. Real(Last(p))
    BY <1>1, <2>1
  <2> QED
    BY <1>2, <1>4, <2>1, <2>2, <2>3 DEF ParentPath, Filename
<1> QED
  BY <1>3, <1>4

\* A text of one name.
LEMMA JoinOne ==
    ASSUME NEW p \in Seq(Names), NEW name, name # Nothing
    PROVE  JoinAnswer(p, <<name>>).path =
              Stack(TakeComponent([base |-> p, names |-> << >>], name))
<1> DEFINE start == [base |-> p, names |-> << >>]
           text == <<name>>
<1>1. DOMAIN text = 1 .. 1 /\ Len(text) = 1 /\ text[1] = name /\ ~IsAbsolute(text) /\ ~EndsInSlash(text)
  BY DEF IsAbsolute, EndsInSlash
<1>2. text # <<Nothing>>
  <2>1. <<Nothing>>[1] = Nothing
    OBVIOUS
  <2> QED
    BY <1>1, <2>1
<1> HIDE DEF text
<1>3. PICK walk :
         /\ walk[0] = start
         /\ \A k \in 1 .. Len(text) : walk[k] = TakeComponent(walk[k - 1], text[k])
         /\ FoldLeft(TakeComponent, start, text) = walk[Len(text)]
  <2>1. Len(text) \in Nat /\ DOMAIN text = 1 .. Len(text)
    BY <1>1
  <2> HIDE DEF start
  <2> QED
    BY <2>1, JoinLoop, Zenon
<1>4. FoldLeft(TakeComponent, start, text) = TakeComponent(start, name)
  <2> HIDE DEF start
  <2>1. 1 \in 1 .. Len(text) /\ 1 - 1 = 0
    BY <1>1
  <2>2. walk[1] = TakeComponent(walk[0], text[1])
    BY <1>3, <2>1
  <2> QED
    BY <1>1, <1>3, <2>2
<1>5. JoinAnswer(p, text).path = Stack(TakeComponent(start, name))
  BY <1>1, <1>2, <1>4 DEF JoinAnswer, Stack
<1> QED
  BY <1>5 DEF text

\* The client is at a normal path, one of its places.
PlaceOK == at \in Places /\ IsNormal(at)

TaskOK ==
    task \in {Idle} \cup {Doing(call, step) : call \in CopyingCalls \cup {"string"},
                                           step \in {"open", "create", "loop"}}

LEMMA PlaceStep ==
    ASSUME IndexOfNew, PlaceOK, [Next]_vars
    PROVE  PlaceOK'
<1>0. at \in Seq(Names)
  BY DEF IndexOfNew, Names
<1>1. CASE UNCHANGED at
  BY <1>1 DEF PlaceOK
<1>2. ASSUME NEW text \in Texts, Join(text) PROVE PlaceOK'
  <2>1. JoinAnswer(at, text).code = "Ok" /\ GoTo(JoinAnswer(at, text).path)
    BY <1>2 DEF Join
  <2>2. text \in Seq(Names) /\ IsNormal(at)
    BY PlacesAssumption DEF Names, PlaceOK
  <2>3. CASE text = <<Nothing>>
    BY <2>1, <2>2, <2>3 DEF JoinAnswer, GoTo, PlaceOK
  <2>4. CASE text # <<Nothing>>
    <3>1. ~EndsInSlash(text)
      BY <2>1, <2>4 DEF JoinAnswer
    <3>2. IsNormal(JoinAnswer(at, text).path)
      BY <1>0, <2>2, <3>1, JoinIsResolved
    <3> QED
      BY <2>1, <3>2 DEF GoTo, PlaceOK
  <2> QED
    BY <2>3, <2>4
<1>3. CASE Up
  BY <1>0, <1>3, NormalPaths DEF Up, GoTo, PlaceOK
<1>4. ASSUME NEW name, Enter(name) PROVE PlaceOK'
  <2>1. name \in ReadDirSays(index, at).names /\ GoTo(Append(at, name))
    BY <1>4 DEF Enter
  <2>2. at \in DOMAIN index.directory_map /\ name \in index.directory_map[at]
    BY <2>1 DEF ReadDirSays, Said
  <2>3. \A f \in DOMAIN packed : f \in Seq(Seq(STRING)) /\ IsNormal(f)
    BY ClientAssumption DEF IndexOfNew
  <2>4. PICK f \in DOMAIN packed : IsStrictPrefix(at, f) /\ name = f[Len(at) + 1]
    BY <2>2, <2>3, WhatIsIndexed DEF IndexOfNew
  <2>5. Len(at) + 1 \in DOMAIN f
    <3>1. PICK i \in 0 .. Len(f) - 1 : at = SubSeq(f, 1, i)
      BY <2>3, <2>4, StrictPrefixes DEF IndexOfNew
    <3>2. f \in Seq(Seq(STRING)) /\ Len(f) \in Nat /\ DOMAIN f = 1 .. Len(f) /\ Len(at) = i
      BY <2>3, <3>1
    <3> QED
      BY <3>2
  <2>6. name \notin {Nothing, Here, Above}
    BY <2>3, <2>4, <2>5 DEF IsNormal
  <2> QED
    BY <1>0, <2>1, <2>6, NormalPaths DEF GoTo, PlaceOK
<1> QED
  BY <1>1, <1>2, <1>3, <1>4
  DEF Next, vars, clientVars, OpenEmbedded, OpenStored, UseHandle, CopyStart, StringStart,
      TaskStep, TaskOpen, CopyCreate, TaskRead, TaskEnd, Rewrite, RemoveStored, Edit

LEMMA TaskStepOK ==
    ASSUME TaskOK, [Next]_vars
    PROVE  TaskOK'
<1> DEFINE Calls == CopyingCalls \cup {"string"}
           Tasks == {Idle} \cup {Doing(call, step) : call \in Calls, step \in {"open", "create", "loop"}}
<1>0. task \in Tasks /\ (task' \in Tasks => TaskOK')
  BY DEF TaskOK
<1>1. \A call \in Calls : \A step \in {"open", "create", "loop"} : Doing(call, step) \in Tasks
  OBVIOUS
<1>2. Idle \in Tasks
  OBVIOUS
<1>3. task # Idle => task.call \in Calls
  BY <1>0 DEF Doing
<1>4. task.step = "open" \/ task.step = "create" => task # Idle
  BY DEF Idle
<1> HIDE DEF Tasks
<1>5. CASE UNCHANGED task
  BY <1>0, <1>5
<1>6. CASE (\E call \in CopyingCalls : CopyStart(call)) \/ StringStart
  BY <1>0, <1>1, <1>6 DEF CopyStart, StringStart
<1>7. CASE TaskOpen
  BY <1>0, <1>1, <1>2, <1>3, <1>4, <1>7 DEF TaskOpen
<1>8. CASE CopyCreate
  BY <1>0, <1>1, <1>3, <1>4, <1>8 DEF CopyCreate
<1>9. CASE TaskEnd
  BY <1>0, <1>2, <1>9 DEF TaskEnd
<1>10. ASSUME NEW p, GoTo(p) PROVE UNCHANGED task
  BY <1>10 DEF GoTo
<1> QED
  BY <1>5, <1>6, <1>7, <1>8, <1>9, <1>10
  DEF Next, vars, clientVars, Join, Up, Enter, OpenEmbedded, OpenStored, UseHandle,
      TaskStep, TaskRead, Rewrite, RemoveStored, Edit

LEMMA PlaceInvariant == Spec => [](PlaceOK /\ TaskOK)
<1>1. Init => PlaceOK /\ TaskOK
  BY PlacesAssumption DEF Init, PlaceOK, TaskOK, IsNormal, Top
<1>2. IndexOfNew /\ PlaceOK /\ TaskOK /\ [Next]_vars => (PlaceOK /\ TaskOK)'
  BY PlaceStep, TaskStepOK
<1> QED
  BY <1>1, <1>2, IndexInvariant, PTL DEF Spec

\* The client's variables are of their types: whatever it joins, enters and
\* goes up from, its path has no name that is empty, "." or "..".
THEOREM ClientTypes == Spec => []ClientTypeOK
<1>1. HandleInv => HandleTypeOK /\ CursorInside
  BY GatheredIsContent DEF HandleInv, FieldsOK, HandleTypeOK
<1>2. ClientInv /\ PlaceOK /\ TaskOK => ClientTypeOK
  BY <1>1 DEF ClientInv, ContentsOK, PlaceOK, TaskOK, ClientTypeOK
<1> QED
  BY <1>2, ClientInvariant, PlaceInvariant, PTL

\* Wherever the client is, join answers what the reference says for every text
\* it may be given, and joining "..", the parent and the filename fit together.
THEOREM JoinsAreResolved == Spec => []JoinsResolve
<1>1. ASSUME IndexOfNew, PlaceOK PROVE JoinsResolve
  <2>0. at \in Seq(Names) /\ IsNormal(at)
    BY <1>1 DEF IndexOfNew, PlaceOK, Names
  <2>1. ASSUME NEW text \in Texts
        PROVE  LET answer == JoinAnswer(at, text) IN
               IF EndsInSlash(text) THEN answer.code = "InvalidPath"
               ELSE /\ answer.code = "Ok"
                    /\ answer.path = Resolved(at, text)
                    /\ IsNormal(answer.path)
    <3>1. text \in Seq(Names)
      BY PlacesAssumption DEF Names
    <3>2. CASE EndsInSlash(text)
      <4>1. Len(text) > 1 /\ Len(<<Nothing>>) = 1
        BY <3>2 DEF EndsInSlash
      <4>2. text # <<Nothing>>
        <5> DEFINE alone == <<Nothing>>
        <5>1. Len(text) \in Nat /\ Len(alone) = 1 /\ Len(text) > 1
          BY <3>1, <4>1
        <5> HIDE DEF alone
        <5>2. ASSUME text = alone PROVE FALSE
          <6>1. Len(text) = 1
            BY <5>1, <5>2
          <6> QED
            BY <5>1, <6>1
        <5> QED
          BY <5>2 DEF alone
      <4> QED
        BY <3>2, <4>2 DEF JoinAnswer
    <3>3. CASE ~EndsInSlash(text)
      BY <2>0, <3>1, <3>3, JoinIsResolved
    <3> QED
      BY <3>2, <3>3
  <2>2. JoinAnswer(at, <<Above>>).path = ParentPath(at)
    <3>1. Above # Nothing /\ Above \notin {Nothing, Here}
      BY ThreeNames
    <3>2. TakeComponent([base |-> at, names |-> << >>], Above)
             = [base |-> ParentPath(at), names |-> << >>]
      BY <3>1 DEF TakeComponent
    <3>3. Stack([base |-> ParentPath(at), names |-> << >>]) = ParentPath(at)
      BY <2>0, NormalPaths, ConcatEmptySeq DEF Stack
    <3> QED
      BY <2>0, <3>1, <3>2, <3>3, JoinOne
  <2>3. ASSUME at # Top
        PROVE  JoinAnswer(ParentPath(at), <<Filename(at)>>).path = at
    <3> DEFINE name == Filename(at)
               parent == ParentPath(at)
    <3>1. /\ parent \in Seq(Names) /\ name \in Names /\ Append(parent, name) = at
          /\ name \notin {Nothing, Here} /\ name # Above /\ name # Nothing
      BY <2>0, <2>3, NormalPaths DEF Real
    <3> HIDE DEF name, parent
    <3>2. TakeComponent([base |-> parent, names |-> << >>], name)
             = [base |-> parent, names |-> <<name>>]
      BY <3>1 DEF TakeComponent
    <3>3. Stack([base |-> parent, names |-> <<name>>]) = Append(parent, name)
      BY <3>1 DEF Stack
    <3>4. JoinAnswer(parent, <<name>>).path = at
      BY <3>1, <3>2, <3>3, JoinOne
    <3> QED
      BY <3>4 DEF name, parent
  <2>4. \A extension \in Extension(Filename(at)) : Last(Filename(at)) = extension
    BY DEF Extension
  <2> QED
    BY <2>1, <2>2, <2>3, <2>4 DEF JoinsResolve
<1> QED
  BY <1>1, IndexInvariant, PlaceInvariant, PTL
=============================================================================
