----------------------------- MODULE MemoryFSProofs -----------------------------
(* Theorems about MemoryFS, for any sets of threads, paths, calls and bytes.   *)
EXTENDS MemoryFS, FsTreeProofs

-----------------------------------------------------------------------------
(* Type correctness.                                                        *)

LEMMA CallAnswerTypes ==
    ASSUME NEW f \in Maps, NEW p \in Paths
    PROVE  OpenAnswer(f, p) \in Answers /\ RemoveAnswer(f, p) \in Answers
<1>1. \A code \in Codes : Answer(code) \in Answers
  BY AnswerTypes
<1>2. f[p].kind \in Kinds /\ f[p].content \in Contents
  BY EntryFields DEF Maps
<1>3. "Ok" \in Codes /\ "FileNotFound" \in Codes /\ "NotAFile" \in Codes
  BY DEF Codes
<1> QED
  BY <1>1, <1>2, <1>3 DEF OpenAnswer, RemoveAnswer, Answer, Answers, Kinds

\* What Proceed and Return leave in the thread's program counter, argument and
\* answer.
LEMMA ProceedType ==
    ASSUME TypeOK, NEW t \in Threads, NEW p \in Paths, NEW op \in PendingOps,
           Proceed(t, op, p)
    PROVE  /\ pc' \in [Threads -> {"idle"} \cup PendingOps]
           /\ arg' \in [Threads -> Paths]
           /\ res' \in [Threads -> Results]
BY DEF TypeOK, Proceed

LEMMA ReturnType ==
    ASSUME TypeOK, NEW t \in Threads, NEW op \in Ops, NEW p \in Paths,
           NEW answer \in Answers, Return(t, op, p, answer)
    PROVE  /\ pc' \in [Threads -> {"idle"} \cup PendingOps]
           /\ arg' \in [Threads -> Paths]
           /\ res' \in [Threads -> Results]
<1>1. Result(op, p, answer) \in Results
  BY DEF Result, Results
<1>2. QED
  BY <1>1, PathsAssumption DEF TypeOK, Return

LEMMA CompleteType ==
    ASSUME TypeOK, NEW t \in Threads, pc[t] # "idle", NEW answer \in Answers,
           Complete(t, answer)
    PROVE  /\ pc' \in [Threads -> {"idle"} \cup PendingOps]
           /\ arg' \in [Threads -> Paths]
           /\ res' \in [Threads -> Results]
<1>1. pc[t] \in Ops /\ arg[t] \in Paths
  BY DEF TypeOK, PendingOps, Ops
<1>2. QED
  BY <1>1, ReturnType DEF Complete

LEMMA InitTypeOK == Init => TypeOK
<1> SUFFICES ASSUME Init PROVE TypeOK
  OBVIOUS
<1>1. files \in Maps
  BY EntryTypes DEF Init, EmptyMap, Maps
<1>2. res \in [Threads -> Results]
  BY EmptyContent, PathsAssumption
  DEF Init, NoResult, Result, Results, Answer, Answers, Codes, Kinds
<1>3. QED
  BY <1>1, <1>2, EntryTypes, PathsAssumption DEF Init, TypeOK

\* The first section of a call, or the whole of it.
LEMMA BeginTypeOK ==
    ASSUME TypeOK, NEW t \in Threads, NEW p \in Paths, Begin(t, p)
    PROVE  TypeOK'
<1> USE DEF PendingOps, Codes, Ops
<1>1. files \in Maps /\ writer[t] \in Handles(Nat)
  BY DEF TypeOK
<1>2. files[p].content \in Contents
  BY <1>1, EntryFields DEF Maps
<1>3. CASE CreateDirEnsureParent(t, p)
  BY <1>1, <1>3, AnswerTypes, CallAnswerTypes, ProceedType, ReturnType DEF CreateDirEnsureParent, TypeOK
<1>4. CASE CreateFileEnsureParent(t, p)
  BY <1>1, <1>4, AnswerTypes, CallAnswerTypes, ProceedType, ReturnType DEF CreateFileEnsureParent, TypeOK
<1>5. CASE OpenFileTouch(t, p)
  BY <1>1, <1>5, AnswerTypes, CallAnswerTypes, ProceedType, ReturnType DEF OpenFileTouch, TypeOK
<1>6. CASE RemoveDirList(t, p)
  BY <1>1, <1>6, AnswerTypes, CallAnswerTypes, ProceedType, ReturnType DEF RemoveDirList, TypeOK
<1>7. CASE AppendFile(t, p)
  BY <1>1, <1>2, <1>7, AnswerTypes, CallAnswerTypes, ReturnType, EntryTypes DEF AppendFile, TypeOK
<1>8. CASE RemoveFile(t, p)
  BY <1>1, <1>8, AnswerTypes, CallAnswerTypes, ReturnType, MapTypes DEF RemoveFile, TypeOK
<1>9. CASE ReadDir(t, p)
  BY <1>1, <1>9, AnswerTypes, CallAnswerTypes, ReturnType DEF ReadDir, TypeOK
<1>10. CASE Metadata(t, p)
  BY <1>1, <1>10, AnswerTypes, CallAnswerTypes, ReturnType DEF Metadata, TypeOK
<1>11. CASE ExistsCall(t, p)
  BY <1>1, <1>11, AnswerTypes, CallAnswerTypes, ReturnType DEF ExistsCall, TypeOK
<1>12. QED
  BY <1>3, <1>4, <1>5, <1>6, <1>7, <1>8, <1>9, <1>10, <1>11 DEF Begin

\* The second section of a call.
LEMMA FinishTypeOK ==
    ASSUME TypeOK, NEW t \in Threads, Finish(t)
    PROVE  TypeOK'
<1> USE DEF Codes
<1>1. files \in Maps /\ arg[t] \in Paths
  BY DEF TypeOK
<1>2. CASE CreateDirInsert(t)
  <2>1. OccupiedAnswer(arg[t]) \in Answers /\ Answer("Ok") \in Answers
    BY <1>1, AnswerTypes DEF OccupiedAnswer
  <2>2. files' \in Maps
    BY <1>1, <1>2, MapTypes, EntryTypes DEF CreateDirInsert
  <2>3. QED
    BY <1>2, <2>1, <2>2, CompleteType DEF CreateDirInsert, TypeOK
<1>3. CASE CreateFileInsert(t)
  <2>1. files' \in Maps /\ OpenHandle(arg[t], << >>) \in Handles(Nat)
    BY <1>1, <1>3, MapTypes, EntryTypes, EmptyContent DEF CreateFileInsert
  <2>2. Answer("Ok") \in Answers
    BY <1>1, AnswerTypes, CallAnswerTypes
  <2>3. QED
    BY <1>3, <2>1, <2>2, CompleteType DEF CreateFileInsert, TypeOK
<1>4. CASE OpenFileGet(t)
  BY <1>1, <1>4, AnswerTypes, CallAnswerTypes, CompleteType DEF OpenFileGet, TypeOK
<1>5. CASE RemoveDirRemove(t)
  BY <1>1, <1>5, AnswerTypes, CallAnswerTypes, CompleteType, MapTypes DEF RemoveDirRemove, TypeOK
<1>6. QED
  BY <1>2, <1>3, <1>4, <1>5 DEF Finish

\* A step of a write handle.
LEMMA UseHandleTypeOK ==
    ASSUME TypeOK, NEW t \in Threads, UseHandle(t)
    PROVE  TypeOK'
<1>1. /\ files \in Maps /\ writer[t] \in Handles(Nat)
      /\ writer[t].path \in Paths /\ writer[t].buf \in Contents /\ writer[t].pos \in Nat
  BY DEF TypeOK, Handles
<1>2. ASSUME NEW byte \in Bytes, Write(t, byte) PROVE TypeOK'
  <2>1. Overwrite(writer[t].buf, writer[t].pos, byte) \in Contents
    BY <1>1, OverwriteType
  <2>2. writer' \in [Threads -> Handles(Nat)]
    BY <1>1, <1>2, <2>1 DEF Write, TypeOK, Handles
  <2>3. QED
    BY <1>2, <2>2 DEF Write, TypeOK
<1>3. ASSUME NEW position \in 0 .. MaxLen, Seek(t, position) PROVE TypeOK'
  <2>1. position \in Nat
    BY BoundsAssumption
  <2>2. writer' \in [Threads -> Handles(Nat)]
    BY <1>1, <1>3, <2>1 DEF Seek, TypeOK, Handles
  <2>3. QED
    BY <1>3, <2>2 DEF Seek, TypeOK
<1>4. Publish(t) => files' \in Maps
  BY <1>1, MapTypes, EntryTypes DEF Publish
<1>5. CASE Flush(t)
  BY <1>4, <1>5 DEF Flush, TypeOK
<1>6. CASE Drop(t)
  BY <1>4, <1>6, EntryTypes DEF Drop, TypeOK
<1>7. QED
  BY <1>2, <1>3, <1>5, <1>6 DEF UseHandle

\* Every state is well typed, whatever calls the clients issue.
THEOREM TypeCorrect == Spec => []TypeOK
<1>1. Init => TypeOK
  BY InitTypeOK
<1>2. TypeOK /\ [Next]_vars => TypeOK'
  <2>1. CASE Next
    BY <2>1, BeginTypeOK, FinishTypeOK, UseHandleTypeOK DEF Next
  <2>2. CASE UNCHANGED vars
    BY <2>2 DEF vars, TypeOK
  <2>3. QED
    BY <2>1, <2>2
<1>3. QED
  BY <1>1, <1>2, PTL DEF Spec

-----------------------------------------------------------------------------
(* What holds whatever the clients do.                                      *)

\* All a step can do to the map: put a directory where nothing is, put a file
\* anywhere, or remove an entry.
LEMMA MapStep ==
    ASSUME TypeOK, [Next]_vars, files' # files
    PROVE  \E p \in Paths :
             \/ ~Exists(files, p) /\ files' = Insert(files, p, DirectoryEntry)
             \/ \E content \in Contents : files' = Insert(files, p, FileEntry(content))
             \/ files' = Insert(files, p, VacantEntry)
<1>1. Next
  BY DEF vars
<1>2. ASSUME NEW t \in Threads, NEW p \in Paths, Begin(t, p)
      PROVE  files' = Insert(files, p, VacantEntry)
  BY <1>2 DEF Begin, CreateDirEnsureParent, CreateFileEnsureParent, OpenFileTouch,
              RemoveDirList, AppendFile, RemoveFile, ReadDir, Metadata, ExistsCall,
              Remove, Insert
<1>3. ASSUME NEW t \in Threads, Finish(t)
      PROVE  \/ ~Exists(files, arg[t]) /\ files' = Insert(files, arg[t], DirectoryEntry)
             \/ files' = Insert(files, arg[t], FileEntry(<< >>))
             \/ files' = Insert(files, arg[t], VacantEntry)
  BY <1>3 DEF Finish, CreateDirInsert, CreateFileInsert, OpenFileGet,
              RemoveDirRemove, Remove, Insert
<1>4. ASSUME NEW t \in Threads, UseHandle(t)
      PROVE  files' = Insert(files, writer[t].path, FileEntry(writer[t].buf))
  BY <1>4 DEF UseHandle, Write, Seek, Flush, Drop, Publish
<1>5. ASSUME NEW t \in Threads
      PROVE  arg[t] \in Paths /\ writer[t].path \in Paths /\ writer[t].buf \in Contents
  BY DEF TypeOK, Handles
<1>6. QED
  BY <1>1, <1>2, <1>3, <1>4, <1>5, EmptyContent DEF Next

\* No step leaves content in a directory entry: the only content that is ever
\* stored comes with the kind File.
THEOREM DirectoriesEmpty == Spec => []DirectoriesHaveNoContent
<1>1. Init => DirectoriesHaveNoContent
  BY DEF Init, EmptyMap, DirectoryEntry, VacantEntry, IsDirectory,
         DirectoriesHaveNoContent
<1>2. TypeOK /\ DirectoriesHaveNoContent /\ [Next]_vars => DirectoriesHaveNoContent'
  <2> SUFFICES ASSUME TypeOK, DirectoriesHaveNoContent, [Next]_vars
               PROVE  DirectoriesHaveNoContent'
    OBVIOUS
  <2>1. files \in [Paths -> Entries]
    BY DEF TypeOK, Maps
  <2>2. CASE UNCHANGED files
    BY <2>2 DEF DirectoriesHaveNoContent
  <2>3. ASSUME NEW p \in Paths, NEW entry, files' = Insert(files, p, entry),
               entry.kind = "Directory" => entry.content = << >>
        PROVE  DirectoriesHaveNoContent'
    BY <2>1, <2>3 DEF Insert, DirectoriesHaveNoContent, IsDirectory
  <2>4. QED
    BY <2>2, <2>3, MapStep DEF DirectoryEntry, FileEntry, VacantEntry
<1>3. QED
  BY <1>1, <1>2, TypeCorrect, PTL DEF Spec

\* No step turns a file into a directory: create_dir inserts only where its own
\* lock section finds nothing.
THEOREM FilesStay == Spec => FilesNeverBecomeDirectories
<1> DEFINE Stays == \A p \in Paths : IsFile(files, p) => ~IsDirectory(files', p)
<1>1. TypeOK /\ [Next]_vars => Stays
  <2> SUFFICES ASSUME TypeOK, [Next]_vars PROVE Stays
    OBVIOUS
  <2>1. files \in [Paths -> Entries]
    BY DEF TypeOK, Maps
  <2>2. CASE UNCHANGED files
    BY <2>2 DEF IsFile, IsDirectory
  <2>3. ASSUME NEW p \in Paths, NEW entry, files' = Insert(files, p, entry),
               entry.kind # "Directory" \/ ~Exists(files, p)
        PROVE  Stays
    BY <2>1, <2>3 DEF Insert, IsFile, IsDirectory, Exists
  <2>4. QED
    BY <2>2, <2>3, MapStep DEF FileEntry, VacantEntry
<1>2. QED
  BY <1>1, TypeCorrect, PTL DEF Spec, FilesNeverBecomeDirectories

-----------------------------------------------------------------------------
(* The tree, for disciplined clients.                                       *)

\* The clauses of TreeInv about one thread.
ThreadOK(t) == CreatorOK(t) /\ WriterOK(t) /\ RemoverOK(t)

\* A thread that does not move keeps its clauses, if the directories it relies
\* on are kept and the one it is about to remove gains no entry.
LEMMA RestingThread ==
    ASSUME NEW u \in Threads, ThreadOK(u),
           pc'[u] = pc[u], arg'[u] = arg[u], writer'[u] = writer[u],
           pc[u] \in {"create_dir", "create_file"} => IsDirectory(files', Parent(arg[u])),
           writer[u].open => IsDirectory(files', Parent(writer[u].path)),
           pc[u] = "remove_dir" => Children(files', arg[u]) = {}
    PROVE  ThreadOK(u)'
BY DEF ThreadOK, CreatorOK, WriterOK, RemoverOK

\* A creating call of a disciplined thread t puts an entry of the right kind
\* into a directory: the tree stays, and nobody else is removing the directory.
LEMMA CreatingStep ==
    ASSUME Discipline, TypeOK, TreeInv,
           NEW t \in Threads, NEW p \in Paths, NEW op \in CreatingOps, May(t, op, p),
           p # Root, IsDirectory(files, Parent(p)), pc[t] # "remove_dir",
           NEW entry \in Entries, files' = Insert(files, p, entry),
           IF op = "create_dir" THEN entry.kind = "Directory" ELSE entry.kind = "File"
    PROVE  /\ TreeOK' /\ KindsOK'
           /\ \A q \in Paths : IsDirectory(files, q) => IsDirectory(files', q)
           /\ \A u \in Threads : pc[u] = "remove_dir" => Children(files', arg[u]) = {}
<1>1. files \in Maps /\ IsTree(files) /\ KindsOK
  BY DEF TypeOK, TreeInv, TreeOK
<1>2. IF op = "create_dir" THEN p \notin FilePaths ELSE p \in FilePaths
  BY DEF Discipline, TypedPaths, May, CreatingOps
<1>3. entry.kind = "File" => ~IsDirectory(files, p)
  BY <1>1, <1>2 DEF KindsOK
<1>4. /\ IsTree(files')
      /\ \A q \in Paths : IsDirectory(files, q) => IsDirectory(files', q)
      /\ \A q \in Paths : q # Parent(p) => Children(files', q) = Children(files, q)
  BY <1>1, <1>3, InsertKeepsTree
<1>5. KindsOK'
  BY <1>1, <1>2 DEF KindsOK, Insert, Maps, IsFile, IsDirectory
<1>6. ASSUME NEW u \in Threads, pc[u] = "remove_dir" PROVE Children(files', arg[u]) = {}
  <2>1. May(u, "remove_dir", arg[u]) /\ Children(files, arg[u]) = {}
    BY <1>6 DEF TreeInv, RemoverOK
  <2>2. arg[u] # Parent(p)
    BY <2>1, <1>6 DEF Discipline, OwnedRemovals, May
  <2>3. QED
    BY <1>4, <2>1, <2>2 DEF TypeOK
<1>7. QED
  BY <1>4, <1>5, <1>6 DEF TreeOK

\* Removing an entry with nothing below it keeps the tree and the emptiness of
\* directories about to be removed.
LEMMA RemovingStep ==
    ASSUME TypeOK, TreeInv, NEW p \in Paths, p # Root, Children(files, p) = {},
           files' = Remove(files, p)
    PROVE  /\ TreeOK' /\ KindsOK'
           /\ \A q \in Paths : q # p /\ IsDirectory(files, q) => IsDirectory(files', q)
           /\ \A u \in Threads : pc[u] = "remove_dir" => Children(files', arg[u]) = {}
<1>1. files \in Maps /\ IsTree(files) /\ KindsOK
  BY DEF TypeOK, TreeInv, TreeOK
<1>2. /\ IsTree(files')
      /\ \A q \in Paths : q # p /\ IsDirectory(files, q) => IsDirectory(files', q)
      /\ \A q \in Paths : Children(files', q) \subseteq Children(files, q)
  BY <1>1, RemoveKeepsTree
<1>3. KindsOK'
  BY <1>1 DEF KindsOK, Remove, VacantEntry, Maps, IsFile, IsDirectory
<1>4. \A u \in Threads : pc[u] = "remove_dir" => Children(files', arg[u]) = {}
  BY <1>2 DEF TreeInv, RemoverOK, TypeOK
<1>5. QED
  BY <1>2, <1>3, <1>4 DEF TreeOK

\* A file has nothing below it.
LEMMA FilesAreLeaves ==
    ASSUME TypeOK, TreeInv, NEW p \in FilePaths
    PROVE  Children(files, p) = {}
BY FilePathsAssumption DEF TreeInv, TreeOK, IsTree, KindsOK, Children

\* A step that leaves the map alone has to look after its own thread only.
LEMMA QuietStep ==
    ASSUME TreeInv, files' = files, NEW t \in Threads, ThreadOK(t)',
           \A u \in Threads \ {t} :
               pc'[u] = pc[u] /\ arg'[u] = arg[u] /\ writer'[u] = writer[u]
    PROVE  TreeInv'
<1>1. TreeOK' /\ KindsOK'
  BY DEF TreeInv, TreeOK, KindsOK
<1>2. ASSUME NEW u \in Threads \ {t} PROVE ThreadOK(u)'
  BY DEF TreeInv, ThreadOK, CreatorOK, WriterOK, RemoverOK
<1>3. QED
  BY <1>1, <1>2 DEF TreeInv, ThreadOK

\* A step that puts an entry into the map: CreatingStep for the map, RestingThread
\* for the others.
LEMMA LoudStep ==
    ASSUME TypeOK, TreeInv, TreeOK', KindsOK', NEW t \in Threads, ThreadOK(t)',
           \A u \in Threads \ {t} :
               /\ pc'[u] = pc[u] /\ arg'[u] = arg[u] /\ writer'[u] = writer[u]
               /\ pc[u] \in {"create_dir", "create_file"}
                     => IsDirectory(files', Parent(arg[u]))
               /\ writer[u].open => IsDirectory(files', Parent(writer[u].path))
               /\ pc[u] = "remove_dir" => Children(files', arg[u]) = {}
    PROVE  TreeInv'
<1>1. ASSUME NEW u \in Threads \ {t} PROVE ThreadOK(u)'
  <2>1. ThreadOK(u)
    BY DEF TreeInv, ThreadOK
  <2>2. QED
    BY <2>1, RestingThread
<1>2. QED
  BY <1>1 DEF TreeInv, ThreadOK

\* The first section of a call establishes what its second section relies on.
LEMMA BeginTree ==
    ASSUME Discipline, TypeOK, TreeInv, NEW t \in Threads, NEW p \in Paths, Begin(t, p)
    PROVE  TreeInv'
<1>1. ThreadOK(t) /\ TreeOK /\ KindsOK
  BY DEF TreeInv, ThreadOK
<1>2. /\ pc \in [Threads -> {"idle"} \cup PendingOps]
      /\ arg \in [Threads -> Paths] /\ writer \in [Threads -> Handles(Nat)]
  BY DEF TypeOK
<1>3. ASSUME NEW op \in {"create_dir", "create_file"},
             Issue(t, op, p), op = "create_file" => ~writer[t].open,
             HasParent(files, p), Proceed(t, op, p), UNCHANGED <<files, writer>>
      PROVE  TreeInv'
  <2>1. IsDirectory(files, Parent(p)) /\ p # Root
    BY <1>1, <1>3, PathsAssumption, EntryFields
    DEF HasParent, Issue, May, Discipline, TypedPaths, CreatingOps, KindsOK, Exists,
        IsFile, IsDirectory, TypeOK, Maps, Kinds
  <2>2. ThreadOK(t)'
    BY <1>1, <1>2, <1>3, <2>1
    DEF ThreadOK, CreatorOK, WriterOK, RemoverOK, Proceed, Issue
  <2>3. QED
    BY <1>2, <1>3, <2>2, QuietStep DEF Proceed
<1>4. ASSUME NEW op, NEW answer, pc[t] = "idle", Return(t, op, p, answer),
             UNCHANGED <<files, writer>>
      PROVE  TreeInv'
  <2>1. ThreadOK(t)'
    BY <1>1, <1>2, <1>4 DEF ThreadOK, CreatorOK, WriterOK, RemoverOK, Return
  <2>2. QED
    BY <1>2, <1>4, <2>1, QuietStep DEF Return
<1>5. CASE CreateDirEnsureParent(t, p)
  BY <1>3, <1>4, <1>5 DEF CreateDirEnsureParent, Issue
<1>6. CASE CreateFileEnsureParent(t, p)
  BY <1>3, <1>4, <1>6 DEF CreateFileEnsureParent, Issue
<1>7. CASE OpenFileTouch(t, p)
  <2>1. CASE Proceed(t, "open_file", p)
    <3>1. ThreadOK(t)'
      BY <1>1, <1>2, <1>7, <2>1
      DEF ThreadOK, CreatorOK, WriterOK, RemoverOK, OpenFileTouch, Proceed
    <3>2. QED
      BY <1>2, <1>7, <2>1, <3>1, QuietStep DEF OpenFileTouch, Proceed
  <2>2. QED
    BY <1>4, <1>7, <2>1 DEF OpenFileTouch, Issue
<1>8. CASE RemoveDirList(t, p)
  <2>1. CASE Children(files, p) = {} /\ Proceed(t, "remove_dir", p)
    <3>1. ~writer[t].open /\ May(t, "remove_dir", p)
      BY <1>8 DEF RemoveDirList, Issue, May, Discipline, OwnedRemovals
    <3>2. ThreadOK(t)'
      BY <1>1, <1>2, <1>8, <2>1, <3>1
      DEF ThreadOK, CreatorOK, WriterOK, RemoverOK, RemoveDirList, Proceed
    <3>3. QED
      BY <1>2, <1>8, <2>1, <3>2, QuietStep DEF RemoveDirList, Proceed
  <2>2. QED
    BY <1>4, <1>8, <2>1 DEF RemoveDirList, Issue
<1>9. CASE AppendFile(t, p)
  <2>1. CASE Exists(files, p)
    <3>1. IsDirectory(files, Parent(p))
      BY <1>1, <1>9, <2>1, FilePathsAssumption
      DEF AppendFile, Issue, May, Discipline, TypedPaths, TreeOK, IsTree
    <3>2. ThreadOK(t)'
      BY <1>1, <1>2, <1>9, <2>1, <3>1
      DEF ThreadOK, CreatorOK, WriterOK, RemoverOK, AppendFile, Return, Issue,
          OpenHandle
    <3>3. QED
      BY <1>2, <1>9, <2>1, <3>2, QuietStep DEF AppendFile, Return
  <2>2. QED
    BY <1>4, <1>9, <2>1 DEF AppendFile, Issue
<1>10. CASE RemoveFile(t, p)
  <2>1. p \in FilePaths
    BY <1>10 DEF RemoveFile, Issue, May, Discipline, TypedPaths
  <2>2. /\ TreeOK' /\ KindsOK'
        /\ \A q \in Paths : q # p /\ IsDirectory(files, q) => IsDirectory(files', q)
        /\ \A u \in Threads : pc[u] = "remove_dir" => Children(files', arg[u]) = {}
    BY <1>10, <2>1, FilesAreLeaves, RemovingStep, FilePathsAssumption DEF RemoveFile
  <2>3. \A q \in Paths : IsDirectory(files, q) => IsDirectory(files', q)
    BY <1>1, <2>1, <2>2 DEF KindsOK
  <2>4. \A u \in Threads : ThreadOK(u) /\ arg[u] \in Paths /\ writer[u].path \in Paths
    BY <1>2 DEF TreeInv, ThreadOK, Handles
  <2>5. ThreadOK(t)'
    BY <1>2, <1>10, <2>3, <2>4, PathsAssumption
    DEF ThreadOK, CreatorOK, WriterOK, RemoverOK, RemoveFile, Return, Issue
  <2>6. ASSUME NEW u \in Threads \ {t}
        PROVE  /\ pc'[u] = pc[u] /\ arg'[u] = arg[u] /\ writer'[u] = writer[u]
               /\ pc[u] \in {"create_dir", "create_file"}
                     => IsDirectory(files', Parent(arg[u]))
               /\ writer[u].open => IsDirectory(files', Parent(writer[u].path))
               /\ pc[u] = "remove_dir" => Children(files', arg[u]) = {}
    BY <1>2, <1>10, <2>2, <2>3, <2>4, PathsAssumption
    DEF ThreadOK, CreatorOK, WriterOK, RemoveFile, Return
  <2>7. QED
    BY <2>2, <2>5, <2>6, LoudStep
<1>11. CASE ReadDir(t, p)
  BY <1>4, <1>11 DEF ReadDir, Issue
<1>12. CASE Metadata(t, p)
  BY <1>4, <1>12 DEF Metadata, Issue
<1>13. CASE ExistsCall(t, p)
  BY <1>4, <1>13 DEF ExistsCall, Issue
<1>14. QED
  BY <1>5, <1>6, <1>7, <1>8, <1>9, <1>10, <1>11, <1>12, <1>13 DEF Begin

\* The second section finds what the first one has established.
LEMMA FinishTree ==
    ASSUME Discipline, TypeOK, TreeInv, NEW t \in Threads, Finish(t)
    PROVE  TreeInv'
<1>1. /\ pc \in [Threads -> {"idle"} \cup PendingOps]
      /\ arg \in [Threads -> Paths] /\ writer \in [Threads -> Handles(Nat)]
  BY DEF TypeOK
<1>2. \A u \in Threads : ThreadOK(u) /\ arg[u] \in Paths /\ writer[u].path \in Paths
  BY <1>1 DEF TreeInv, ThreadOK, Handles
<1>3. \A u \in Threads \ {t} : pc'[u] = pc[u] /\ arg'[u] = arg[u] /\ writer'[u] = writer[u]
  BY <1>1
  DEF Finish, CreateDirInsert, CreateFileInsert, OpenFileGet, RemoveDirRemove, Complete, Return
<1>4. CASE CreateDirInsert(t)
  <2>1. pc'[t] = "idle" /\ writer' = writer
    BY <1>1, <1>4 DEF CreateDirInsert, Complete, Return
  <2>2. CASE Exists(files, arg[t])
    <3>1. ThreadOK(t)'
      BY <1>2, <1>4, <2>1, <2>2
      DEF ThreadOK, CreatorOK, WriterOK, RemoverOK, CreateDirInsert
    <3>2. QED
      BY <1>3, <1>4, <2>2, <3>1, QuietStep DEF CreateDirInsert
  <2>3. CASE ~Exists(files, arg[t])
    <3>1. /\ May(t, "create_dir", arg[t]) /\ arg[t] # Root
          /\ IsDirectory(files, Parent(arg[t])) /\ pc[t] = "create_dir"
      BY <1>2, <1>4 DEF ThreadOK, CreatorOK, CreateDirInsert
    <3>2. /\ TreeOK' /\ KindsOK'
          /\ \A q \in Paths : IsDirectory(files, q) => IsDirectory(files', q)
          /\ \A u \in Threads : pc[u] = "remove_dir" => Children(files', arg[u]) = {}
      BY <1>2, <1>4, <2>3, <3>1, EntryTypes, CreatingStep
      DEF CreateDirInsert, CreatingOps, DirectoryEntry
    <3>3. ThreadOK(t)'
      BY <1>2, <2>1, <3>2, PathsAssumption DEF ThreadOK, CreatorOK, WriterOK, RemoverOK
    <3>4. QED
      BY <1>2, <1>3, <3>2, <3>3, PathsAssumption, LoudStep DEF ThreadOK, CreatorOK, WriterOK
  <2>4. QED
    BY <2>2, <2>3
<1>5. CASE CreateFileInsert(t)
  <2>1. /\ May(t, "create_file", arg[t]) /\ arg[t] # Root
        /\ IsDirectory(files, Parent(arg[t])) /\ pc[t] = "create_file"
    BY <1>2, <1>5 DEF ThreadOK, CreatorOK, CreateFileInsert
  <2>2. FileEntry(<< >>) \in Entries
    BY EntryTypes, EmptyContent
  <2>3. /\ TreeOK' /\ KindsOK'
        /\ \A q \in Paths : IsDirectory(files, q) => IsDirectory(files', q)
        /\ \A u \in Threads : pc[u] = "remove_dir" => Children(files', arg[u]) = {}
    BY <1>2, <1>5, <2>1, <2>2, CreatingStep DEF CreateFileInsert, CreatingOps, FileEntry
  <2>4. pc'[t] = "idle" /\ writer'[t] = OpenHandle(arg[t], << >>)
    BY <1>1, <1>5 DEF CreateFileInsert, Complete, Return
  <2>5. ThreadOK(t)'
    BY <1>2, <2>1, <2>3, <2>4, PathsAssumption
    DEF ThreadOK, CreatorOK, WriterOK, RemoverOK, OpenHandle
  <2>6. QED
    BY <1>2, <1>3, <2>3, <2>5, PathsAssumption, LoudStep DEF ThreadOK, CreatorOK, WriterOK
<1>6. CASE OpenFileGet(t)
  <2>1. ThreadOK(t)'
    BY <1>1, <1>2, <1>6
    DEF ThreadOK, CreatorOK, WriterOK, RemoverOK, OpenFileGet, Complete, Return
  <2>2. QED
    BY <1>3, <1>6, <2>1, QuietStep DEF OpenFileGet
<1>7. CASE RemoveDirRemove(t)
  <2>1. /\ May(t, "remove_dir", arg[t]) /\ Children(files, arg[t]) = {} /\ ~writer[t].open
        /\ files' = Remove(files, arg[t]) /\ pc'[t] = "idle" /\ writer' = writer
        /\ pc[t] = "remove_dir"
    BY <1>1, <1>2, <1>7 DEF ThreadOK, RemoverOK, RemoveDirRemove, Complete, Return
  <2>2. arg[t] # Root
    BY <2>1 DEF Discipline, OwnedRemovals, May
  <2>3. /\ TreeOK' /\ KindsOK'
        /\ \A q \in Paths : q # arg[t] /\ IsDirectory(files, q) => IsDirectory(files', q)
        /\ \A u \in Threads : pc[u] = "remove_dir" => Children(files', arg[u]) = {}
    BY <1>2, <2>1, <2>2, RemovingStep
  <2>4. ThreadOK(t)'
    BY <2>1 DEF ThreadOK, CreatorOK, WriterOK, RemoverOK
  <2>5. ASSUME NEW u \in Threads \ {t}, NEW q \in Paths, NEW op \in CreatingOps,
               May(u, op, q)
        PROVE  Parent(q) # arg[t]
    BY <2>1, <2>5 DEF Discipline, OwnedRemovals, May
  <2>6. ASSUME NEW u \in Threads \ {t}
        PROVE  /\ pc[u] \in {"create_dir", "create_file"} => Parent(arg[u]) # arg[t]
               /\ writer[u].open => Parent(writer[u].path) # arg[t]
    BY <1>2, <2>5 DEF ThreadOK, CreatorOK, WriterOK, CreatingOps
  <2>7. QED
    BY <1>2, <1>3, <2>3, <2>4, <2>6, PathsAssumption, LoudStep
    DEF ThreadOK, CreatorOK, WriterOK
<1>8. QED
  BY <1>4, <1>5, <1>6, <1>7 DEF Finish

\* A handle publishes into a directory that its clients have kept.
LEMMA UseHandleTree ==
    ASSUME Discipline, TypeOK, TreeInv, NEW t \in Threads, UseHandle(t)
    PROVE  TreeInv'
<1>1. /\ pc \in [Threads -> {"idle"} \cup PendingOps]
      /\ arg \in [Threads -> Paths] /\ writer \in [Threads -> Handles(Nat)]
  BY DEF TypeOK
<1>2. \A u \in Threads : ThreadOK(u) /\ arg[u] \in Paths /\ writer[u].path \in Paths
  BY <1>1 DEF TreeInv, ThreadOK, Handles
<1>3. ASSUME files' = files, pc' = pc, arg' = arg, writer'[t].path = writer[t].path,
             writer[t].open, pc[t] = "idle",
             \A u \in Threads \ {t} : writer'[u] = writer[u]
      PROVE  TreeInv'
  <2>1. ThreadOK(t)'
    BY <1>2, <1>3 DEF ThreadOK, CreatorOK, WriterOK, RemoverOK
  <2>2. QED
    BY <1>3, <2>1, QuietStep
<1>4. ASSUME NEW byte \in Bytes, Write(t, byte) PROVE TreeInv'
  <2>1. writer'[t].path = writer[t].path
    BY <1>1, <1>4 DEF Write, Handles
  <2>2. QED
    BY <1>1, <1>3, <1>4, <2>1 DEF Write, Holds
<1>5. ASSUME NEW position \in 0 .. MaxLen, Seek(t, position) PROVE TreeInv'
  <2>1. writer'[t].path = writer[t].path
    BY <1>1, <1>5 DEF Seek, Handles
  <2>2. QED
    BY <1>1, <1>3, <1>5, <2>1 DEF Seek, Holds
<1>6. ASSUME Holds(t), Publish(t), pc' = pc, arg' = arg,
             writer' = writer \/ writer' = [writer EXCEPT ![t] = ClosedHandle]
      PROVE  TreeInv'
  <2>1. PICK op \in {"create_file", "append_file"} : May(t, op, writer[t].path)
    BY <1>2, <1>6 DEF ThreadOK, WriterOK, Holds
  <2>2. /\ IsDirectory(files, Parent(writer[t].path)) /\ pc[t] # "remove_dir"
        /\ writer[t].buf \in Contents
    BY <1>1, <1>2, <1>6 DEF ThreadOK, WriterOK, Holds, Handles
  <2>3. writer[t].path # Root
    BY <2>1, FilePathsAssumption DEF Discipline, TypedPaths, May
  <2>4. FileEntry(writer[t].buf) \in Entries
    BY <2>2, EntryTypes
  <2>5. /\ TreeOK' /\ KindsOK'
        /\ \A q \in Paths : IsDirectory(files, q) => IsDirectory(files', q)
        /\ \A u \in Threads : pc[u] = "remove_dir" => Children(files', arg[u]) = {}
    BY <1>2, <1>6, <2>1, <2>2, <2>3, <2>4, CreatingStep DEF Publish, CreatingOps, FileEntry
  <2>6. writer'[t] = writer[t] \/ ~writer'[t].open
    BY <1>1, <1>6 DEF ClosedHandle
  <2>7. ThreadOK(t)'
    BY <1>2, <1>6, <2>2, <2>5, <2>6, PathsAssumption
    DEF ThreadOK, CreatorOK, WriterOK, RemoverOK, Holds
  <2>8. \A u \in Threads \ {t} : writer'[u] = writer[u]
    BY <1>1, <1>6
  <2>9. QED
    BY <1>2, <1>6, <2>5, <2>7, <2>8, PathsAssumption, LoudStep
    DEF ThreadOK, CreatorOK, WriterOK
<1>7. CASE Flush(t)
  BY <1>6, <1>7 DEF Flush
<1>8. CASE Drop(t)
  BY <1>6, <1>8 DEF Drop
<1>9. QED
  BY <1>4, <1>5, <1>7, <1>8 DEF UseHandle

LEMMA InitTree == Init => TreeInv
<1> SUFFICES ASSUME Init PROVE TreeInv
  OBVIOUS
<1>1. \A p \in Paths : files[p] = IF p = Root THEN DirectoryEntry ELSE VacantEntry
  BY DEF Init, EmptyMap
<1>2. TreeOK /\ KindsOK
  BY <1>1, PathsAssumption, FilePathsAssumption
  DEF TreeOK, IsTree, KindsOK, IsFile, IsDirectory, Exists, DirectoryEntry, VacantEntry
<1>3. \A t \in Threads : CreatorOK(t) /\ WriterOK(t) /\ RemoverOK(t)
  BY DEF Init, ClosedHandle, CreatorOK, WriterOK, RemoverOK
<1>4. QED
  BY <1>2, <1>3 DEF TreeInv

LEMMA NextTree ==
    ASSUME Discipline, TypeOK, TreeInv, [Next]_vars
    PROVE  TreeInv'
<1>1. CASE Next
  BY <1>1, BeginTree, FinishTree, UseHandleTree DEF Next
<1>2. CASE UNCHANGED vars
  BY <1>2 DEF vars, TreeInv, TreeOK, KindsOK, CreatorOK, WriterOK, RemoverOK
<1>3. QED
  BY <1>1, <1>2

\* Disciplined clients always see a tree: no interleaving of the two lock
\* sections of create_dir, create_file and remove_dir, and no late flush,
\* leaves an entry without its directory.
THEOREM TreeSafe == Discipline => (Spec => []TreeInv)
<1>1. Discipline /\ TypeOK /\ TreeInv /\ [Next]_vars => TreeInv'
  BY NextTree
<1>2. SUFFICES ASSUME Discipline PROVE Spec => []TreeInv
  OBVIOUS
<1>3. Init => TreeInv
  BY InitTree
<1>4. TypeOK /\ TreeInv /\ [Next]_vars => TreeInv'
  BY <1>1, <1>2
<1>5. QED
  BY <1>3, <1>4, TypeCorrect, PTL DEF Spec

-----------------------------------------------------------------------------
(* MemoryFS implements AtomicFS for disciplined clients.                   *)

\* A path a disciplined client uses for files never holds a directory, one it
\* uses for directories never a file.
LEMMA KindByUse ==
    ASSUME Discipline, TypeOK, TreeInv, NEW t \in Threads, NEW p \in Paths, NEW op \in Ops,
           May(t, op, p)
    PROVE  /\ op \in {"create_file", "append_file", "remove_file"}
                => p \in FilePaths /\ p # Root /\ ~IsDirectory(files, p)
           /\ op \in {"create_dir", "remove_dir"} => ~IsFile(files, p)
BY FilePathsAssumption
DEF Discipline, TypedPaths, May, TreeInv, KindsOK

\* Every entry is vacant, a file or a directory, and removing a vacant one
\* changes nothing.
LEMMA ThreeKinds ==
    ASSUME TypeOK, NEW p \in Paths
    PROVE  /\ Exists(files, p) <=> IsFile(files, p) \/ IsDirectory(files, p)
           /\ ~(IsFile(files, p) /\ IsDirectory(files, p))
           /\ ~Exists(files, p) => Remove(files, p) = files
BY EntryFields DEF TypeOK, Maps, Kinds, Exists, IsFile, IsDirectory, Remove

\* AtomicFS has its own copies of the operators of FsTree; they are the same.
LEMMA SameTree ==
    /\ \A p \in Paths : Atomic!Parent(p) = Parent(p)
    /\ Atomic!Root = Root
    /\ \A f \in Maps, p \in Paths :
         /\ Atomic!Exists(f, p) <=> Exists(f, p)
         /\ Atomic!IsFile(f, p) <=> IsFile(f, p)
         /\ Atomic!IsDirectory(f, p) <=> IsDirectory(f, p)
         /\ Atomic!Children(f, p) = Children(f, p)
         /\ Atomic!Remove(f, p) = Remove(f, p)
         /\ \A entry : Atomic!Insert(f, p, entry) = Insert(f, p, entry)
<1>1. Atomic!Root = Root /\ \A p : Atomic!Parent(p) = Parent(p)
  BY DEF Atomic!Root, Atomic!Parent, Root, Parent
<1>2. ASSUME NEW f \in Maps, NEW p \in Paths
      PROVE  /\ Atomic!Exists(f, p) <=> Exists(f, p)
             /\ Atomic!IsFile(f, p) <=> IsFile(f, p)
             /\ Atomic!IsDirectory(f, p) <=> IsDirectory(f, p)
  BY DEF Atomic!Exists, Atomic!IsFile, Atomic!IsDirectory, Exists, IsFile, IsDirectory
<1>3. ASSUME NEW f \in Maps, NEW p \in Paths
      PROVE  Atomic!Children(f, p) = Children(f, p)
  BY <1>1, <1>2 DEF Atomic!Children, Children
<1>4. ASSUME NEW f \in Maps, NEW p \in Paths
      PROVE  /\ Atomic!Remove(f, p) = Remove(f, p)
             /\ \A entry : Atomic!Insert(f, p, entry) = Insert(f, p, entry)
  BY DEF Atomic!Insert, Insert, Atomic!Remove, Remove, Atomic!VacantEntry, VacantEntry
<1>5. QED
  BY <1>1, <1>2, <1>3, <1>4

LEMMA SameData ==
    /\ Atomic!DirectoryEntry = DirectoryEntry
    /\ \A content : Atomic!FileEntry(content) = FileEntry(content)
    /\ Atomic!ClosedHandle = ClosedHandle
    /\ \A p, content : Atomic!OpenHandle(p, content) = OpenHandle(p, content)
    /\ \A buf, pos, byte : Atomic!Overwrite(buf, pos, byte) = Overwrite(buf, pos, byte)
    /\ \A code : Atomic!Answer(code) = Answer(code)
    /\ \A op, p, answer : Atomic!Result(op, p, answer) = Result(op, p, answer)
<1>1. /\ Atomic!DirectoryEntry = DirectoryEntry
      /\ \A content : Atomic!FileEntry(content) = FileEntry(content)
      /\ Atomic!ClosedHandle = ClosedHandle
      /\ \A p, content : Atomic!OpenHandle(p, content) = OpenHandle(p, content)
  BY DEF Atomic!DirectoryEntry, DirectoryEntry, Atomic!FileEntry, FileEntry,
         Atomic!ClosedHandle, ClosedHandle, Atomic!OpenHandle, OpenHandle, Atomic!Root, Root
<1>2. \A buf, pos, byte : Atomic!Overwrite(buf, pos, byte) = Overwrite(buf, pos, byte)
  BY DEF Atomic!Overwrite, Overwrite
<1>3. \A code : Atomic!Answer(code) = Answer(code)
  BY DEF Atomic!Answer, Answer
<1>4. \A op, p, answer : Atomic!Result(op, p, answer) = Result(op, p, answer)
  BY DEF Atomic!Result, Result
<1>5. QED
  BY <1>1, <1>2, <1>3, <1>4

LEMMA SameAnswers ==
    ASSUME NEW f \in Maps, NEW p \in Paths
    PROVE  /\ Atomic!ReadDirAnswer(f, p) = ReadDirAnswer(f, p)
           /\ Atomic!MetadataAnswer(f, p) = MetadataAnswer(f, p)
           /\ Atomic!ExistsAnswer(f, p) = ExistsAnswer(f, p)
BY SameTree, SameData
DEF Atomic!ReadDirAnswer, ReadDirAnswer, Atomic!MetadataAnswer, MetadataAnswer,
    Atomic!ExistsAnswer, ExistsAnswer

\* The first section of a call, or the whole of it, is a call of AtomicFS or
\* shows nothing.
LEMMA BeginAtomic ==
    ASSUME Discipline, TypeOK, TreeInv, NEW t \in Threads, NEW p \in Paths, Begin(t, p)
    PROVE  Atomic!Call(t, p) \/ UNCHANGED <<files, writer, res>>
<1> USE SameTree, SameData DEF Issue, Return, Atomic!Tell, Atomic!Refuse
<1>1. files \in Maps /\ Parent(p) \in Paths
  BY PathsAssumption DEF TypeOK
<1>2. ~HasParent(files, p) => ~Atomic!HasRoom(p)
  BY <1>1 DEF HasParent, Atomic!HasRoom, Exists, IsDirectory
<1>3. CASE CreateDirEnsureParent(t, p)
  BY <1>2, <1>3 DEF CreateDirEnsureParent, Proceed, Atomic!Call, Atomic!CreateDir
<1>4. CASE CreateFileEnsureParent(t, p)
  BY <1>2, <1>4 DEF CreateFileEnsureParent, Proceed, Atomic!Call, Atomic!CreateFile
<1>5. CASE OpenFileTouch(t, p)
  BY <1>1, <1>5 DEF OpenFileTouch, Proceed, Atomic!Call, Atomic!OpenFile
<1>6. CASE RemoveDirList(t, p)
  BY <1>1, <1>6 DEF RemoveDirList, Proceed, Atomic!Call, Atomic!RemoveDir
<1>7. CASE AppendFile(t, p)
  <2>1. Exists(files, p) => IsFile(files, p)
    BY <1>7, KindByUse, ThreeKinds DEF AppendFile, Ops
  <2>2. QED
    BY <1>1, <1>7, <2>1 DEF AppendFile, Atomic!Call, Atomic!AppendFile
<1>8. CASE RemoveFile(t, p)
  <2>1. Exists(files, p) => IsFile(files, p)
    BY <1>8, KindByUse, ThreeKinds DEF RemoveFile, Ops
  <2>2. QED
    BY <1>1, <1>8, <2>1, ThreeKinds
    DEF RemoveFile, RemoveAnswer, Atomic!Call, Atomic!RemoveFile
<1>9. CASE ReadDir(t, p)
  BY <1>1, <1>9, SameAnswers DEF ReadDir, Atomic!Call, Atomic!Look
<1>10. CASE Metadata(t, p)
  BY <1>1, <1>10, SameAnswers DEF Metadata, Atomic!Call, Atomic!Look
<1>11. CASE ExistsCall(t, p)
  BY <1>1, <1>11, SameAnswers DEF ExistsCall, Atomic!Call, Atomic!Look
<1>12. QED
  BY <1>3, <1>4, <1>5, <1>6, <1>7, <1>8, <1>9, <1>10, <1>11 DEF Begin

\* The second section of a call is that call of AtomicFS.
LEMMA FinishAtomic ==
    ASSUME Discipline, TypeOK, TreeInv, NEW t \in Threads, Finish(t)
    PROVE  \E p \in Paths : Atomic!Call(t, p)
<1> DEFINE p == arg[t]
<1> USE SameTree, SameData DEF Complete, Return, Atomic!Tell, Atomic!Refuse
<1> SUFFICES Atomic!Call(t, p)
  BY DEF TypeOK
<1>1. files \in Maps /\ p \in Paths /\ Parent(p) \in Paths
  BY PathsAssumption DEF TypeOK
<1>2. CASE CreateDirInsert(t)
  <2>1. Atomic!HasRoom(p)
    BY <1>1, <1>2 DEF CreateDirInsert, TreeInv, CreatorOK, Atomic!HasRoom
  <2>2. QED
    BY <1>1, <1>2, <2>1, ThreeKinds
    DEF CreateDirInsert, OccupiedAnswer, Atomic!Call, Atomic!CreateDir
<1>3. CASE CreateFileInsert(t)
  <2>1. Atomic!HasRoom(p) /\ May(t, "create_file", p) /\ ~writer[t].open
    BY <1>1, <1>3 DEF CreateFileInsert, TreeInv, CreatorOK, Atomic!HasRoom
  <2>2. ~IsDirectory(files, p)
    BY <1>1, <2>1, KindByUse DEF Ops
  <2>3. QED
    BY <1>1, <1>3, <2>1, <2>2 DEF CreateFileInsert, Atomic!Call, Atomic!CreateFile
<1>4. CASE OpenFileGet(t)
  BY <1>1, <1>4, ThreeKinds DEF OpenFileGet, OpenAnswer, Atomic!Call, Atomic!OpenFile
<1>5. CASE RemoveDirRemove(t)
  <2>1. May(t, "remove_dir", p) /\ Children(files, p) = {}
    BY <1>5 DEF RemoveDirRemove, TreeInv, RemoverOK
  <2>2. p # Root /\ ~IsFile(files, p)
    BY <1>1, <2>1, KindByUse DEF Ops, Discipline, OwnedRemovals, May
  <2>3. QED
    BY <1>1, <1>5, <2>1, <2>2, ThreeKinds
    DEF RemoveDirRemove, RemoveAnswer, Atomic!Call, Atomic!RemoveDir
<1>6. QED
  BY <1>2, <1>3, <1>4, <1>5 DEF Finish

\* A step of a handle is a step of AtomicFS's handle.
LEMMA UseHandleAtomic ==
    ASSUME Discipline, TypeOK, TreeInv, NEW t \in Threads, UseHandle(t)
    PROVE  Atomic!EditHandle(t) \/ Atomic!MoveHandle(t) \/ Atomic!PublishHandle(t)
<1> USE SameTree, SameData
<1>1. /\ files \in Maps /\ writer \in [Threads -> Handles(Nat)]
      /\ writer[t].path \in Paths /\ Parent(writer[t].path) \in Paths
  BY PathsAssumption DEF TypeOK, Handles
<1>2. ASSUME NEW byte \in Bytes, Write(t, byte) PROVE Atomic!EditHandle(t)
  BY <1>2 DEF Write, Holds, Atomic!EditHandle
<1>3. ASSUME NEW position \in 0 .. MaxLen, Seek(t, position) PROVE Atomic!MoveHandle(t)
  <2>1. writer' = [writer EXCEPT ![t].pos = position] /\ writer'[t].pos = position
    BY <1>1, <1>3 DEF Seek, Handles
  <2>2. position \in Nat
    BY BoundsAssumption
  <2>3. QED
    BY <1>3, <2>1, <2>2 DEF Seek, Holds, Atomic!MoveHandle
<1>4. writer[t].open =>
        Atomic!HasRoom(writer[t].path) /\ ~IsDirectory(files, writer[t].path)
  BY <1>1, KindByUse DEF TreeInv, WriterOK, Atomic!HasRoom, Ops
<1>5. CASE Flush(t)
  BY <1>1, <1>4, <1>5 DEF Flush, Holds, Publish, Atomic!PublishHandle
<1>6. CASE Drop(t)
  BY <1>1, <1>4, <1>6 DEF Drop, Holds, Publish, Atomic!PublishHandle
<1>7. QED
  BY <1>2, <1>3, <1>5, <1>6 DEF UseHandle

\* To disciplined clients every call looks atomic, although create_dir,
\* create_file, open_file and remove_dir give up the lock in the middle.
THEOREM MemoryIsAtomic == Discipline => (Spec => AtomicSpec)
<1> SUFFICES ASSUME Discipline PROVE Spec => AtomicSpec
  OBVIOUS
<1>1. Init => Atomic!Init
  <2> SUFFICES ASSUME Init PROVE Atomic!Init
    OBVIOUS
  <2>1. files \in Maps /\ IsTree(files)
    BY InitTypeOK, InitTree DEF TypeOK, TreeInv, TreeOK
  <2>2. Atomic!IsTree(files)
    BY <2>1, SameTree, PathsAssumption DEF IsTree, Atomic!IsTree
  <2>3. QED
    BY <2>2, SameData DEF Init, NoResult, Atomic!NoResult, Atomic!Root, Root, Atomic!Init
<1>2. TypeOK /\ TreeInv /\ [Next]_vars => [Atomic!Next]_(Atomic!vars)
  <2> SUFFICES ASSUME TypeOK, TreeInv, [Next]_vars PROVE [Atomic!Next]_(Atomic!vars)
    OBVIOUS
  <2>1. CASE UNCHANGED vars
    BY <2>1 DEF vars, Atomic!vars
  <2>2. CASE Next
    BY <2>2, BeginAtomic, FinishAtomic, UseHandleAtomic DEF Next, Atomic!Next, Atomic!vars
  <2>3. QED
    BY <2>1, <2>2
<1>3. QED
  BY <1>1, <1>2, TypeCorrect, TreeSafe, PTL DEF Atomic!Spec, AtomicSpec, Spec

=============================================================================
