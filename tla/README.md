# A verification development for rust-vfs

TLA+ models of the virtual file systems in this repository (`src/`), checked with TLC on
small instances, and theorems about them for all sizes, checked with TLAPS. Paths below
are relative to the crate's `src/` directory unless they start with another one.

## 1. Inventory

| Component | Where | State it keeps | Operations | Modelled by |
|---|---|---|---|---|
| MemoryFS | `impls/memory.rs` | `HashMap<String, MemoryFile>` behind `Arc<RwLock>`; per write handle a buffer, a cursor and a destination; per read handle a snapshot and a position | the `FileSystem` trait, `Write`/`Seek`/`flush`/`drop` of handles | `MemoryFS`, `ReadHandle` |
| VfsPath | `path.rs` 190-1069 | none (a path and an `Arc` of a file system); `WalkDirIterator`: the rest of a listing and a stack of directories | one trait call, or several: `create_dir_all`, `remove_dir_all`, `copy_*`, `move_*`, `walk_dir` | `VfsPath` (on MemoryFS), `PhysicalClients` (on the disk), `ReadOnlyClient` (from an EmbeddedFS), `FsCalls` |
| Path algebra | `path.rs` 24-93 | none | `join`, `parent`, `filename`, `extension` | `PathAlgebra` |
| OverlayFS | `impls/overlay.rs` | none of its own: the layers, and `.whiteout` marks in the first one | the trait, each method several `VfsPath` calls on layers | `OverlayFS` |
| AltrootFS | `impls/altroot.rs` | none | forwards to a sub-directory | `AltrootFS` |
| EmbeddedFS | `impls/embedded.rs` | two maps built once by `new`; the files of `T::get` | read-only | `EmbeddedFS` |
| PhysicalFS | `impls/physical.rs` | none: the disk | one `std::fs` call each, or a few | `PhysicalFS` on `Disk` |
| FileSystem trait, errors | `filesystem.rs`, `error.rs` | none | the contract; the kinds of errors | `AtomicFS`, `FsTree` |
| AsyncMemoryFS | `async_vfs/impls/memory.rs` | as MemoryFS, behind an async lock | as MemoryFS; publication only when a handle is dropped | `AsyncMemoryFS`, `ReadHandle` |
| AsyncVfsPath | `async_vfs/path.rs` | none; `WalkDirIterator`: listing, stack, futures it is waiting for | as VfsPath, with `await`s | `AsyncVfsPath` |
| AsyncOverlayFS | `async_vfs/impls/overlay.rs` | as OverlayFS | as OverlayFS, with `await`s | `AsyncOverlayFS` |
| AsyncAltrootFS, AsyncPhysicalFS | `async_vfs/impls/` | none | forward; hand a call to a thread pool | `PhysicalClients` |

How they interact: clients hold `VfsPath`s, whose methods call the trait of one file system;
OverlayFS and AltrootFS call `VfsPath`s of other file systems in turn; handles outlive the
calls that made them and act on the MemoryFS map later, when they are flushed or dropped.
MemoryFS's lock is the only synchronisation in the crate.

What is hard:

* **Interleaving.** `create_dir`, `create_file`, `open_file` and `remove_dir` of MemoryFS take the
  lock twice; compound `VfsPath` methods make up to dozens of calls, overlay methods several
  on different layers, and nothing protects the sequence.
* **Stale state.** What was looked up (a parent, an empty directory, a listing, a mark, an absent
  destination) may have changed when it is used.
* **Late effects.** A handle publishes its whole buffer at its path whenever it is dropped; a call
  that AsyncPhysicalFS has given to the pool happens though nobody awaits it any more.
* **Cancellation.** The future of an async call may be dropped at any `await` that is pending,
  and a walk must survive being polled again.
* **Partial failure and death.** `move_file` removes the source before the destination is
  published; the overlay changes an entry and its mark by separate calls; a move across devices
  is a copy and a removal, and the process may die between them.
* **Termination.** Walks and recursive removals run while others create and remove.
* **Integers.** Positions are `u64`, offsets `i64`, and the code converts by `as`.

What makes each part correct: MemoryFS's map is a tree and its calls look atomic; a flush
shows what was written and a reader delivers one content in order; compound methods succeed in
parallel when documented so, copy faithfully, lose nothing and return; the overlay looks like one
plain file system, marks hide what was removed and nothing else; an altroot is never left; the
index of an EmbeddedFS is the tree of its files. `PROJECT.json` lists the hazards by line and
which property covers each; those without one say why.

## 2. The modules

Shared:

* **`FsTree`** – the file map as a total function from paths to entries (a path the `HashMap` lacks
  is `Vacant`), the answers of calls, and write handles. A path is the sequence of its
  components: every path that reaches a file system has been normalised by `join`
  (`path.rs` 48-92, and `PathAlgebra`). Nothing here is recursive.
* **`FsCalls`** – the `VfsPath` calls on one layer as functions from a map to the map they leave and
  their code, failures keeping what was done before (`Then` is the `?`).

MemoryFS and the methods on it:

* **`AtomicFS`** – the abstract specification: a tree on which each call is one step with the
  answer MemoryFS gives, plus write handles whose publications are steps. Where no promise is made
  (`create_file` over a directory, say) it has no step.
* **`MemoryFS`** – one action per *lock section* of `impls/memory.rs`. A two-section method is
  two actions; `pc[t]`/`arg[t]` say which call thread `t` is in the middle of. `files` is
  `MemoryFsImpl.files`, `writer[t]` the thread's `WritableFile`, `res[t]` its last call and answer.
  `Calls` says which thread may issue which call, so that one module serves the run without
  any discipline and the one with.
* **`VfsPath`** – EXTENDS `MemoryFS`; threads run the compound methods of `path.rs`. `job[t].agenda` is
  what is left of the present call: `StepsOf` gives the steps a method begins with, each `Step`
  action is one call on the MemoryFS (its own lock sections included), after which the step is
  struck off, replaced by others (a listing by the removal or copy of its entries), or fails the
  method, which drops a handle that is still open. Each MemoryFS action is used as it stands.
  The fallbacks of `copy_file`, `move_file` and `move_dir` are modelled, which is what runs on
  MemoryFS, where the trait's own versions answer `NotSupported`.
* **`AsyncMemoryFS`, `AsyncVfsPath`** – the same for the async port. A step is the code between two
  awaits that can be pending, that is, one lock section; `Impatient` tasks may drop a call
  wherever it is pending (`Suspended`), upon which the only thing left to happen is the drop
  of its write handle. The walk is the poll machine of `WalkDirIterator` with its three
  kinds of futures.

The overlay:

* **`OverlayLayers`** – `layers`, the marks (`Mark(p)` is `whiteout_path`) and `View`, the map the overlay
  shows. Names are atoms with a function `Wo` that appends `_wo`, so a user's name may be one
  (run `overlay_names`).
* **`OverlayFS`** – one action per method, one client. The refinement mapping to `AtomicFS` is
  `files <- View`.
* **`AsyncOverlayFS`** – a step is one call on one layer; several tasks, any of whose calls may be
  dropped in between. `OverlayFS` makes the same calls in the same order, so what holds here
  of undropped calls holds of its threads too.

The disk:

* **`Disk`** – external: what a system call does to directories, files, open files and a second
  device.
* **`PhysicalFS`** – which system call a method makes, at which path, and what it makes of the errors.
* **`AltrootFS`** – a method of `VfsPath` on an altroot, on its PhysicalFS, or from one to the other,
  as the list of system calls it comes to.
* **`PhysicalClients`** – threads and async tasks that make these calls; the call a dropped future has
  left in the pool (`Straggler`), and the death of the process.

Reading:

* **`PathAlgebra`** – `join_internal` as the loop over components it is, and `Resolved`, the reference
  that treats the two texts as one.
* **`EmbeddedFS`** – the index `new` builds, and the answers from it and from `T::get`.
* **`ReadHandle`** – the three readers, their positions and offsets as integers of `2 * Half` values,
  `as` being `%`; reads that panic.
* **`ReadOnlyClient`** – a client who moves through an EmbeddedFS by paths, reads from it and from
  memory file systems others write to, and copies, step by step.

**`MemoryFSProofs`, `VfsPathProofs`, `AsyncPathProofs`, `OverlayProofs`, `PhysicalProofs`,
`ReadHandleProofs`, `ReadOnlyClientProofs`** – the theorems, each about the module it EXTENDS;
**`FsTreeProofs`** – the lemmas about maps and paths that they share.
**`MC…`** – instances for TLC. Definitions marked *Fault* are plausible mistakes in the definition
that follows them; each property has one that breaks it, so no property holds by construction.

## 3. The runs

| Run | Instance | What it shows |
|---|---|---|
| `memory_tree` | 2 threads; `/a`, `/a/f`, `/g`; 1-byte buffers | under the discipline (§4) `TreeInv`; every call is one step of `AtomicFS` |
| `memory_any` | 2 threads, no discipline; `/`, `/a`, `/a/b`; 2-byte buffers | directories never have content; `create_dir` never replaces a file; every flush shows all writes, seeks and gaps included |
| `memory_race` | 2 threads; `/d`, `/d/s` | **violation**: `remove_dir` removes a directory that has just gained an entry, against `path.rs:444` |
| `vfs_path` | 3 threads, ten mixes of compound calls, three initial trees, two levels of directories | parallel `create_dir_all` succeeds; `copy_dir`/`move_dir` are faithful; `remove_dir_all` leaves nothing; a moved file is somewhere at every moment (`VfsInv`); every call returns |
| `vfs_race` | two `remove_dir_all` of one directory | **violation**: one fails with `FileNotFound` although the directory is gone, against `path.rs:468` |
| `async_path` | 2 tasks, 17 mixes of calls, two initial trees; either task's calls may be dropped wherever they are pending | no moved file is lost and no half of a file left behind, also by a dropped call; removals leave a tree; copies and walks are complete though pending anywhere; undisturbed calls answer the truth; every call ends |
| `overlay` | 3 layers, `/d`, `/d/x`, `/g`; three stacks | `AtomicFS` through `View`; marks hide lower layers only; every layer stays a tree |
| `overlay_dir` | 2 layers | **violation**: `remove_dir` succeeds on a directory whose entries are in the lower layer, against `path.rs:444` and the test `remove_dir_notempty` |
| `overlay_names` | 2 layers, a directory named `a_wo` | **violation**: removing `/a_wo/b` makes `/a` vanish, against `impls/overlay.rs:13` |
| `overlay_async` | 2 tasks, 19 mixes of calls on two layers: three first layers (empty, shadowing, marking) above a full one, two above an empty one | a call shows at its own path only, but for directories it makes above that path (§5); alone on it, it does what it promises, and dropped it leaves no mixture; what was removed comes back by a creation only; reads are of something shown during the call; listings miss nothing untouched; every call ends |
| `physical` | a thread and an async task on a directory and an altroot in it, 21 mixes, two disks, a second device; any await may be dropped, the process may die once | moved files are on the disk at every moment, and after death; nothing outside the altroot, or not named, is touched; calls do all or nothing; appended data stay; `create_dir` panics only when another request that removes has begun; every call ends, left-behind ones too |
| `readonly` | nine places and 18 arguments of `join`; 4-bit integers, contents up to three bytes; three files or none, two editions of the folder | `join` resolves; the index is the tree of the files; reads are in order, panics only past the end; copies, moves and `read_to_string` deliver the whole content that was opened |

Bounds and why they are enough. Two threads suffice for every pairwise race of lock
sections, and no section looks at more than a path and its parent, so one directory with
one entry, and a sibling to change beside it, meets every case; `vfs_path` has a third thread because
two callers of `create_dir_all` may race with a third who makes the entry one of them
is about to make. `MaxLen` (the longest buffer) is 2 where a gap and an overwrite matter
and 1 elsewhere. One write handle per thread: a second one of the same thread acts on
the map as another thread's would. In `vfs_path` and the async runs each thread or task has one
or two calls, since the methods keep no state between calls; the trees have a file at
depth one and two and an empty directory, which is what the walk's stack and the recursion tell
apart. The *mixes* are the pairs of calls that touch a common path in each way a
method can depend on it (its source, its destination, their parents); all orders of
their steps are explored. What a property promises of a call that nothing disturbs, or that is alone on
its path, is asked in mixes that leave it so, one at least for every call its comment names: a `move_dir` and a `copy_dir`
beside changes elsewhere, an `is_dir` beside removals next to it, a `create_dir` of a path no other request names, a listing
with a marked entry nobody touches. Three layers in `overlay`, because two only tell upper from lower and not which
of two lower ones is read; two in `overlay_async`, where a third adds steps and no new kind of
step. The process of `physical` dies at most once: its successor starts with nothing but the
disk, as the first one did. A path of `Scripts` that is copied or moved must stay among `Paths` with all that is below it
(`MovesAssumption` in `PhysicalClients` and `AsyncVfsPath`; no finite `Paths` allows a tree to be moved into itself then,
which `PhysicalClients` states too), which is why `MCPhysical` has some paths
nothing is ever at; `AltrootFS` assumes that its roots are paths (`RootsAssumption`), `ReadOnlyClient`
that its places are, the root being one, and that the texts it joins are sequences of names (`PlacesAssumption`). `Half` is 8 in `readonly`, so that positions behind the content, at
the largest value and wrapped from below zero all differ from those in it.

Fairness. `VfsPath` assumes weak fairness of each thread's next step: threads are scheduled by the
operating system, no step waits for anything but the lock, and no lock section
waits inside. `AsyncVfsPath` and `AsyncOverlayFS` assume it of each task's: an executor polls a
task that has been woken, and the lock wakes whoever waits for it. `PhysicalClients` assumes that a task
that can begin does, and weak fairness of each actor's steps: a call in the pool is carried out by
the operating system. None assumes that a call is, or is not, dropped or that the process dies. Fairness is
needed for `EveryCallReturns` and `EveryCallEnds` alone. `CHECK_DEADLOCK FALSE` is set for these
four, whose clients stop when their scripts are done.

## 4. What is proved

About MemoryFS, for any set of threads, paths, calls and bytes (assumptions: a path is a sequence of
names, `PathsAreSequences`, and paths are closed under `Parent`; bytes are naturals, `Calls` and the bounds well typed):

* `TypeCorrect`: `Spec => []TypeOK`.
* `DirectoriesEmpty`, `FilesStay`: the two properties that need no discipline.
* `TreeSafe`: `Discipline => (Spec => []TreeInv)`.
* `MemoryIsAtomic`: `Discipline => (Spec => AtomicSpec)`: MemoryFS implements `AtomicFS`.

*Discipline* is what clients must keep for MemoryFS to be a tree at all; without it the runs show
states that are not (`memory_race`). `TypedPaths`: a path is used for files or for directories;
`OwnedRemovals`: only the thread that alone creates entries in a directory removes it, with
no writer open. MemoryFS enforces neither.

*The invariant.* That the map is a tree (`TreeOK`) is not inductive: the second section of a
creating call inserts below a parent looked up earlier, a handle publishes at a path
opened earlier, and `remove_dir` removes what it listed earlier. `TreeInv` adds what
these rely on: the pending creator's and the open writer's directory is there
(`CreatorOK`, `WriterOK`), the pending remover's directory is still empty (`RemoverOK`), and entries have
the kind their path is used for (`KindsOK`). The proof goes action by action; the lemmas about
what one step may change keep the other threads' conjuncts. The refinement then needs
nothing new: a first section is a stutter or a refusal, a second one is the abstract call, because
`TreeInv` says that what was looked up still holds.

About the read handles, for contents, buffer sizes and integer widths of any size (assumption: a
content is no longer than the largest `i64`):

* `ReadersReadInOrder`, `HandlesAreTyped`, `AsyncCursorStaysInside`, `ReadersPanicOnlyPastTheEnd`.
  The invariant `HandleInv` joins the types of the fields, `ReadsInOrder`, the range of the async cursor
  (`CursorInside`), and that a closed handle starts at zero (`StartsAtZero`), which the first read needs; where
  `as` wraps, the lemmas about `AsUnsigned` and `AsSigned` say what remains true.
* `ClientKeepsHandles`: `Spec => HandleSpec` – the client of `ReadOnlyClient` implements the handle's
  specification whatever others write; so the properties above hold of it (`ClientReadsInOrder`).
* `EmbeddedIndexIsTree`: `Spec => []EmbeddedIsTree`, for whatever files `T` carries, as long as none is the root or
  lies below another. That the index is the one `new` built (`IndexOfNew`) is all it takes of the steps; the rest is
  about sequences: what is on the way to a file (`StrictPrefixes`), and that who goes one name further is at the file
  or still on the way (`OneNameFurther`).
* `JoinsAreResolved`: `Spec => []JoinsResolve` and `ClientTypes`: `Spec => []ClientTypeOK`, for paths and texts of any
  length – what `join` answers is `Resolved`, a path with no "", "." or "..". Both say what the loop over the components
  yields, that is, what a fold computes. `FoldExists` gives the function the fold is defined by, as a choice between
  functions that are equal; `JoinLoop` reads it as the walk `walk[0]`, `walk[1]`, ... of the loop; and `CountedInduction`, induction
  over a *set* of numbers, which needs no operator as parameter, shows of every `walk[k]` that it is the prefix of the
  reference of length `k` (`TurnOfTheLoop`). The reference keeps the names no later ".." takes away (`Alive`); what one more
  component does to their list (`AliveNext`, `ListsNext`, `ListedNext`) is the heart of it. The rest of the invariant,
  `PlaceOK` and `TaskOK`, is of types.
* `CallsDeliverTheWhole`: `Spec => DeliveredWhole`. Beside `HandleInv` it needs that a read which
  returned 0 has come to the end (`EndedAtTheEnd`) and that a call under way has the handle it opened,
  unmoved (`TaskHasItsHandle`).

About the methods of `VfsPath` on one MemoryFS, for any number of threads, any scripts of calls and any
trees to start with (assumptions besides those of MemoryFS: the scripts are sequences of calls, the
initial maps trees; no discipline).
Paths that a copy puts together need not be among `Paths`, so the agenda ranges over `AnyPath`:

* `MovedFileStays`: `VfsSpec => []VfsInv` – type correctness, and a file that `move_file` moves, and
  that nobody else touches, is never lost.
* `StaysInFootprint`: `VfsSpec => []ElsewhereUntouched` – what no request begun so far may reach is as it
  was at the start, whatever walks, copies and removals have met on their way.
* `ParallelCreateDirAll`: `VfsSpec => CreateDirAllSucceeds` – as long as nobody removes anything, any number of
  threads in `create_dir_all` succeed unless a file is in the way, and the directory is there.

*The invariant* `VInv`. Neither property is inductive: what a thread may do next is on its agenda, and
the map says nothing of it. `ThreadFits` ties the three together: every step of the agenda
stays inside what the request may reach (`Fits`), an open handle writes inside it and has its
`drop` ahead, and a call between its two lock sections is the one the agenda begins with.
`InPhase` says where a `move_file` that is alone on its two paths stands: before its `k`-th step the
source is as it was (`k <= 7`), the content read is the source's (3 to 6), the handle holds it (7 and
8), and the destination has it at the end – the conclusion is read off the phases.
`Untouched` is the footprint; it makes `Alone` usable, for other threads' steps stay in theirs.
For `create_dir_all`, `CInv` adds that nothing vanishes where nothing is removed, and that a call at its `k`-th
beginning has found or made all those before it (`Made`). The proof goes step by step of the agenda, each
step being a MemoryFS action already dealt with, and the lemmas on agendas (`…Fit`, `MoveFileShape`,
`BeginningsParent`) are the only ones that open up sequences.

About the methods of `AsyncVfsPath` on one AsyncMemoryFS, for any number of tasks, any scripts and trees, and calls
dropped at any `await` (assumptions: the scripts are sequences of requests, the initial maps are trees, and what a request
copies stays among `Paths`, `MovesAssumption`):

* `MovesLoseNothing`: `Spec => []AsyncInv` – type correctness, and a file that an undisturbed `move_file` or
  `move_dir` moves, by itself or in its directory, is at every moment at its old place, at its new place or in the handle
  that will publish it.
* `RemovalsKeepTree`: `Spec => []RemovalsLeaveNoOrphans`.

*The invariant* `AInv`. A step is right because of what an earlier step has found out: `create_file` because its parent
was a directory and its path absent, the removal of a directory because it was listed empty, `fill` because the handle
was opened. `Needed` names these pairs; `Guarded` says that the earlier step is either still ahead on the agenda with nothing
between the two that could undo it (`Led`), or behind, and then what it has found out holds (`Clear`, `Known`).
`HandleOK` says that an open handle is about to be filled or dropped, `Untouched` confines requests to their footprint,
`Orphanless` is the second theorem. `MoveOK` tells where an undisturbed move stands: not begun; copying, with the source
whole and every file arrived or in the reach of a step ahead – a walk *reaches* what is below what it has yet to list
or yield (`Reaches`), so that no induction over the tree is needed; given up, with the source whole; or leaving,
with every file arrived. A dropped call is one that has given up, or was leaving. Each step either replaces the head of the
agenda (an `Expansion`) or strikes it off with an `Outcome` (`StepsTurn`), the invariant is shown for these two, and
`OthersStay` says what a step leaves to the other tasks.

About PhysicalFS, AsyncPhysicalFS and the altroot in it, for any threads and tasks, scripts, disks and devices, with calls
dropped and left in the pool, and the death of the process (assumptions: the roots are paths, `RootsAssumption`;
`MovesAssumption`; two tasks do not share a straggler):

* `PhysicalTypes`: `Spec => []DiskTypeOK`.
* `StaysInItsRoot`: `Spec => OnlyWhatIsNamed` – no step changes a path outside what the request named, hence none outside
  the root of the file system it was made on.
* `PanicsAreFromRaces`: `Spec => []PanicsOnlyWhenRaced`.
* `AppendsAreKept`: `Spec => []AppendedStays`.
* `MovedFilesStayOnDisk`: `Spec => []DiskInv` – a move that no other request disturbs never loses a file: each is whole at
  its old place or at its new one at every step, whether the move renames or copies and removes, and wherever it stops.

*The invariant* `PInv`. `AgendasOK` says of each agenda that its steps are the request's (`Fits`), that the three parts of
`std::fs::copy` follow one another (`Together`), that nothing is written before something has been opened (`OpensFirst`) and
that the second look of `create_dir` comes at once (`LooksFirst`). `TasksAreAsked` and `StragglersAreAsked` tie the agendas
to the scripts, a straggler's to a request its task has begun before. For the panic, `PanicsAreRaced` adds that a second
look which will find nothing has been raced already. For the appends, `ContentGrows` says that a content to which requests
only append starts as it did, and that whatever is open for writing there appends; `AppendPhases` where an
`append_file` stands. What an agenda looks like is again left to lemmas on agendas (`…Sound`), what a system call may change to
those on `Disk` (`…Confined`, `FollowingFile`).

*The invariant of moves* `MInv`. `MovedIsOnDisk` alone does not survive the removal of the source, nor a write to a file
that somebody has open there. `Untouched` and `Owned` say that what has changed, and what is open to write to, is
where a request begun so far may write; `HandlesApart` that around an undisturbed move only its own destination is open to
write to, and by itself. `MoveOK` tells where the move stands (`Stands`), from what its `Runner` – the task, or the straggler it
has left in the pool – has on its agenda and has open: not begun; copying, with the source whole and every file arrived
or still ahead of the walk (`Awaits`), but for the one being copied, of which `Reads` and `Writes` say how many bytes have
arrived; about to be renamed; given up, with the source whole; or leaving, with every file arrived and only removals
on the agenda. `OwnStepOK` takes a move from one of these to another, whatever call of the operating system fails;
`StaysWhereItIs` is for the steps of the others, `StopsAnywhere` for the death of the process and `LeftToThePool` for
the future that is dropped. That the walk misses nothing again needs no induction: an entry of the source is below the
directory the walk has yet to list, and listing it puts the child that leads there in its place.

About the overlay, for any number of layers and any paths, names, calls and bytes:

* `LayersStayTrees`, `MarksAreRight` and `OverlayIsAtomic`: `Assumed => (Spec => ...)` of `LayersInv`,
  `MarksHideOnlyLower` and `AtomicSpec` – the stack of layers with its marks implements one plain file system.

`Assumed` is what the overlay relies on and does not check, each with a run or a line of §5 that shows
what happens without it: the client keeps the `Rules` (`Polite`); no user name is the mark of another
(`MarksAreDistinct`; without it `overlay_names`); no layer has something below a path another has a file at, and
none starts with marks (`LayersAgree`). `NamesAssumption` says that `Wo` appends the same letters to every name.

*The invariant* `OverlayInv`. That a mark hides nothing of the first layer is not inductive: to put or to remove a
mark one has to know that its path holds no directory and its directory no file. `StackOK` adds
that marks are files in directories of marks, that the layers are trees, and that what is *shown* is
one – from which `create_dir_all` of a shown directory succeeds in the first layer; `WriterOK`,
that an open handle's file is in the first layer, hence unmarked when it is published.
Three lemmas carry the proof, for any stack that is right: making the directories of a shown path
shows the same (`Mirrored`), entering something and removing its mark shows just that (`Entered`), and
removing a leaf and marking it shows it gone (`Marked`); every method is a refusal after
`Mirrored`, or `Mirrored` and then one of the other two. `CreateDirAllMakes` says what the recursive function in
`CreateDirAll` yields: it is proved by comparing that function with the explicit one, at the least number where the
two would differ (`LeastElement`), since the library's theorems on induction are out of the prover's reach. That no two marks are equal
and none is a directory of marks (`MarksDiffer`) is a matter of sequences.

Only model-checked:

* `CallsAreAllOrNothing`, `CopiesAreFaithful`, `AsyncCopiesAreFaithful`, `NoHalfCopies`, `RemoveDirAllLeavesNothing`, `WalksAreComplete` and
  `UndisturbedAnswers`, which say what the end of a call has achieved.
* The async overlay, whose clients interleave inside the methods; `OverlayIsAtomic` is about the one-step methods.
* `FlushShowsAllWrites`, whose reference is the history of the writes that `MCMemoryAny` keeps beside the model.
* Liveness (`EveryCallReturns`, `EveryCallEnds`), which is out of its reach with `ENABLED`.
* The four violations of §3, which are what they are on their instances.

## 5. What the code does differently from what it says

Besides the four violations above, met while modelling and not given a run:

* `copy_dir` returns the number of entries copied, directories included (`path.rs:942`, and the async one);
  its doc says files (908).
* Two `remove_dir_all` of one directory may both fail and leave it standing, empty. Of two moves to
  one name both may succeed, and one content is lost.
* `move_file` from a file system that cannot remove fails, and leaves the finished copy at the destination.
* OverlayFS: `create_dir` over a directory that only a lower layer has returns `Ok` (`path.rs:234`
  promises `DirectoryExists`), and over such a file replaces it; `append_file` below a lower layer's
  file fails, but has turned the file into a directory (so does a creation, which succeeds); a handle
  dropped after `remove_file` leaves an entry below its own mark; the root lists `.whiteout`. The run `overlay` excludes these
  by `Rules`, or by overlooking `.whiteout`.
* Both overlays: a parent that is removed after `ensure_has_parent` has found it, and before it makes it in
  the first layer (`async_vfs/impls/overlay.rs:79`), is made again. It is shown until the removal has made its
  mark, or for good if that is dropped; after the mark, what the creation makes in it has no directory.
  `MakesItsParents` in `AsyncOverlayFS` says when; nothing else comes back.
* AsyncMemoryFS: `poll_flush` and `poll_close` do not publish, against the comment above them
  (`async_vfs/impls/memory.rs:73`); dropping a write handle waits for the lock with `block_on`, on the executor's
  thread. The `set_*_time` methods answer `NotSupported`, where MemoryFS stores the time.
* The async reader's `SeekFrom::End` counts back from the cursor, and the position at the end is refused.
  The synchronous one lets a position go past the end, and below zero to a huge one, and panics at
  the next read.
* EmbeddedFS: `open_file("")` panics in `split_at`; with no files, `exists("")` is true and `metadata` and
  `read_dir` answer `FileNotFound`. In a debug build, where rust-embed reads the folder, lengths are
  those `new` saw, and a file added later opens although `exists` denies it.
* PhysicalFS: `move_file` to another device is an error the caller sees as such, `move_dir` copies.

## 6. What is not modelled

* Time stamps, beyond the calls that set them: no method decides by them.
* Lock poisoning: `unwrap` of a poisoned lock panics in every later call alike.
* `is_file`, `is_dir` and `set_*_time` of the synchronous `VfsPath`: each a call or two that change nothing.
* Error texts, contexts and paths; codes are the kinds a caller can match, with "parent
  missing" told apart from other errors of kind `Other`. HashMap order is any order.
* Permissions, links and other users of the disk; `Disk` holds what the calls of this crate rely on.
* The inside of the executor, of its locks and of the thread pool: what is used of them is that a lock
  excludes, a woken task is polled, and a call in the pool is carried out.
* Test macros, re-exports and feature gates.

## 7. What is left

* Theorems for the properties of calls that have ended (§4).
* A relation between `AsyncOverlayFS` and `OverlayFS`: a task that runs alone is the one-step method, so
  that `OverlayIsAtomic` would carry over to it.
