# A TLA+ model of the XFS driver for Windows

The driver mounts an XFS image through WinFsp and makes it writable without
ever writing to it: every change is staged in an in-memory **overlay** that
hides the image (the **underlay**) path by path, and at dismount the overlay is
dropped or dumped to a sidecar file. This directory models the parts of it that
decide what a user sees and what can be lost. Paths below are relative to the
repository.

## 1. Inventory

| Part | State | Operations | Talks to |
|---|---|---|---|
| Overlay (`src/overlay.rs`) | one `RwLock<BTreeMap<path, OverlayEntry>>`; an entry is `Created`, `Modified`, `Deleted` or `CreatedDir` | `lookup`, `write_file`, `create_file`, `create_dir`, `delete`, `rename`, `clear`, `iter_dir`, `snapshot`; the lock is held for one method and no longer | everything below |
| Path normalisation (`overlay.rs`, `normalize_path`) | a stack of names | one loop over the segments | gives every overlay method its key |
| Mount path operations (`src/mount.rs`, `Mount`) | the overlay, the XFS reader, the write mode, the dismount policy | `read_path`, `write_path`, `set_size_path`, `rename_path`, `apply_dismount_policy` | overlay, reader; the WinFsp `rename` callback calls `rename_path` |
| WinFsp adapter (`mount.rs`, `XfsContext`) | per open handle: path, cached inode, `is_dir`, `pending_delete` | the file-system callbacks, on WinFsp's threads, under its `FineGuard` strategy | overlay several times per callback, reader, Mount |
| Directory listing (`underlay_children`, `iter_dir`, `read_directory`) | none of its own; the marker is the client's | merge, sort, resume after the marker | overlay once per child and once per directory |
| Lifecycle (`cmd_mount`, `run`, `write_sidecar`) | where the main thread is, the dismount policy, the Ctrl-C channel and handler, the sidecar file | launch, start the host, install the handler, wait, stop, unmount, discard or write the sidecar; the process may be killed | WinFsp, `ctrlc`, the overlay after the host is gone |
| Partition slice (`open_direct`, `open_partition`, `PartitionDevice`) | start and length, in `u64` | bounds-checked reads | the reader's block device |
| Command line (`src/main.rs`), probe | none | parse, print; the options of `mount` choose write mode, policy and slice | Mount |

What is hard: callbacks of several handles run at the same time and take the
overlay's lock once *per call*, so a read-modify-write, a check followed by an
insertion, or a double lookup is several critical sections; a handle's context
remembers a path and an inode that other handles make stale; two spellings can
name one path; the image may fail any read; everything staged lives in memory;
and the dismount runs on the main thread while callbacks may still be running,
a second signal may come, a step may fail and the process may be killed.

What makes each part correct:

- overlay: a staged change is shown at its path and nowhere else, until that
  path is staged again; a deleted path never falls back to the image;
- normalisation: two spellings of a path have one key, a key is its own key;
- path operations: each is one change of a plain volume or none, byte-exact;
- adapter: no acknowledged write and no image byte disappears except by an
  operation meant to destroy it or by a callback that another overtakes between
  two of its overlay calls, and then nothing but what it could not know;
  creators exclude each other; a read-only volume stays untouched;
- listing: across calls, each name at most once, in order, none that is not
  there, and none left out up to the page's last; it ends, and where it ends
  short is known;
- lifecycle: a dismount ends; a mount that ends without a complaint either was
  to drop the changes or has kept all of them, as they were last shown;
- partition slice: no read leaves the slice or the device.

`PROJECT.json` lists every component with its status, and under `hazards` each
spot of this code that a test would hardly reach, with the property that covers
it or the reason why none does.

## 2. Modules

```
Nodes --- Volume, Scratch                what a path shows; the two abstract specifications
  +- OverlayMap -+- Overlay -- MCOverlay, OverlayProofs          implements Volume
  |              +- MountPaths -- MCMountPaths, MountPathsProofs implements Volume
  |              +- DirListing -- MCDirListing, DirListingProofs
  |              +- Adapter -- MCAdapter, AdapterProofs
  |              |    +- Session -- MCSession, SessionProofs     implements Scratch
  |              +- OverlayMapProofs (lemmas the proofs of all of these share)
PartitionSlice ---- (Session)
Paths ------------- (Overlay, MountPaths)
  +- Normalizer -- NormalizerProofs
InductionProofs --- (NormalizerProofs, DirListingProofs)   induction over numbers, folds
```

| Module | Code | Correspondence |
|---|---|---|
| `Paths` | `normalize_path` | a spelling is the sequence `split('/')` yields; `Visit` is the loop body, `NormalizePath` the fold of it |
| `Normalizer` | the same loop, one step per segment | `stack`, `next`; `Pop`, `Push`, `Skip` are its branches |
| `Nodes`, `Volume` | the specification | `Volume` knows no overlay: a tree of nodes that `Put`, `MakeDirectory`, `Remove`, `Move` and `Discard` change; `did` records which of them, with its operands, so that an implementation has to do the right one and not just one that is possible |
| `OverlayMap` | `OverlayEntry`, `Overlay`'s map and the body of each method | pure operators on the map, shared by the state machines; a key the BTreeMap lacks is mapped to `Uncovered` |
| `Overlay` | the public methods, each under one lock | one action per method, on spellings |
| `MountPaths` | `Mount`'s path operations | one action per operation, contents are byte sequences, `fault` is the path whose image read the device refuses; `call` records the last call and its result |
| `Adapter` | `XfsContext` | one step per overlay call; `file[h]` is the `XfsFileContext`, `call[h]` the callback a handle is in with its locals; `readOnly` is chosen when the volume is mounted; with `DeviceFails` the image may refuse any read |
| `PartitionSlice` | `open_direct`, `open_partition`, `PartitionDevice` | operators on `[base, len]` modulo `Word` (2^64): the release build wraps where the code does not use `checked_add` |
| `Session` | `cmd_mount`, `Mount::open`, `winfsp_adapter::run`, `run_impl`'s stub, `write_sidecar` | extends `Adapter` and `PartitionSlice`: `stage` is where the main thread is, `Serve` lets any of the adapter's steps happen while the dispatcher is on, `Finish` lets those under way go on after it was told to stop; `Launch` is a new process over the same image and sidecar path |
| `Scratch` | the specification | a mount without threads, callbacks, signals or entries: `Mount`, `Change`, `Close`, `Save`, `Drop`, `Lose`; it may lose the changes only with a complaint or by being killed |
| `DirListing` | `underlay_children`, `Overlay::iter_dir`, `read_directory` | one step per overlay call of one listing handle: `ReadDirectory` begins a call, `LookUpChild` is `underlay_children`'s loop, `Answer` is `iter_dir`, the merge, the sort, the resume and the page; `Write`, `Create`, `Delete`, `Rename` are the other handles. The handle may have an inode of the image or, its directory having been made in the overlay, none (`inode`). Keys are paths here, and names are numbers, which gives the sort its order; the sorted list is defined by how many entries come before a name |

In `Adapter` a file's content is a set of tokens: the image's own bytes of a
file are one token, every write adds one. That forgets positions (they are
`MountPaths`'s subject) and keeps what a race can do: drop a write, bring one
back, or show it at a path it was not written to. `writes`, `forgone`, `swept`,
`raced`, `excused` and `seen` are history variables that no guard but the bound
on writes reads. `forgone` holds the bytes an operation was asked to destroy: by a
delete, an overwrite, a shrink, a rename told to replace. `swept` holds those that
went without being asked for, which only the insertion or tombstone of an
overtaken callback can do: `raced` holds the writes, resizes and renames whose
snapshot of their file is out of date, and `excused` the creates and renames
whose destination changed after they had asked about it, or about which the
device did not answer. What such a callback sweeps away is what is shown and
it does not hold, no more. `DirListing`'s `steady`, `alive`, `lost` and `cut` are
history, too: `lost` says that a call resumed after a name that had gone, `cut`
that the end was announced behind a page that more was to follow.

`NamesFree` is external code: WinFsp's `FineGuard` runs `create` and `rename`
alone, lets opens and disposition changes share, and does not guard reads,
writes, resizes and overwrites. It guards a `cleanup` by WinFsp's own Delete flag,
while the code acts on `pending_delete`; the model takes the two for independent
and lets a deleting cleanup fall between the steps of a create or a rename. In
`DirListing`, `Guarded` is the same rule from the listing's side: a call of
`read_directory` shares the guard, so creates, renames and deletes fall between
calls and writes fall anywhere.

## 3. Runs

| Run | Bound | Shows |
|---|---|---|
| `normalizer` | spellings of up to five segments over two names, `""`, `.`, `..` | the stack is always the resolved form of what was read, stated without a stack: the names after which no stretch holds more `..` than names; the result is the overlay's key, and its own key |
| `overlay` | three paths (image file, image directory, nothing), five spellings, three contents | `ImplementsVolume`: the overlay over the image *is* the abstract volume; `CoverageOnlyGrows`: no method hands a path back to the image |
| `mount_paths` | the same three kinds of path and an alias; files up to two bytes over three byte values; offsets up to three, beyond which the addition overflows | refinement of `Volume` by multi-step operations under device faults; byte-exact writes; renames that cost nothing but what they are told to replace |
| `adapter` | two handles, one image file, one free name, two writes, the second where only the image file has been touched; read-only or not; any read of the image may be refused | the type invariant and the eight properties below |
| `listing` | a directory with a file and a directory of the image, a third name and a deeper path; the file, the third name and the deeper path change; pages of one or two names; a handle with or without an inode of the image | order, no duplicates, no phantom, no name passed over, nothing left out unless a marker's name had gone or the end was announced after a cut page; a listing ends |
| `session` | one handle, one image file, two writes, two mounts; a `u64` of three bits, sectors of two bytes, a device of five | `ImplementsScratch`: command line, callbacks, signals, dismount, sidecar and kills together keep the promise of `Scratch`; `DismountEnds`; `ReadsStayInTheSlice` for every table entry, offset and length |
| `rename_fault`, `adapter_read`, `adapter_create`, `adapter_delete`, `adapter_rename`, `short_listing` | as above | the six disagreements of section 5 |

Why the bounds are enough: an overlay method decides by the kind of one or two
entries and the image's node there, so one path per kind and one alias reach
every branch; five segments are enough for a name, a nested name and more `..`
than either; two bytes and a zero tell apart a byte that was kept, written,
filled or lost, on both sides of every boundary. In `Adapter` every race the
code can have is between two callbacks, so two handles suffice; one path with an
image file and one without give every pair of (entry, image) at a path; two
writes let each of two writers land, which is the race the comment in `write` is
about. `SecondWriteAtOneName` keeps the second write to behaviours in which
nothing but the image's file has been opened, created or staged: one write is
enough for a race with a rename or a create, and two writers race at one file.
`adapter` looks at its states through `LossesAsOne`,
which joins `forgone` and `swept`: no guard reads either, and no property but the
type invariant tells them apart. The
proofs of section 4 lift the bound on handles, paths and writes for the
properties they cover. A listing merges two passes and resumes between two
pages, so a name only the image has, one only the overlay has, one in both, and
a page that ends before the last of them reach every case; three names in pages
of one or two do that. Handles are interchangeable, so the `adapter` run uses
them as a symmetry set. In `session` what matters is one callback in flight
around `stop` and the snapshot (one handle), a change after another so that an
early snapshot differs from the last state (two writes), and a sidecar that the
next mount finds, spoils or replaces (two mounts); the contention of handles is
`adapter`'s subject and the bounds on handles, paths and mounts are lifted by
the proof. With three bits, sectors of two bytes and a device of five, the two
multiplications wrap (a length of five sectors becomes one of one), `checked_add`
overflows (4 + 4), an entry that ends behind the device without overflowing is
refused (2 + 4), and the slices that are mounted are the whole device, [0, 2],
[0, 4], which end before the device, and [2, 2], where the start is added to every
offset; `SliceReads` is the proof for every width.

Properties of `Adapter` and `Session`:

- `OverlayHandlesStayCovered` - a handle with no inode to fall back on always
  finds an entry: `get_file_info`'s "entry vanished" cannot happen.
- `NothingLostSilently` - every image byte and acknowledged write is readable at
  some path in every state, also between a rename's two insertions, unless an
  operation was asked to destroy it (`forgone`), or it was swept away in one of
  three races (`swept`): a write or resize puts back a file it had read before
  another callback changed it, which the comment in `write` admits of two writes;
  a rename tombstones the old name although bytes have landed there since it read
  the file, which nothing admits and `adapter_rename` reports; a create, or a
  rename not told to replace, inserts at a name that changed after it had asked,
  or that the device did not tell about (`adapter_create`, `rename_fault`). So a
  callback that nobody overtakes destroys nothing unasked, and one that is
  overtaken nothing that it holds.
- `ReadAnswersWhatWasThere` - a read answered from the image returns what its
  path showed at some moment of the read, unless the path was deleted meanwhile.
- `OnlyFreeNamesAreTaken` - a create, and a rename not told to replace, inserts at
  a name that shows nothing, unless the name changed after it had asked or the
  device had refused to answer: the only ways there are past the checks. What a
  change in between can do to a create is `adapter_create`'s subject.
- `ReadOnlyStagesNothing` - no callback of a read-only volume stages anything, a
  delete that was marked or a handle that was opened before included.
- `CreatorsExcludeEachOther` - a create never replaces what another create or
  rename staged.
- `TombstonesAreLiftedKnowingly` - a deleted path comes back only by a create, a
  rename, an overwrite, or a write that had read it before the delete.
- `CallbacksActAsOne` - a write, resize, create or rename takes two to four overlay
  calls; as long as no other callback changes its path meanwhile, it acts as one
  operation of a plain volume at the moment it inserts, and its other calls change
  nothing. A rename moves its node in one step: `Settled` is what is shown, except
  that the old name of a rename that has staged its destination counts as gone.
  This is how the adapter refines `Volume` where nothing races; what a race can
  still do is what the other properties say. So a lost update, and a delete
  undone by a write that had read the file before, are not excluded: the first
  is what the code admits, the second is confined to such a write by
  `TombstonesAreLiftedKnowingly`.
- `ImplementsScratch` - no acknowledged change is missing from a sidecar that was
  written without a complaint, although callbacks may be running when Ctrl-C
  arrives; a sidecar half written is never taken for a whole one; nothing of one
  mount shows in the next. It does not say that an older sidecar survives a
  failure, nor that a Ctrl-C before the handler is set is a dismount: `Scratch`
  permits both losses (`Spoil`, `Lose`), because nothing promises otherwise.
- `DismountEnds` - once Ctrl-C has been caught, the process ends.

Fairness is assumed in two runs. In `listing`, weak fairness of `Listing`, the
steps of the listing itself: a call of `read_directory` is straight-line code
over finite loops and waits for nothing but the overlay's lock, which every
method gives back; and the client, as every directory enumeration does, asks
again until a page comes back empty or with the end-of-listing marker. In
`session`, weak fairness of the main
thread's steps from `set_handler` on, and of each callback that `host.stop`
waits for: both are threads the system schedules, and a callback is again
straight-line code. Nothing is assumed of other handles, which may go on for
ever, of new callbacks, or of the user, who need not press Ctrl-C.

Every other property is a safety property. The adapter's and the listing's state
spaces have no deadlock (a handle can always open or close, a client can always
list again). `Normalizer`, whose loop ends, and `Session`, whose last process
ends, turn the check off.

## 4. Proofs

TLAPS proves the following for every value of the constants, that is any number
of handles, paths, writes, spellings and any image.

| Theorem | Assumes | Argument |
|---|---|---|
| `Typing`, `OverlayImplementsVolume`, `OverlayCoverageOnlyGrows` (`OverlayProofs`) | `Underlay` maps keys to nodes, `Empty` is a content, spellings normalise to keys | `TypeOK` is inductive. `ViewOfUpdate` and `ViewOfRename` say what each operation on the map does to what is shown; `NextRefines` then matches each method with the volume's operation. |
| `NormalizerTyping` (`NormalizerProofs`) | names are not `""`, `.` or `..` | invariant: the stack holds names only and is shorter than the index of the next segment |
| `StackIsResolved` | - | inductive as it stands: a `..` takes back the last standing name and no other, because every stretch after that name balances, a name adds itself, the rest changes no balance. `Standing` is defined by counting, so the proof is about cardinalities of positions. |
| `ResultIsTheKey`, `EverySpellingHasAKey` | - | `NormalizePathByStacks` unfolds the fold of `Paths` into the sequence of stacks it goes through (`FoldsExist` of `InductionProofs`); the loop is at that sequence's element of its index, and on names alone the sequence is the input's prefixes. `EverySpellingHasAKey` is what `Overlay` and `MountPaths` assume of their keys: it holds when the keys are all sequences of names. |
| `AdapterTyping` | contents are sets of tokens, the volume has a path | `TypeOK` is inductive because the write bound is a guard; `InstallTyped` covers the shared effect of an overlay call |
| `HandlesStayCovered` | - | `StepUpdatesTheMap`: each step is one overlay method on one key or none; no method uncovers a key (`MapUpdates`), and a handle gets a path without an inode only from a lookup that hit (`HandlesWithoutInode`) |
| `ReadOnlyVolumeStagesNothing` | - | strengthened: on a read-only volume no handle is ever in a step that inserts |
| `CreatorsExclude` | - | strengthened by `OneNamesAtATime` (at most one handle is inside a callback on names: WinFsp's guard) and `CreatorFoundNoCreation` (what create's first lookup ruled out stays ruled out). The second needs the first, and needs that `write_file` makes `Modified`, never `Created`, of an entry that was not `Created`. |
| `FreeNamesOnly` | - | strengthened: the destination of a callback about to insert shows nothing unless the handle is excused or told to replace. Kept because every step that makes something appear at a path excuses the handles that have asked about it. |
| `ReadsAnswerWhatWasThere`, `TombstonesLifted` | - | strengthened by `ReadersInv`: a callback that has looked its path up is about the path of its open handle; a read of the image has seen that path deleted or showing the image's node; a patch whose file was deleted has raced. A handle is touched by another's step only as `OthersAreBystanders` says. |
| `NothingIsLost` | - | strengthened by `HoldersInv`: a write, resize or rename that has not raced holds every byte its path shows, a create holds nothing, and what a rename holds after its insertion is shown at the destination or accounted for. So every step but a rename's last keeps each path's bytes at that path or accounts for them, as asked for or as swept (`StepsKeep`), and the last one removes only what is shown at the other name, and sweeps only what has landed since (`BytesStay`). Needs `OneNamesAtATime`: no second rename may take the destination away in between. |
| `MountTyping`, `PathsImplementVolume`, `WritesCreateNothing`, `WritesAreExact`, `RenamesSpare`, `FreedNames` (`MountPathsProofs`) | contents are the byte sequences up to `MaxLen`, spellings normalise to keys | `ResizeMakesContents` and `PatchedMakesContents` say byte by byte what a call makes of a file, `FileAtIsShown` and `SourceAtIsShown` that what it starts from is what is shown, wherever it came from, `FreeShowsNothing` what `dest_exists` knows; `WriteStep`, `SetSizeStep` and `RenameStep` sum up each call, and the theorems read their parts off them |
| `OnlyWhatWasThereIsListed` (`DirListingProofs`) | paths are sequences of names | invariant: what a call has kept and whatever the overlay holds now has been there during the call (`KeptWasThere`); a child is found again under its name |
| `ListingTyping`, `ListingIsInOrder`, `ListingIsComplete` (`DirListingProofs`) | the image has finitely many paths; pages hold one name at least | `PagesInv`: what is listed ascends and ends with the marker (`ListedToTheMarker`); every name up to the marker that was there all along is listed (`CompleteToTheMarker`); the end is announced only by `Answer`, which notes whether it cut the page; a name that was there all along is still there, and if the image's directory has it, the call under way has kept it or has yet to look it up (`SteadyIsKept`), so that the merge has all of them (`SteadyIsMerged`). The overlay's map stays finite. `SortListsEachNameOnce`: the sort, defined by rank, gives each merged name one position, in order; `PagesAreStretches`: a page is the next stretch of it after the marker. |
| `AdapterActsAsAVolume` | - | from `HoldersInv`: what a write, resize or rename that has not raced holds *is* what its path shows, so its insertion is an operation on what is there now (`InsertsOfWhatIsThere`); and from `OneNamesAtATime`: while one rename is between its insertions, no other create or rename is (`OnlyOneMoves`), and others' writes leave what it moved alone unless they race it (`OthersStayMoved`). |
| `SessionTyping`, `SliceReads` (`SessionProofs`) | the superblock's size and the mounts are numbers of the width | `SliceReads`: a slice in use ends within the device, so that a checked offset and length cannot wrap when the start is added |
| `SessionImplementsScratch` | - | strengthened by `NothingBeforeStart` (until the host has started the overlay is empty), `NothingRunsAfterStop` (from then on it stands still), `SnapshotIsFinal` (what is written is what the overlay still holds) and `ReadOnlyOnlyReads`. Each step of the adapter changes at most one path's node (its overlay calls, one at a time), and each step of the main thread is one of `Scratch`'s or none. |

`InductionProofs` holds what the normaliser's and the listing's proofs need: the least element of a set of
numbers, induction up to a number, and that a fold over `1..n` exists and unfolds
step by step. They are stated with sets and functions instead of operators,
because the provers cannot instantiate an operator, and rest on the library's
theorem that `<` on the naturals is well founded.

Each inductive invariant was checked with TLC before it was proved. The proofs
assume nothing of fairness; they rest on the constants' named `ASSUME`s, which TLC
evaluates in the runs.

Model-checked only: the liveness properties `ListingEnds` and `DismountEnds`, which
need fairness and `ENABLED`, out of the provers' reach. Every invariant and action
property of every passing run is proved.

## 5. Where the code and its words disagree

| Run | The code | What is said |
|---|---|---|
| `rename_fault` | `lookup_path(to).is_ok()` (`mount.rs:419`): a read error makes an existing destination look free | "A destination that already exists is refused unless the caller says to replace it" (`tests/overlay_integration.rs:161`) |
| `adapter_read` | `read` looks up twice (`mount.rs:1062`, `1076`) and only the second answer counts: deleted, then created again in between, the image's bytes are returned | "Callers must NOT fall through to the underlay" (`overlay.rs:120`) |
| `adapter_create` | a first write between `create`'s two lookups (`mount.rs:1274`, `1278`) turns the Miss into a Hit that is not refused; create empties the file | "Reject if the path already exists (overlay or underlay)" (`mount.rs:1273`) |
| `adapter_delete` | a rename leaves the context's path as it was, so `cleanup` (`mount.rs:1470`) tombstones the old name | "this open handle has been marked for delete ... The actual tombstone is staged in `cleanup`" (`mount.rs:847`) |
| `adapter_rename` | `rename_path` reads the old name, inserts at the new one and tombstones the old one (`mount.rs:387`, `425`, `430`) under three locks, and no guard keeps writes out: a write that lands at the old name in between, also after the insertion, is acknowledged and then at no name | "we treat rename atomically WITHIN the overlay (one write-lock acquisition for both removals + insertions)" (`overlay.rs:251`, of a method `rename_path` does not use); "Renaming a file already staged in the overlay moves the staged bytes" (`tests/overlay_integration.rs:199`) |
| `short_listing` | `read_directory` resumes after the entry of exactly the marker's name (`mount.rs:1182`); if that entry was deleted since the last page, all are skipped and the listing ends short, without an error | "reporting an empty or a short listing instead is the one answer a user cannot tell from a correct one" (`mount.rs:1132`) |

Read off the code while modelling, without a run of their own:

- `rename_path` compares strings (`mount.rs:383`) and the overlay's keys are
  normalised. Under two spellings of one path it refuses, the destination being
  there; with `replace_if_exists`, or if the device refuses the lookup of the
  destination, it stages the file and tombstones that same key, and the file is
  gone. The test says "Renaming to the same path is a no-op rather than a
  self-tombstone" (`tests/overlay_integration.rs:228`) and tries one spelling.
  `MountPaths` does what the code does (`Did` books it as a removal), and
  `RenameSparesTheDestination` shows that there is no third way to it.
- `finalize_buffer` (`mount.rs:1203`) is called also after the `break` of a page
  that did not hold all of the rest (`mount.rs:1200`). If WinFsp's end-of-listing
  marker still fits behind it, the listing ends there, although names are sorted
  "for resume-after-marker correctness" (`mount.rs:1126`) and the comment at
  `mount.rs:1132` (see `short_listing`) calls a short listing the one answer a user
  cannot tell from a correct one. `DirListing` has it as `cut`, and `NothingLeftOut`
  shows that this and the lost marker are the only ways to a short listing.
- `apply_dismount_policy` is said to be "Always called from `run_impl`"
  (`mount.rs:436`); `run` repeats its two arms instead. They do the same.
- `open_partition` "Bounds-checks the partition geometry" (`mount.rs:190`): the
  sums, not the products, which wrap in the release build. `ReadsStayInTheSlice`
  shows that the slice it ends up with is nevertheless safe to read.
- `run` "Blocks until the user presses Ctrl-C" (`mount.rs:1538`): if the handler
  cannot be installed, the sender is dropped and the volume is dismounted at once.
- A sidecar that cannot be written is a warning on stderr; the exit status is
  that of success. In `Session` this counts as a complaint.
- The project's README lists "Three dismount policies" (`README.md:31`) and `flush`
  speaks of "rebuild" (`mount.rs:1479`); there are two, and `main.rs:97` says why.
- `rename_path` answers "not found" when the device refuses to read the source.

## 6. Abstractions

- Mode bits, timestamps, attributes and sizes reported to WinFsp are left out.
- Allocation failures are left out; `MaxLen` bounds files instead.
- In `MountPaths` operations run one after another. In `Adapter` a write never
  lands on another write's bytes; `constrained_io` writes are writes or no-ops.
- In `DirListing` the callbacks of other handles are one overlay change each
  (their inner races are `Adapter`'s subject), and which handles are open is not
  kept, so more writes are possible than in the program. What an entry's file
  information says is left out. `finalize_buffer` is the skeleton crate's: it is
  taken to put WinFsp's end-of-listing marker behind the page when the buffer has
  room for it, which is left open for every page, cut short or not.
- The overlay is asked by normalised path and the reader is given the path as it
  came. The modules look both up under the normalised path: WinFsp passes paths
  without `.`, `..` and empty segments, and what the reader makes of others is its
  own code.
- Keys have no parent relation outside `DirListing`. A renamed directory appears
  empty and an image's children still open below a deleted directory: the code
  says so of renames (`mount.rs:367`), promises nothing else, and no property of
  the tree's shape is stated beyond what a listing shows.
- In `Session` a crash is the end of the process: a power failure, and whether
  what `fs::write` wrote reaches the disk, are left out. The reader accepts any
  slice whose superblock can be read. A table entry is any start and length.
  Arithmetic is the release build's, which wraps; a debug build panics instead.
- Callbacks that only report have no action in `Adapter`.

Not modelled: the probe (it reads a superblock and prints it), the commands
`info`, `ls` and `cat` (they read and print), `watch` and `service` (the skeleton
crate's), argument parsing, the text of errors and statuses, the installer and
the scripts, the layout of `write_sidecar`'s JSON. None of them keeps a state
the driver's promises are about.

## 7. Plan

Built: every component of section 1 that keeps state, and the proofs of section 4.
What is left:

1. Callbacks of other handles in `DirListing` as the steps they have in `Adapter`,
   instead of one overlay change each.
2. `CallbacksActAsOne` excludes a write that lands at the old name of a rename
   half done, since the rename takes it away. What such a pair of callbacks may
   do is bounded by `NothingLostSilently` and could be stated as a volume with a
   weaker `Move`.
