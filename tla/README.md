# EntDB in TLA+

EntDB is an embedded key-value store in C++ for one thread (README.md:61). It
keeps its data in memory-mapped files: an index of keys, a pool of bytes, and a
file that lists the free blocks of the pool. This directory holds TLA+ modules
translated from that code, TLC configurations that check them on small
instances, and proofs that TLAPS checks. `PROJECT.json` maps each definition to
the lines it stands for and lists the runs, the seeded bugs, the findings, the
hazards and the theorems.

## The system

| component | state | operations | in |
|---|---|---|---|
| `Entdb` (entdb.cc) | the components below | `Open`, `Close`, `Put`, `Get`, `Delete`, `Sync` | `Entdb` |
| `SKIndex` (sk_index.cc) | file: `num_entries`, `num_free_entries`, entries; memory: `index_`, `free_entry_solts` | `Open`, `Get`, `Put`, `Delete`, `ExpandFile`, `Close` | `IndexFile`, `SKIndex` |
| `SkipList` (skiplist.hpp) | `level_`, nodes with `forward_` | `Search`, `Insert`, `Delete` | `SkipList` |
| `MemoryMgr` (memory_mgr.cc) | `set_fm_`, the free blocks by size | `Open`, `Allocate`, `Free` | `FreeList`, `MemoryMgr` |
| `FMBMgr` (fm_persistence_mgr.cc) | file: `num_pages`, `num_slots_free`, slots; memory: `map_fm_`, `free_slots_` | `AddBlock`, `UpdateBlock`, `DeleteBlock`, `ExpandFile`, `Open` | `FMBlocks`, `FMBMgr` |
| `DataPool` (data_pool.cc) | file: `size`, bytes | `Read`, `Write`, `ExpandMemory` | inside `Entdb` and `MemoryMgr` |
| `Version` (version.cc) | two counters in a file | `Open`, `CurVersion`, `IncVersion` | `Startup` |
| `SyncMgr` (sync_mgr.cc) | a file of process-shared mutexes and conditions; `data_`, which `mutexr` moves | `Open`, `mutexr`, `condr` | `SyncMgr`, `Startup` |

`Entdb::Put` asks the index whether the key is known. If it is and its extent is
large enough, the value is written over the old one and nothing else happens.
Otherwise the old extent, if any, goes to `MemoryMgr::Free`, a new one comes from
`MemoryMgr::Allocate` (which may grow the data pool and then frees the new
part), `SKIndex::Put` records it, and key and value are written to the pool.
`MemoryMgr` keeps two views of the free blocks: its own `set_fm_`, ordered by
size, and those of `FMBMgr`, a map by offset and the slots of the file. Calls
are direct and synchronous; what is shared is the mapped files, which outlive
the process.

What is hard here:

* *Kills.* A store to a shared mapping survives the process, so a process killed
  between any two stores leaves a file no operation would. `OpenFile` of the two
  file formats rebuilds the memory from it, and from two redundant sources: the
  header's counters and a scan.
* *Redundant state.* `set_fm_` against `map_fm_` against the slots; `index_`
  against the entries; the index's extents against the free blocks.
* *Use after erase.* `Free` reads map iterators it has erased.
* *Long legal call sequences* that corrupt something: merges, growth, second
  expansion, delete and insert in the skip list.
* *Ignored statuses* where one step of several fails.
* *Several processes.* The file locks are commented out, but the mutexes are
  process-shared and every Open looks at files another process may be making:
  `access` and `CreateFile` are two calls, and so are the read and the store of
  `IncVersion`.
* *Lengths.* Each `CreateFile` takes several steps, each `OpenFile` takes
  an existing file as it is, `Entdb::Open` looks at no status, and an `ExpandFile`
  changes the file, the header and the mapping one after the other, while other
  processes have the file mapped. What is touched beyond a file's end kills.

Within a process nothing is concurrent: `StartLoop`, `UpdateDS`, `flock` and the
mutex calls are commented out wherever live code would reach them, and no thread,
callback, message or timeout is left. The modules of the components are therefore
sequential, with kills between any two stores, and state no fairness: nothing
happens there without a call. What several processes do to each other is the
subject of `Startup`, which is also where something must eventually happen.

What makes each component correct:

* FMBMgr: memory and file list the same blocks; no used slot is taken again; a
  restart loses no block and revives none; a kill costs at most the block it was
  about.
* MemoryMgr: extents handed out overlap neither each other nor the free ones and
  stay inside the pool; no call loses bytes; growing the pool suffices.
* SKIndex: memory and file hold the same records; no record is lost or changed
  by another key's Put; there is an entry to take when the header says so.
* SkipList: Search finds what was inserted and not deleted; the levels are sorted.
* Entdb: different keys never share bytes; Get returns the last value put.
* Open: it ends, with an open database; no process stores over what another has
  stored; the objects of SyncMgr are inside their file and apart.
* The files' lengths: no file is shorter than its header says or than anyone has
  mapped it.
* Version: the numbers handed out grow.

## The modules

Operators over records hold the algorithms; a state machine on top of each says
who calls them and when the process is killed. An operator `...Cuts` is the set
of files that an operation can leave when it is killed, one for each store.

**FMBlocks, FMBMgr** - the free-block file. `fmb` is the open manager: header
fields, the slot array `freememory_`, `map_fm_`, `free_slots_`. `AddBlock`,
`UpdateBlock`, `DeleteBlock`, `ExpandFile` and `OpenFile` follow the functions
store by store. The actions are the three calls, `Reopen`, and a kill in each.
A client adds or moves a block only to an offset no block has.

**FreeList, MemoryMgr, Allocator** - the allocator over FMBlocks. `mem` holds the
manager `fb`, `set_fm_` and the pool size. `Free` is AddBlock, the backward
merge, then the forward merge; `Allocate` is best fit, growth, split or whole
block. What a read of an erased map node returns is a choice (`HeapReuse`):
`updated` is what a last-in first-out heap such as glibc's gives, `deleted` and
`other` are the remaining outcomes. `live` is what the client holds; it frees
an extent once. `Allocator` is the abstract specification: extents of a growing
pool, disjoint and large enough.

`sound` says that no entry of `set_fm_` that is not a block has been handed out
and no split was torn by a kill. Both really happen (the first is the run
`mm_merge`, the second any kill between `UpdateBlock`'s two stores) and after
either the file can list bytes as free that are in use. The properties are
stated while `sound` is true and exploration stops when it turns false, so they
show that these two are the *only* ways to overlapping extents. A restart
rebuilds `set_fm_`, so stale entries alone do not end `sound`.

**SkipList, KeyMap** - the skip list node by node: `hasNode_`'s walk, `Insert`'s
and `Delete`'s pointer updates, and `level_`, which the code uses as an index in
one place and as a count in another. A new node's height is any number, random
in the code. `KeyMap` is what the index expects: a map in which the first value
inserted for a key stays (`hasNode_` overwrites its argument).

**IndexFile, SKIndex, IndexStore** - the index file. `index_` is a map, as KeyMap
says. `EmptyKey` and `TornKey` are what a kill inside `writeEntry` leaves of a
key; the empty key is not inserted by `OpenFile`'s scan while the list is empty,
since it equals the key of `nil_` (`Indexed`). When `ftruncate` refuses to make
the file longer, `ExpandFile` drops the status it makes and goes on: the header
counts entries the file does not hold (`refused`), the first access to one of
them kills the process, and so does the scan of every later Open (`up` stays
false). `IndexStore` is the abstract
specification: a key keeps its first extent for ever, a kill adds at most one
record, complete or cut short.

**Entdb** - the composition of IndexFile, FreeList and the bytes of the pool.
`PutInPlace` and `PutExtent` are the two branches of `Put`; `PutUnallocated` is
the Put that goes on after a growth that failed; there is a kill in the
in-place write, in Free, in the growth, in Allocate, in `SKIndex::Put` and in the
writes. `said` is the value each key should have. `gone` are the keys whose
record is not (or no longer) of an extent of theirs: deleted ones, those that
outgrew their extent (the index keeps the old record), those whose record was
cut. With `ReuseGone = FALSE` such a key is left alone from then on; using it
again writes into or frees bytes that may be another key's, which is what the
findings about Put and Delete come to. What the passing run shows is that no
*other* key is ever harmed by any of it, and that a call loses at most one extent of
the pool (`LossBounded`).

**SyncMgr, Startup** - `Entdb::Open` step by step, by several processes, and what
the open database does to the lengths of the files. `SyncMgr` holds the byte
offsets `mutexr` and `condr` return.

In `Startup` a file is its length (`len`), the length its header says (`says`) and
whether something has been stored in it since it was made (`used`). A length is the
step that leads to it: 0 no file, 1 an empty one, 2 its first page, 3 what
`CreateFile` makes of a file with a header, and each expansion leads to a greater
one. `view` is how much of each file a process has mapped; 0 is nothing, and
`HeaderLength` what is left of a mapping while, or because, its data part is unmapped.

* `Access`, `Make` (a step of `CreateFile`, from the lists in `Makes`), `Map` and `Advance`
  are Open; `OpenNeeds` is what each `OpenFile` touches. `Fail` is an `open` or `ftruncate`
  that returns an error: the component is left unmapped and Open goes on.
* `Use` stands for the stores of Put and Delete. `Grow`, `GrowTruncate`, `GrowStore` are the three
  `ExpandFile` (unmap; `ftruncate`; map, and store the length in the header), with
  `GrowRefused` for an `ftruncate` that fails: the index goes on as if it had
  not, the pool and the free blocks stay unmapped. `Grow` unmaps what the header
  says now, which another process may have changed.
* `IncRead` and `IncStore` are the two halves of `IncVersion`.
* `Fault` is a process that dies because it touches what is not mapped or not in the
  file, `Kill` strikes anywhere, `Exit` is the end of an orderly process.

`objects` is what a process got from SyncMgr. The order in which the arguments of
`SKIndex::Open` are evaluated is the compiler's (`MutexFirst`), and decides where its
condition is. A SyncMgr that could not open or make its file has no `data_`, and gives
out nothing that is a place in a file. `failed`, `cut`, `refused`, `raced`, `crowded`, `lost`,
`clash` and `given` are history, by which the properties say what it takes for things to go wrong.

In `FMBMgr` `MaxPages`, in `SKIndex` and `Entdb` `MaxEntries`, in `SkipList`
`MaxHeight` are bounds, in `MemoryMgr` and `Entdb` `MaxPages` of the free-block file
(`MayAdd`); `MaxPool` is the size beyond which `ftruncate` fails.

## The runs

| run | instance | shows |
|---|---|---|
| `fmb` | 2 slots, 3 offsets, 2 sizes, one expansion | all FMBMgr invariants and that a call, completed or killed, disturbs at most one block |
| `fmb_second_expand` | 1 slot, two expansions | violation: used slots among the free ones |
| `mm` | pool of 2 growing to 8 or 14 bytes, requests 1 and 8, one slot expanded to four, every outcome of the reads of erased nodes | NoOverlap, NeverOutOfMemory, LossBounded, SetAgreesUnlessMerged, ImplementsAllocator |
| `mm_merge` | as `mm` | violation: entries of `set_fm_` overlap after a merge |
| `skiplist` | 4 keys, 2 values, heights 1 to 3 | levels sorted and complete, `level_` near the top, searches stay on levels whose successors are set, implements KeyMap |
| `skiplist_delete` | 3 keys, heights 1 and 2, any height at any time | violation: a key in the list is not found |
| `skindex` | 3 keys, 2 extents, 1 entry expanded to 2 and 4, any expansion refused | memory and file agree, the file holds the entries it is opened with, implements IndexStore |
| `skindex_kill` | the same keys | violation: an index that was killed inside `writeEntry` and opened again counts a free entry and has none |
| `entdb` | 3 keys, values of 1 and 3 bytes, pool 2 to 8, 2 entries expanded to 4 | ExtentsApart, ReadsBackToLength, LossBounded |
| `entdb_reput` | 2 keys | violation: Get does not return the last value |
| `entdb_delete` | 2 keys | violation: a deleted key is still known |
| `startup` | 2 processes, two events (kills, failures, races for a file, expansions), lengths to 5, version numbers to 2, objects of 40 and 48 bytes | LostOnlyIfRaced, ObjectsInFile, HalfMadeForEver, FaultsExplained, VersionsGrow, OpenSucceeds |

Why these bounds reach the cases: in `fmb` the third block forces an expansion,
with deleted and used slots on both sides of the boundary, and every kill can be
followed by another. In `mm` the pool grows once, from a size where a request of
8 needs the rule for large requests and a request of 1 the quadrupling, and a
second growth is refused; three extents suffice for a block with neighbours on
both sides; a one-slot page makes growth of the pool and of the free-block file
coincide. In `skiplist` four keys give a node between two others on every one of
three levels, and one key more to insert or delete. In `skindex` the file is
expanded when full and when only the header says so. In `entdb` the pool of 8 is
grown once, filled by two or three keys, fragmented by deletes and reused by a
third key; the next growth fails. Its free-block file has 8 slots and is never
expanded: expansion under the allocator is the business of `mm`.

In `startup` `MaxEvents` bounds the kills, the failing calls, the files opened while another
process makes them, and the expansions, together. Two of them are what each hazard needs: an
expansion and a kill inside it, an expansion refused, a file raced for and then
expanded under the slow maker, two expansions at the same time or one after the other; starts, exits and the
deaths that follow are not counted. `MaxLength` is two expansions beyond what CreateFile makes, `MaxVersion` the two
numbers two overlapping calls need. The version file is never expanded, so the constraint
`FewWithNumbers` leaves out states with two events after a number was given. The object sizes are glibc's on x86-64.

`startup` is the only run under fairness: weak fairness of each process's `Run`,
the steps its code takes by itself once Open, IncVersion or an expansion has begun. The
operating system's scheduler justifies it, since no step of Open waits for
another process. Nobody is obliged to start, to call Put or IncVersion, or to
exit, and kills and failures may come or not. `OpenSucceeds` is the liveness
property: an Open that has begun ends with all five files mapped, unless it was killed, a
call of its own failed, or one of the three files with a header was half-made, raced for, badly
expanded, or the directory was.

The views of `MCMemoryMgr` and `MCEntdb` leave out which slot holds a block,
what deleted slots contain, and the bytes nothing will read before they are
written; no later behaviour depends on them except through which slot is taken
next. The constraint `Sound` stops at unsound states, see above.

`skiplist` explores Inserts of a node taller than `level_` only while `level_`
is the number of levels in use (`AnyHeight = FALSE`): otherwise the defect of
`skiplist_delete` strikes. The constant names that condition and the two runs
differ in it. `MaxHeight` is below `MAX_LEVEL` in `skiplist`, so that every level a
search can start from is one of the header's; with `MaxHeight = MAX_LEVEL` TLC finds
`SearchStaysOnLevels` violated (next section).

Each property of a passing run has a seeded bug in the module of the code it is
about (`..._StaysFree`, `..._NotMarked`, ...), with which TLC finds it violated.

## What disagrees with the documentation or is wrong

1. `fmb_second_expand`: `ExpandFile` quadruples the slots and doubles
   `num_pages`, from which the next expansion computes the number of slots there
   were, so used slots become free (fm_persistence_mgr.cc:235).
2. `mm_merge`: a backward merge leaves the previous block's old entry in
   `set_fm_` and adds one of a wrong size (memory_mgr.cc:190).
3. `skiplist_delete`: `level_` is a count in `Insert` and an index in `Delete`;
   the list comes apart (skiplist.hpp:82). Only `SKIndex::Delete` calls it, which
   Entdb does not call.
4. `skindex_kill`: a kill in `writeEntry` before `num_free_entries` is decreased, then a
   restart: the header counts a free entry, there is none, and the next Put of a new key takes
   `begin()` of an empty set (sk_index.cc:193, :77).
5. `entdb_reput`: the size and place of a key's second value are never recorded
   (sk_index.cc:72, entdb.cc:45). A second value that needs a longer extent gets one that
   nothing records: `LossBounded` counts it as lost.
6. `entdb_delete`: Delete does not delete the index record (entdb.cc:106, :111).

Other behaviour that no document or test contradicts:

* A node of `MAX_LEVEL` levels makes every later search start by following
  `header_->forward_[MAX_LEVEL]`, which is `NULL` (skiplist.hpp:187). `rand_` has a
  fixed seed; the first node of that height is the 242740028th.
* `mutexr` moves `data_` (sync_mgr.cc:23), so the mutex the index gets is at byte
  144, and a `condr(FM)` after it at 192. `CreateFile` has initialised three
  conditions from byte 0 and three mutexes from byte 120, over the third
  condition (sync_mgr.cc:93): from the first call of `mutexr` on, no object that is
  handed out is one that was initialised. All of them lie inside the file and the
  two conditions are apart (`ObjectsInFile`).
* A file whose making was cut before it had its header (index and free blocks: before its
  last step) is never completed nor made again (`HalfMadeForEver`). An index, a
  free-block file or an empty data file like that stops every Open until somebody removes it.
  An empty version file does not stop Open, it kills the first process that calls `IncVersion`;
  an empty sync file kills nobody, since nothing live touches the objects. A data file that
  has its header opens; a Write kills the process unless the pool is grown
  first, which also completes the file (data_pool.cc:92).
* An expansion of the index that `ftruncate` refuses (sk_index.cc:330), or two at the same time
  (:352), make the index unopenable for ever.
* A `CreateFile` that another process has overtaken stores over the file and cuts off what
  it was expanded by (`LostOnlyIfRaced` says when).
* When `SyncMgr` cannot open its file, `mutexr` and `condr` compute with a pointer that was never
  set (sync_mgr.cc:70-72, :83-90).
* `Entdb::Open` returns OK whatever its components returned (entdb.cc:87-98).

## The proofs

`FMBMgrProofs` proves, for every page and slot size, every set of offsets and
sizes, every initial block:

* `TypeCorrect`: `Spec => []TypeOK`
* `MemoryMatchesFile`: `Spec => []SlotsAgree`
* `NoSlotTakenTwice`: `Spec => []FreeSlotsAreFree`
* `SlotAlwaysAtHand`: `Spec => []SlotAtHand`
* `NothingLostOnRestart`: `Spec => []RestartLosesNothing`
* `OthersStay`: `Spec => OneBlockDisturbed`

under `MaxPages \in 1 .. 2`, that is for executions with at most one expansion:
finding 1 is that they fail at the second. The assumptions are
`FileAssumption` (a page holds at least one slot) and `ClientAssumption`
(blocks are not empty), both evaluated by the runs.

None of these is inductive. The inductive invariant `Good` adds

* that positions of `map_fm_` and used slots are in bijection (`MapOK`);
* that the header's count is at most the number of slots of `free_slots_`
  *it may count*: a kill leaves it too low, never too high;
* that as long as the header says one page, only slots of the first page are in
  use or counted. A kill inside `ExpandFile` leaves an array that has grown under
  a header that has not; the next expansion makes every slot beyond the first
  page free again, which is harmless exactly because none is used.

`FileOK` is the part of `Good` that speaks of the file. The argument: every
operation takes `Good` to `Good` (`AddGood`, `UpdateGood`, `DeleteGood`,
`ExpandGood`), every cut of an operation on a `Good` manager is `FileOK`
(`...CutsOK`), `Good` implies `FileOK` (`GoodFile`), and `OpenFile` takes `FileOK`
to `Good` (`OpenGood`). Each action of `Next` is one of these or two in a row
(`NextGood`); `AlwaysGood` is the invariant, and `GoodType`, `GoodAgrees`,
`GoodCount`, `GoodReopens` read the properties off it.

`OthersStay` needs no more than `Good`: between two good managers, a call touches
the slot of one block (`SlotStays`, `OtherSlot`), an expansion copies the used ones,
and opening reads them all back (`NextKeeps`).

`MemoryMgrProofs` proves of the allocator, for every page, slot, alignment and
pool size, every set of requests and every outcome of the reads of erased nodes,
again for executions that expand the free-block file at most once:

* `ValuesApart`: `Spec => []NoOverlap`
* `GrownPoolSuffices`: `Spec => NeverOutOfMemory`
* `Implements`: `Spec => ImplementsAllocator`

The inductive invariant `ManagerGood` says, as long as `sound` holds: the
free-block manager is `Good`; the free blocks and the extents handed out are
pairwise apart and inside the pool (`Sep`); and every entry of `set_fm_` starts
inside the pool. The last part is all that is known of stale entries, whose
lengths may be wrong: best fit compares them with the others, and finds at least
the part the pool has just grown by.
`NoOverlap` alone is not inductive because a merge or a split is only safe if the
slots of the file, the map and `live` are one partition of the pool. `FreeGood`,
`FreeCutsGood` and `TakeGood` show that the calls and their cuts keep it,
`PoolCovers` that a grown pool holds the request. What the free-block file does is
taken from the lemmas of `FMBMgrProofs`, through the instance `F`. The lemmas about
`Free`, `Allocate` and their cuts are in `FreeListProofs`, which speaks of a record `m`
and any set of extents taken from the pool, so that the proofs about `Entdb` use them too.

* `LosesAtMostOneExtent`: `Spec => LossBounded`
* `OnlyMergesDisagree`: `Spec => SetAgreesUnlessMerged`
* `TypeCorrect`: `Spec => []TypeOK`

`LossBounded` needs the other half of separation: which bytes the free blocks and the
extents *cover* (`BytesOf`). `TakeCovers` and the lemmas beside it in `FreeListProofs` say what each call and each of
its cuts does to that set: a merge keeps it, although two blocks become one; Allocate
takes from it exactly the bytes it hands out; a kill leaves it as it is or takes one extent
out of it (`KeepsOrLosesOne`).
`SetAgreesUnlessMerged` needs what `set_fm_` holds after each branch of `Free` and
`Allocate`, entry by entry.
Both, like `TypeOK`, speak of the states in which `sound` holds: a stale entry that
is handed out makes the records of file and client contradict each other, and
nothing can be said of their sizes then.

`EntdbProofs` proves of the whole database, for every set of keys and values, every
size, every outcome of the reads of erased nodes and of the uninitialised offset, if
the free-block file is expanded at most once and a key of `gone` is not used again
(`Bounded`, the conditions of the run `entdb`):

* `TypeCorrect`: `Spec => []TypeOK`
* `OwnersAgree`: `Spec => []ExtentsApart`
* `ReadsBackUpToLength`: `Spec => []ReadsBackToLength`

The invariant `DatabaseGood` is the conjunction of the components' invariants and
of what ties them together, as long as `sound` holds: the index is `Good` and none of
its entries lies beyond its file; the memory manager is good next to the extents of the
settled keys, which start at different bytes and have room for key and value; and the
bytes of each key that was put are those of its value, as far as the length in its record
goes. Neither property is inductive by itself. That a new extent is apart from the others
rests on the manager's invariant, *with the index's records as its client*; that the
record of another key survives rests on the index's; that the bytes survive rests on
both. Between `Allocate` and `SKIndex::Put` a kill leaves an extent that neither file
lists, which is why the invariant says "apart" and not "together the whole pool".
`StepGood` states what every call and every kill has in common, so that the invariant is
shown once for it and not for each of the eleven actions.

`EntdbLossProofs` proves, under the same conditions:

* `LosesAtMostOneExtent`: `Spec => LossBounded`

A step concerns one key at most. The bytes of the other settled keys stay theirs, so what
the step can lose was free or that key's before it (*covered*) and is neither after it
(*kept*). `OfferedCovers` says that giving the old extent back and growing the pool
leaves everything covered that was, `TakenCovers` that Allocate takes out exactly the extent
it returns, and `TookLoses` and the lemmas named for the actions that only this extent can
be missing from what is kept: if the index records it, as it does for a new key, nothing
is. A second extent cannot go in the same step: wherever the kill falls, the parts of Put
that were complete by then had left everything covered.

`SKIndexProofs` proves of the index, for every set of keys and extents and any
number of expansions:

* `TypeCorrect`, `FileAndMemoryAgree` (`IndexMatchesFile`), `FileGrowsOnlyWhenFull`
  (`HeaderNeverShort`), `HeaderWithinFile` (`FileHoldsEntries`)
* `Implements`: `Spec => ImplementsIndexStore`

The invariant: the used entries come first and the rest is zero, the header counts
at least the free entries there are, and `index_` is what a scan of the file
yields. Used entries come first because Put takes the least free one and nothing
live frees any; without that a scan, which lets the first of two records of a key
win, could differ from the list in memory.

`StartupProofs` proves of Open and the expansions, for any number of processes, kills,
failures, races and expansions:

* `TypeCorrect`, `NothingLostWithoutRace` (`LostOnlyIfRaced`), `NumbersGrow`
  (`VersionsGrow`), `EveryFaultExplained` (`FaultsExplained`),
  `HalfMadeStaysHalfMade` (`HalfMadeForEver`)
* `ObjectsStayInside`: `ObjectsInFile`, if `2 * CondSize <= 3 * MutexSize`. Both
  common sizes meet this; without it `condr(FM)` after `mutexr` leaves the file.
* `AloneLosesNothing`: with one process nothing is ever lost.

The invariant has the parts: a maker nobody has raced with is alone with its file, whose length
is the step it has come to (`MakerAlone`); what a process has done with a file shows in its length
(`Reached`), and no step but an expansion's `ftruncate` or a late `CreateFile` makes a file
shorter, neither below what `CreateFile` makes (`KeepsLength`); a file shorter than that has a maker or
was cut (`HalfMadeExplained`); a file that nothing has upset is at least as long as its header says, nobody has
mapped more than that, and between an expansion's `ftruncate` and its store
the file has the length the header is about to say (`WellSized`); only a call that failed
leaves a process without a mapping it should have (`MappedOrFailed`); and the counter is the number
given last unless calls overlapped or the file was raced for (`CounterIsGiven`).
`FaultsExplained` needs them all: the first three for files being made, `WellSized` for what `OpenFile` scans
and for mappings of a file another process expands, `MappedOrFailed` for the rest. Each is kept by
every kind of step: those of `CreateFile` (`MakeActs`), those of `ExpandFile` (`Grows`), access, and all others
(`Passive`).

`SkipListProofs` proves of the skip list, for every set of keys and values, every
number of levels and every choice of heights:

* `TypeCorrect`, `LevelsSorted` (`LevelsLinked`), `StartsNearTop` (`LevelNearTop`),
  `NodesAreFound` (`InsertedIsFound`), `SearchesDefined` (`SearchStaysOnLevels`)
* `Implements`: `Spec => ImplementsKeyMap`

under `Bounded`: a node taller than `level_` is only inserted while `level_` is the number
of levels in use, as in the run `skiplist`, and no node has `MAX_LEVEL` levels. The first
is finding 3; without the second `level_` may reach `MAX_LEVEL`, from where a search goes
nowhere (`SearchStaysOnLevels` says it does not).

The invariant `ListGood`: the nodes have the shape the code gives them (`ShapeOK`), on
each level every node's successor is the next one on that level (`LinksOK`), and `level_`
is the highest level in use or the one above it (`LevelsOK`). `hasNode_` is a recursive
function in the model, and there is no induction to prove what it returns. `PrevIs` does
without: it names the function's values (on each level, the last node before the key), shows
that they solve its equation (`WalkSolves`, `PrevSolves`), and that two solutions cannot
differ, since they would differ at a greatest place, where one step of the walk leads to a
greater one. From there `LinkIn` and `LinkOut` say what inserting and removing a number
does to "the next one on its level", and `LinkedIs` and `CutIs` that the pointer updates do
just that on the levels below the node's height. `TopIs` turns the guard's count of
levels into a statement about the links. `Found` gives the refinement its map.

Every safety and action property of a passing run is stated by a theorem.
Model-checked only: `OpenSucceeds`, since liveness under fairness is beyond the
prover; and what the violation runs refute. The proofs exclude what the findings
say fails: a second expansion of the free-block file (finding 1), stale entries
handed out and torn splits (finding 2), inserts above a lowered `level_` (finding 3), nodes of
`MAX_LEVEL` levels,
keys used again after their extent was given back (findings 5 and 6).

## Not modelled

* `SniffingLoop`, `onFileChange`, `UpdateDS`, `StartLoop` of MemoryMgr and SKIndex,
  and FMBMgr's record locks: no live code calls them. `Close` of both calls
  `pthread_kill` and `pthread_join` on a thread id that was never set; what that
  does is undefined, and a restart is modelled as what a Close that returns, or a
  kill, leaves.
* `SKIndex::Delete` and `recycleEntry`: not called by Entdb, and `recycleEntry`
  copies a `std::string` object out of an entry's raw bytes.
* `Version::CurVersion` and `Sync`, which change nothing; the version fields of
  entries and blocks, which are 0 since `cur_v_` is 0 in every live caller.
* What `pthread_mutex_init` and `pthread_cond_init` store, waiting and signalling:
  nothing live waits.
* Power failure (pages written back in any order). A kill of the process keeps
  every store; `Sync` only calls `msync`.
* Failures of `mmap` and `write`, and of `mkdir` for another reason than a faster
  process. `open` and `ftruncate` fail in `Startup`, `ftruncate` of the index in
  `SKIndex`, of the pool in `MemoryMgr` and `Entdb`; in the free-block file it
  leaves the files as a kill just before it does, and what follows is in `Startup`.
* In `Startup`: how full a file is (an expansion may begin whenever the file is
  mapped), and what a pointer that was never set happens to point to. An access
  through it kills the process.
* Descriptors that CloseFile or an expansion leaves open.
* What `PutUnallocated`'s Write does before it kills the process. The pool is
  unmapped at that moment, so the access faults; that `off`, which was never
  initialised, happens to reach another mapping is not modelled. `Garbage` is what
  it may hold when it is recorded.
* Keys longer than an entry's 48 bytes; the empty key given by a client.
* Status, util's logging, the test programs, the Makefile.

## Plan

Done: every module has its runs, and every component's module its proofs.

Left: `SKIndex::Delete`, once `recycleEntry` copies the key instead of a `std::string`
object.
