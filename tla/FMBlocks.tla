------------------------------ MODULE FMBlocks ------------------------------
(***************************************************************************)
(* The free-block file of EntDB (fm_persistence_mgr.h, .cc) as operators   *)
(* over one record, so that a handler that calls FMBMgr's methods several  *)
(* times (MemoryMgr::Free) composes them by application.                   *)
(*                                                                         *)
(* A record f stands for one open FMBMgr.  Shared with the file by mmap:   *)
(*   num_pages, num_slots_free   the header page;                          *)
(*   freememory_   the slot array; its domain 0 .. n-1 is the part of the  *)
(*                 file that header_->size_file says is slots.             *)
(* In the process only, rebuilt by OpenFile:                               *)
(*   map_fm_       block offset -> [pos, size], the blocks in use;         *)
(*   free_slots_   slots AddBlock may take.                                *)
(* Left out: versions (every live caller passes 0), num_slots_total (never *)
(* read) and pos2fm_ (read by the dormant UpdateDS only).                  *)
(*                                                                         *)
(* A process that dies leaves the stores it has made in the file.  The     *)
(* ...Cuts operators are the files an operation leaves if it is killed     *)
(* half way, one for each store that OpenFile could tell from the one      *)
(* before; OpenFile of a cut is the state after the restart.               *)
(***************************************************************************)
EXTENDS Naturals, FiniteSets, FiniteSetsExt, Functions

CONSTANTS
  PageSize,  \* getpagesize()
  SlotBytes  \* sizeof(fm_block_t)

ASSUME FileAssumption ==
  /\ PageSize \in Nat \ {0}
  /\ SlotBytes \in 1 .. PageSize

\* How many slots fit in so many pages: "size / sizeof(fm_block_t)".
SlotsIn(pages) == (pages * PageSize) \div SlotBytes

\* m with key k bound to v, and m without key k (map[k] = v, map.erase(k)).
Bind(m, k, v) == [x \in DOMAIN m \cup {k} |-> IF x = k THEN v ELSE m[x]]
Unbind(m, k) == [x \in DOMAIN m \ {k} |-> m[x]]

\* The least element of a nonempty set of numbers (*set.begin()).
Least(S) == CHOOSE x \in S : \A y \in S : x <= y

ZeroSlot == [offset |-> 0, size |-> 0, del |-> 0]

\* Seeded bug: sizes are not looked at, so a never-used slot reads as a block.
InUse_AnySize(slot) == slot.del # 1

\* OpenFile takes a slot for a block unless it is deleted or has no size.
InUse(slot) == slot.del # 1 /\ slot.size # 0

-----------------------------------------------------------------------------
(* Creating, opening and growing the file.                                 *)

\* The file CreateFile writes: one page of slots, slot 0 the whole data pool.
CreateFile(size_of_data, init_offset) ==
  [num_pages      |-> 1,
   num_slots_free |-> SlotsIn(1) - 1,
   freememory_    |-> [i \in 0 .. SlotsIn(1) - 1 |->
                         IF i = 0 THEN [offset |-> init_offset,
                                        size   |-> size_of_data - init_offset,
                                        del    |-> 0]
                         ELSE ZeroSlot]]

\* OpenFile's scan of the slot array.  Slots are read in order, so the last
\* slot with an offset is the one map_fm_ keeps.
OpenFile(file) ==
  LET slots == file.freememory_
      used  == {i \in DOMAIN slots : InUse(slots[i])}
      posOf(o) == CHOOSE i \in used : /\ slots[i].offset = o
                                      /\ \A j \in used : slots[j].offset = o => j <= i
  IN  [num_pages      |-> file.num_pages,
       num_slots_free |-> file.num_slots_free,
       freememory_    |-> slots,
       map_fm_        |-> [o \in {slots[i].offset : i \in used} |->
                             [pos |-> posOf(o), size |-> slots[posOf(o)].size]],
       free_slots_    |-> DOMAIN slots \ used]

\* The array remapped over a file of num_slots_new * PageSize bytes: the bytes
\* ftruncate adds are zero.
GrownSlots(slots, num_slots_new) ==
  [i \in DOMAIN slots \cup 0 .. (num_slots_new * PageSize) \div SlotBytes - 1 |->
     IF i \in DOMAIN slots THEN slots[i] ELSE ZeroSlot]

\* Seeded bug: the whole array is taken for new slots, not only its new part.
ExpandFile_AllSlotsNew(f) ==
  LET num_slots_cur == SlotsIn(f.num_pages)
      num_slots_new == num_slots_cur * 4
  IN  [f EXCEPT !.num_pages      = @ * 2,
                !.num_slots_free = @ + (num_slots_new - num_slots_cur),
                !.freememory_    = GrownSlots(@, num_slots_new),
                !.free_slots_    = @ \cup 0 .. num_slots_new - 1]

\* Slots are quadrupled and num_pages doubled, so from the second expansion on
\* num_slots_cur is less than the number of slots there already are.
ExpandFile(f) ==
  LET num_slots_cur == SlotsIn(f.num_pages)
      num_slots_new == num_slots_cur * 4
  IN  [f EXCEPT !.num_pages      = @ * 2,
                !.num_slots_free = @ + (num_slots_new - num_slots_cur),
                !.freememory_    = GrownSlots(@, num_slots_new),
                !.free_slots_    = @ \cup num_slots_cur .. num_slots_new - 1]

\* size_file is stored first, then num_pages, then num_slots_free.
ExpandFileCuts(f) ==
  LET g == ExpandFile(f)
      resized == [f EXCEPT !.freememory_ = g.freememory_]
  IN  {f, resized, [resized EXCEPT !.num_pages = g.num_pages], g}

-----------------------------------------------------------------------------
(* The operations on blocks.                                               *)

\* The manager AddBlock takes a slot from: grown first if the header counts no
\* free slot.
WithRoom(f) == IF f.num_slots_free = 0 THEN ExpandFile(f) ELSE f

\* Seeded bug: the slot taken is not erased from free_slots_.
AddBlock_SlotStaysFree(f, offset, size) ==
  LET g == WithRoom(f)
      pos == Least(g.free_slots_)
  IN  [g EXCEPT !.num_slots_free   = @ - 1,
                !.map_fm_          = Bind(@, offset, [pos |-> pos, size |-> size]),
                !.freememory_[pos] = [offset |-> offset, size |-> size, del |-> 0]]

\* Seeded bug: the header's count of free slots is not decreased.
AddBlock_Uncounted(f, offset, size) ==
  LET g == WithRoom(f)
      pos == Least(g.free_slots_)
  IN  [g EXCEPT !.free_slots_      = @ \ {pos},
                !.map_fm_          = Bind(@, offset, [pos |-> pos, size |-> size]),
                !.freememory_[pos] = [offset |-> offset, size |-> size, del |-> 0]]

AddBlock(f, offset, size) ==
  LET g == WithRoom(f)
      pos == Least(g.free_slots_)
  IN  [g EXCEPT !.free_slots_      = @ \ {pos},
                !.num_slots_free   = @ - 1,
                !.map_fm_          = Bind(@, offset, [pos |-> pos, size |-> size]),
                !.freememory_[pos] = [offset |-> offset, size |-> size, del |-> 0]]

\* The slot is copied in address order (offset, size, del): until the copy is
\* complete it has no size or is still deleted, so OpenFile sees it free.
AddBlockCuts(f) ==
  LET g == WithRoom(f)
  IN  (IF f.num_slots_free = 0 THEN ExpandFileCuts(f) ELSE {f})
        \cup {[g EXCEPT !.num_slots_free = @ - 1]}

\* map_fm_[off] creates an entry for slot 0 when there is no such block.
SlotOf(f, off) == IF off \in DOMAIN f.map_fm_ THEN f.map_fm_[off].pos ELSE 0

UpdateBlock(f, off, newoff, size) ==
  LET pos == SlotOf(f, off)
  IN  [f EXCEPT !.map_fm_ = Bind(Unbind(@, off), newoff, [pos |-> pos, size |-> size]),
                !.freememory_[pos] = [@ EXCEPT !.offset = newoff, !.size = size]]

\* Offset and size are two stores: between them the slot describes a block at
\* the new offset with the old size.
UpdateBlockCuts(f, off, newoff) ==
  {f, [f EXCEPT !.freememory_[SlotOf(f, off)].offset = newoff]}

\* Seeded bug: the slot is not marked deleted in the file.
DeleteBlock_NotMarked(f, off) ==
  IF off \in DOMAIN f.map_fm_
  THEN [f EXCEPT !.map_fm_        = Unbind(@, off),
                 !.num_slots_free = @ + 1,
                 !.free_slots_    = @ \cup {f.map_fm_[off].pos}]
  ELSE f

\* The slot keeps its offset and size; only its del mark says it is free.
DeleteBlock(f, off) ==
  IF off \in DOMAIN f.map_fm_
  THEN LET pos == f.map_fm_[off].pos
       IN  [f EXCEPT !.map_fm_              = Unbind(@, off),
                     !.freememory_[pos].del = 1,
                     !.num_slots_free       = @ + 1,
                     !.free_slots_          = @ \cup {pos}]
  ELSE f

DeleteBlockCuts(f, off) ==
  {f} \cup (IF off \in DOMAIN f.map_fm_
            THEN {[f EXCEPT !.freememory_[f.map_fm_[off].pos].del = 1]}
            ELSE {})

=============================================================================
