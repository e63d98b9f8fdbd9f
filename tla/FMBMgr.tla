------------------------------- MODULE FMBMgr -------------------------------
(***************************************************************************)
(* The free-block manager as a state machine: any client, any sequence of  *)
(* AddBlock, UpdateBlock and DeleteBlock calls, closing and reopening, and *)
(* a process killed in the middle of any of them.                          *)
(*                                                                         *)
(* Of its client it assumes what MemoryMgr respects as long as every block *)
(* is freed once: a block is added or moved to an offset that no block in  *)
(* the manager has, and no block is empty.                                 *)
(***************************************************************************)
EXTENDS FMBlocks

CONSTANTS
  Offsets,     \* the block offsets clients use
  Sizes,       \* the block sizes clients use
  SizeOfData,  \* size_of_data_, the data pool when the file is created
  InitOffset,  \* init_offset_, where its first block starts
  MaxPages     \* bound: no expansion of the file beyond this num_pages

ASSUME ClientAssumption ==
  /\ Offsets \subseteq Nat
  /\ Sizes \subseteq Nat \ {0}
  /\ InitOffset \in Offsets
  /\ SizeOfData - InitOffset \in Sizes

VARIABLE fmb  \* the open manager, see FMBlocks

-----------------------------------------------------------------------------

Init == fmb = OpenFile(CreateFile(SizeOfData, InitOffset))

\* Bound: an expansion would keep num_pages within MaxPages.
MayAdd == fmb.num_slots_free = 0 => fmb.num_pages * 2 <= MaxPages

Add(off, size) ==
  /\ off \notin DOMAIN fmb.map_fm_
  /\ MayAdd
  /\ fmb' = AddBlock(fmb, off, size)

Update(off, newoff, size) ==
  /\ off \in DOMAIN fmb.map_fm_
  /\ newoff \notin DOMAIN fmb.map_fm_ \ {off}
  /\ fmb' = UpdateBlock(fmb, off, newoff, size)

Delete(off) == fmb' = DeleteBlock(fmb, off)

\* Close, then Open of the same file.
Reopen == fmb' = OpenFile(fmb)

CrashInAdd(off) ==
  /\ off \notin DOMAIN fmb.map_fm_
  /\ MayAdd
  /\ \E file \in AddBlockCuts(fmb) : fmb' = OpenFile(file)

CrashInUpdate(off, newoff) ==
  /\ off \in DOMAIN fmb.map_fm_
  /\ newoff \notin DOMAIN fmb.map_fm_ \ {off}
  /\ \E file \in UpdateBlockCuts(fmb, off, newoff) : fmb' = OpenFile(file)

CrashInDelete(off) == \E file \in DeleteBlockCuts(fmb, off) : fmb' = OpenFile(file)

Next ==
  \/ \E off \in Offsets, size \in Sizes : Add(off, size)
  \/ \E off, newoff \in Offsets, size \in Sizes : Update(off, newoff, size)
  \/ \E off \in Offsets : Delete(off)
  \/ Reopen
  \/ \E off \in Offsets : CrashInAdd(off)
  \/ \E off, newoff \in Offsets : CrashInUpdate(off, newoff)
  \/ \E off \in Offsets : CrashInDelete(off)

Spec == Init /\ [][Next]_fmb

-----------------------------------------------------------------------------
(* Properties.  The code grows the file right once: with MaxPages = 2 all   *)
(* of them hold, the second expansion breaks FreeSlotsAreFree first.       *)

Slots == DOMAIN fmb.freememory_
Blocks == DOMAIN fmb.map_fm_

SlotType == [offset : Offsets \cup {0}, size : Sizes \cup {0}, del : {0, 1}]

TypeOK ==
  /\ fmb = [num_pages      |-> fmb.num_pages,
            num_slots_free |-> fmb.num_slots_free,
            freememory_    |-> fmb.freememory_,
            map_fm_        |-> fmb.map_fm_,
            free_slots_    |-> fmb.free_slots_]
  /\ fmb.num_pages \in 1 .. MaxPages
  /\ fmb.num_slots_free \in Nat
  /\ \E last \in Slots : Slots = 0 .. last
  /\ fmb.freememory_ \in [Slots -> SlotType]
  /\ Blocks \subseteq Offsets
  /\ fmb.map_fm_ \in [Blocks -> [pos : Slots, size : Sizes]]
  /\ fmb.free_slots_ \subseteq Slots

\* No slot AddBlock may take holds a block: free_slots_ "records the positions
\* of the free blocks" (fm_persistence_mgr.h:66).
FreeSlotsAreFree == \A off \in Blocks : fmb.map_fm_[off].pos \notin fmb.free_slots_

\* Memory and file describe the same blocks: each block of map_fm_ is a slot in
\* use with its offset and size, each slot in use is a block and is not in
\* free_slots_.  A delete, a move, an expansion or a crash that changes one side
\* only breaks it.
SlotsAgree ==
  /\ \A off \in Blocks :
       LET slot == fmb.freememory_[fmb.map_fm_[off].pos]
       IN  InUse(slot) /\ slot.offset = off /\ slot.size = fmb.map_fm_[off].size
  /\ \A i \in Slots :
       LET slot == fmb.freememory_[i]
       IN  InUse(slot) => /\ i \notin fmb.free_slots_
                          /\ slot.offset \in Blocks
                          /\ fmb.map_fm_[slot.offset].pos = i

\* Closing and opening the file gives back exactly the blocks that were there:
\* none lost, no deleted one resurrected.
RestartLosesNothing == OpenFile(fmb).map_fm_ = fmb.map_fm_

\* When the header counts a free slot AddBlock has one to take.  It dereferences
\* free_slots_.begin() on the word of the header, and a kill between the two
\* updates leaves them out of step; never the wrong way round.
SlotAtHand == fmb.num_slots_free <= Cardinality(fmb.free_slots_)

\* Every call, completed or killed, disturbs at most one of the blocks that were
\* there: all others survive it with their sizes.
OneBlockDisturbed ==
  [][\E off \in Offsets : \A x \in Blocks \ {off} :
       x \in Blocks' /\ fmb'.map_fm_[x].size = fmb.map_fm_[x].size]_fmb
=============================================================================
