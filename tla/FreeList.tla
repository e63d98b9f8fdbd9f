------------------------------ MODULE FreeList ------------------------------
(***************************************************************************)
(* MemoryMgr's handlers (memory_mgr.cc) as operators over a record m:      *)
(*   fb        the free-block manager fb_mgr_, see FMBlocks;               *)
(*   set_fm_   the same blocks ordered by size, a set of [offset, size];   *)
(*   pool      dp_->PoolSize(), bytes of the data pool.                    *)
(*                                                                         *)
(* Free's merges go on reading map nodes it has just erased.  What such a  *)
(* read returns depends on which of the erased nodes the allocation inside *)
(* UpdateBlock got back from the heap.  "reuse" names it:                  *)
(*   "updated"  the node of the block being enlarged (erased last; what a  *)
(*              last-in first-out heap such as glibc's gives);             *)
(*   "deleted"  the node of the block merged into it;                      *)
(*   "other"    neither, both keep what they held.                         *)
(***************************************************************************)
EXTENDS FMBlocks

CONSTANTS
  ALIGNMENT_DATA,  \* util.h
  KeepLimit,       \* the 1024 bytes of Allocate's rule for splitting
  SizeOfData,      \* bytes of the data pool when it is created
  MaxPool,         \* ftruncate fails for a data pool larger than this
  HeapReuse,       \* the outcomes of reading an erased map node
  MaxPages         \* bound: no expansion of the free-block file beyond this

ASSUME AlignAssumption ==
  /\ ALIGNMENT_DATA \in Nat \ {0}
  /\ KeepLimit \in Nat

ASSUME PoolAssumption ==
  /\ SizeOfData \in Nat \ {0}
  /\ MaxPool \in Nat
  /\ HeapReuse \subseteq {"updated", "deleted", "other"} /\ HeapReuse # {}

\* Seeded bug: rounds down.
align_size_Down(size, alignment_size) == (size \div alignment_size) * alignment_size

align_size(size, alignment_size) ==
  IF size % alignment_size = 0 THEN size
  ELSE (size \div alignment_size + 1) * alignment_size

Entry(off, size) == [offset |-> off, size |-> size]

\* What map_fm_ holds, as entries of set_fm_.
EntriesOf(fb) == {Entry(off, fb.map_fm_[off].size) : off \in DOMAIN fb.map_fm_}

\* Is entry e of set_fm_ a block of the file?
IsBlock(m, e) == e \in EntriesOf(m.fb)

\* The blocks as extents <<offset, size>>, and when two extents share no byte.
Ext(fb) == {<<off, fb.map_fm_[off].size>> : off \in DOMAIN fb.map_fm_}
Disjoint(e, f) == e[1] + e[2] <= f[1] \/ f[1] + f[2] <= e[1]

\* The bytes of the pool that an extent, or a set of them, covers.
Bytes(off, size) == off .. off + size - 1
BytesOf(extents) == UNION {Bytes(e[1], e[2]) : e \in extents}

\* Bound: AddBlock keeps the file within MaxPages.
MayAdd(fb) == fb.num_slots_free = 0 => fb.num_pages * 2 <= MaxPages

\* Open: set_fm_ is filled from map_fm_.
OpenMemory(file, pool) ==
  LET fb == OpenFile(file)
  IN  [fb |-> fb, set_fm_ |-> EntriesOf(fb), pool |-> pool]

-----------------------------------------------------------------------------
(* Free.                                                                   *)

\* Blocks off and next are neighbours in map_fm_, and off ends where next starts.
Touches(fb, off, next) ==
  /\ {off, next} \subseteq DOMAIN fb.map_fm_
  /\ off < next
  /\ \A x \in DOMAIN fb.map_fm_ : ~ (off < x /\ x < next)
  /\ off + fb.map_fm_[off].size = next

\* Seeded bug: the block that stays keeps its size.
MergeBlocks_NotEnlarged(fb, off, next) ==
  UpdateBlock(DeleteBlock(fb, next), off, off, fb.map_fm_[off].size)

\* Both merges: the block next is deleted and off enlarged by its size.
MergeBlocks(fb, off, next) ==
  UpdateBlock(DeleteBlock(fb, next), off, off,
              fb.map_fm_[off].size + fb.map_fm_[next].size)

MergeCuts(fb, off, next) ==
  DeleteBlockCuts(fb, next) \cup {DeleteBlock(fb, next), MergeBlocks(fb, off, next)}

\* Backward merge, cur into prev.  Only cur's entry is erased from set_fm_; the
\* size inserted is read through prev_it and cur_it after both were erased.
MergePrev(m, prev, cur, reuse) ==
  LET ps == m.fb.map_fm_[prev].size
      cs == m.fb.map_fm_[cur].size
      sum == CASE reuse = "updated" -> (ps + cs) + cs
               [] reuse = "deleted" -> ps + (ps + cs)
               [] OTHER             -> ps + cs
  IN  [m EXCEPT !.fb = MergeBlocks(@, prev, cur),
                !.set_fm_ = (@ \ {Entry(cur, cs)}) \cup {Entry(prev, sum)}]

\* Seeded bug: the entry the block had before the merge stays in set_fm_.
MergeNext_EntryStays(m, cur, next, reuse) ==
  LET cs == m.fb.map_fm_[cur].size
      ns == m.fb.map_fm_[next].size
  IN  [m EXCEPT !.fb = MergeBlocks(@, cur, next),
                !.set_fm_ = (@ \ {Entry(next, ns)}) \cup {Entry(cur, cs + ns)}]

\* Forward merge, next into cur: fbt_deleted is read through next_it and erased,
\* then fbt_cur is erased and fbt_new, read through cur_it, inserted.
MergeNext(m, cur, next, reuse) ==
  LET cs == m.fb.map_fm_[cur].size
      ns == m.fb.map_fm_[next].size
      fbt_deleted == IF reuse = "deleted" THEN Entry(cur, cs + ns) ELSE Entry(next, ns)
      fbt_cur == Entry(cur, cs)
      fbt_new == IF reuse = "updated" THEN Entry(cur, cs + ns) ELSE Entry(cur, cs)
  IN  [m EXCEPT !.fb = MergeBlocks(@, cur, next),
                !.set_fm_ = (@ \ {fbt_deleted, fbt_cur}) \cup {fbt_new}]

TryMergePrev(m, cur, reuse) ==
  IF \E prev \in DOMAIN m.fb.map_fm_ : Touches(m.fb, prev, cur)
  THEN MergePrev(m, CHOOSE prev \in DOMAIN m.fb.map_fm_ : Touches(m.fb, prev, cur),
                 cur, reuse)
  ELSE m

TryMergeNext(m, cur, reuse) ==
  IF \E next \in DOMAIN m.fb.map_fm_ : Touches(m.fb, cur, next)
  THEN MergeNext(m, cur,
                 CHOOSE next \in DOMAIN m.fb.map_fm_ : Touches(m.fb, cur, next), reuse)
  ELSE m

\* The block cur_it points to after the backward merge: off or the one before.
BlockOf(fb, off) ==
  IF off \in DOMAIN fb.map_fm_ THEN off
  ELSE CHOOSE x \in DOMAIN fb.map_fm_ :
         x < off /\ \A y \in DOMAIN fb.map_fm_ : y < off => y <= x

\* AddBlock, then both entries are merged with their neighbours where they touch.
Free(m, off, size, reusePrev, reuseNext) ==
  LET added == [m EXCEPT !.fb = AddBlock(@, off, size),
                         !.set_fm_ = @ \cup {Entry(off, size)}]
      back == TryMergePrev(added, off, reusePrev)
  IN  TryMergeNext(back, BlockOf(back.fb, off), reuseNext)

\* The files Free leaves when it is killed, with everything it has stored so far.
FreeCuts(fb, off, size) ==
  LET added == AddBlock(fb, off, size)
      prevs == {prev \in DOMAIN added.map_fm_ : Touches(added, prev, off)}
      back == IF prevs = {} THEN added ELSE MergeBlocks(added, Least(prevs), off)
      cur == BlockOf(back, off)
  IN  AddBlockCuts(fb) \cup {added}
        \cup (UNION {MergeCuts(added, prev, off) : prev \in prevs})
        \cup (UNION {MergeCuts(back, cur, next) :
                       next \in {n \in DOMAIN back.map_fm_ : Touches(back, cur, n)}})

-----------------------------------------------------------------------------
(* Allocate.                                                               *)

Fits(m, rsp_size) == {e \in m.set_fm_ : e.size >= rsp_size}

\* set_fm_.upper_bound: the smallest entry that fits, the last in the pool of
\* those (operator<, fm_persistence_mgr.h).
BestFit(m, rsp_size) ==
  CHOOSE e \in Fits(m, rsp_size) : \A x \in Fits(m, rsp_size) :
    e.size < x.size \/ (e.size = x.size /\ e.offset >= x.offset)

\* Seeded bug: the pool is quadrupled whatever was asked for.
PoolFor_AlwaysFourTimes(m, rsp_size) == m.pool * 4

\* The pool Allocate asks of ExpandMemory when nothing fits.
PoolFor(m, rsp_size) ==
  IF rsp_size > m.pool * 4 - m.pool THEN align_size(rsp_size + m.pool, PageSize)
  ELSE m.pool * 4

\* ExpandMemory has grown the pool; the new part is freed.
Grow(m, size_data_new, reusePrev, reuseNext) ==
  Free([m EXCEPT !.pool = size_data_new], m.pool, size_data_new - m.pool,
       reusePrev, reuseNext)

\* Seeded bug: an entry of exactly the size asked for is split, into nothing.
Splits_Exact(e, rsp_size) == e.size >= rsp_size

\* A block much larger than the request keeps its tail.
Splits(e, rsp_size) ==
  \/ e.size > rsp_size * 2
  \/ e.size > PageSize /\ e.size - rsp_size > KeepLimit

\* The size Allocate reports for entry e.
RspSize(e, rsp_size) == IF Splits(e, rsp_size) THEN rsp_size ELSE e.size

\* Seeded bug: the tail of a split block keeps the size of the whole block.
TakeBlock_TailTooLong(m, e, rsp_size) ==
  IF Splits(e, rsp_size)
  THEN LET tail == Entry(e.offset + rsp_size, e.size)
       IN  [m EXCEPT !.fb = UpdateBlock(@, e.offset, tail.offset, tail.size),
                     !.set_fm_ = (@ \ {e}) \cup {tail}]
  ELSE [m EXCEPT !.fb = DeleteBlock(@, e.offset), !.set_fm_ = @ \ {e}]

\* Seeded bug: a block handed out whole stays in the file.
TakeBlock_StaysInFile(m, e, rsp_size) ==
  IF Splits(e, rsp_size)
  THEN LET tail == Entry(e.offset + rsp_size, e.size - rsp_size)
       IN  [m EXCEPT !.fb = UpdateBlock(@, e.offset, tail.offset, tail.size),
                     !.set_fm_ = (@ \ {e}) \cup {tail}]
  ELSE [m EXCEPT !.set_fm_ = @ \ {e}]

TakeBlock(m, e, rsp_size) ==
  IF Splits(e, rsp_size)
  THEN LET tail == Entry(e.offset + rsp_size, e.size - rsp_size)
       IN  [m EXCEPT !.fb = UpdateBlock(@, e.offset, tail.offset, tail.size),
                     !.set_fm_ = (@ \ {e}) \cup {tail}]
  ELSE [m EXCEPT !.fb = DeleteBlock(@, e.offset),
                 !.set_fm_ = @ \ {e}]

TakeCuts(m, e, rsp_size) ==
  {TakeBlock(m, e, rsp_size).fb}
    \cup IF Splits(e, rsp_size)
         THEN UpdateBlockCuts(m.fb, e.offset, e.offset + rsp_size)
         ELSE DeleteBlockCuts(m.fb, e.offset)

=============================================================================
