---------------------------- MODULE MCMemoryMgr ----------------------------
EXTENDS MemoryMgr

MCRequests == {1, 8}
MCAnyHeap == {"updated", "deleted", "other"}
MCGlibc == {"updated"}

\* States are told apart up to which slot holds which block, what deleted slots
\* still contain and what the last call was: no action reads last, and a slot's
\* place only decides which of the free ones AddBlock takes.
View ==
  LET slots == mem.fb.freememory_
      used == {i \in DOMAIN slots : InUse(slots[i])}
  IN  <<mem.fb.num_pages, mem.fb.num_slots_free, Cardinality(DOMAIN slots),
        Cardinality(mem.fb.free_slots_), {Entry(slots[i].offset, slots[i].size) : i \in used},
        EntriesOf(mem.fb), mem.set_fm_, mem.pool, live, sound>>

\* Nothing is explored after an unsound step.
Sound == sound
=============================================================================
