------------------------------ MODULE MCEntdb ------------------------------
EXTENDS Entdb

CONSTANTS k1, k2, k3

MCKeys == {k1, k2, k3}
MCTwoKeys == {k1, k2}
MCValues == {<<1>>, <<2, 3, 4>>}
MCGlibc == {"updated"}

\* The bytes Get of a settled key may return; the others are read by nothing until
\* they have been written again.
ValueBytes ==
  [key \in DOMAIN said \cap Settled |->
     Read(data, ExtentOf(key).off + KeySize,
          Min({Len(said[key]), ExtentOf(key).value_size}))]

\* See MCMemoryMgr: which slot holds which block is not told apart.
View ==
  LET slots == mem.fb.freememory_
      used == {i \in DOMAIN slots : InUse(slots[i])}
  IN  <<idx, mem.fb.num_pages, mem.fb.num_slots_free, Cardinality(DOMAIN slots),
        Cardinality(mem.fb.free_slots_), {Entry(slots[i].offset, slots[i].size) : i \in used},
        EntriesOf(mem.fb), mem.set_fm_, mem.pool, said, gone, sound, ValueBytes>>

\* Nothing is explored after an unsound step.
Sound == sound
=============================================================================
