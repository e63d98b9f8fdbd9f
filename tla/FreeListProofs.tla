--------------------------- MODULE FreeListProofs ---------------------------
(***************************************************************************)
(* Lemmas about Allocate and Free (FreeList), for every page, slot and     *)
(* alignment size and every outcome of the reads of erased nodes, and      *)
(* calls that expand the free-block file at most once: what they do to the *)
(* blocks, that extents which lie apart in the pool (Sep) stay apart, and  *)
(* the same for the files a kill leaves.  The lemmas on the operations of  *)
(* the free-block manager come from FMBMgrProofs.  The lemmas ...Covers say *)
(* which bytes of the pool are free after a call or a kill.                *)
(***************************************************************************)
EXTENDS FreeList, TLAPS

F == INSTANCE FMBMgrProofs WITH
       Offsets <- Nat, Sizes <- Nat \ {0}, InitOffset <- 0, fmb <- 0

-----------------------------------------------------------------------------
(* The free-block manager.                                                 *)

\* The blocks a file says it has.
SlotExt(file) == {<<file.freememory_[i].offset, file.freememory_[i].size>> : i \in F!Used(file)}

\* FMBMgrProofs speaks of an instance of FMBlocks, which is this one.
LEMMA Assumed == F!ClientAssumption /\ F!FileAssumption
BY PoolAssumption, FileAssumption DEF F!ClientAssumption, F!FileAssumption

LEMMA SameBind == /\ \A m, k, v : F!Bind(m, k, v) = Bind(m, k, v)
                  /\ \A m, k : F!Unbind(m, k) = Unbind(m, k)
BY Zenon DEF F!Bind, Bind, F!Unbind, Unbind

LEMMA SameLeast == \A T : F!Least(T) = Least(T)
BY Zenon DEF F!Least, Least

LEMMA SameSlots ==
  /\ \A n : F!SlotsIn(n) = SlotsIn(n)
  /\ F!ZeroSlot = ZeroSlot
  /\ \A slot : F!InUse(slot) <=> InUse(slot)
BY Zenon DEF F!SlotsIn, SlotsIn, F!ZeroSlot, ZeroSlot, F!InUse, InUse

LEMMA SameCreate == F!CreateFile(SizeOfData, 0) = CreateFile(SizeOfData, 0)
BY Zenon DEF F!CreateFile, CreateFile, F!SlotsIn, SlotsIn, F!ZeroSlot, ZeroSlot

LEMMA SameOpen == \A file : F!OpenFile(file) = OpenFile(file)
BY Zenon DEF F!OpenFile, OpenFile, F!InUse, InUse

LEMMA SameGrown == \A slots, n : F!GrownSlots(slots, n) = GrownSlots(slots, n)
BY Zenon DEF F!GrownSlots, GrownSlots, F!ZeroSlot, ZeroSlot

LEMMA SameExpand == \A f : F!ExpandFile(f) = ExpandFile(f)
BY Zenon, SameGrown, SameSlots DEF F!ExpandFile, ExpandFile

LEMMA SameExpandCuts == \A f : F!ExpandFileCuts(f) = ExpandFileCuts(f)
BY Zenon, SameExpand DEF F!ExpandFileCuts, ExpandFileCuts

LEMMA SameRoom == \A f : F!WithRoom(f) = WithRoom(f)
BY Zenon, SameExpand DEF F!WithRoom, WithRoom

LEMMA SameAdd == \A f, off, size : F!AddBlock(f, off, size) = AddBlock(f, off, size)
BY ZenonT(60), SameRoom, SameLeast, SameBind DEF F!AddBlock, AddBlock

LEMMA SameAddCuts == \A f : F!AddBlockCuts(f) = AddBlockCuts(f)
BY Zenon, SameRoom, SameExpandCuts DEF F!AddBlockCuts, AddBlockCuts

LEMMA SameUpdate ==
  \A f, off, newoff, size : F!UpdateBlock(f, off, newoff, size) = UpdateBlock(f, off, newoff, size)
<1>1. SUFFICES ASSUME NEW f, NEW off, NEW newoff, NEW size
               PROVE  F!UpdateBlock(f, off, newoff, size) = UpdateBlock(f, off, newoff, size)
  OBVIOUS
<1>2. F!SlotOf(f, off) = SlotOf(f, off)
  BY Zenon DEF F!SlotOf, SlotOf
<1>3. F!Bind(F!Unbind(f.map_fm_, off), newoff, [pos |-> SlotOf(f, off), size |-> size])
        = Bind(Unbind(f.map_fm_, off), newoff, [pos |-> SlotOf(f, off), size |-> size])
  BY SameBind, Zenon
<1>4. QED BY <1>2, <1>3, Zenon DEF F!UpdateBlock, UpdateBlock

LEMMA SameDelete == \A f, off : F!DeleteBlock(f, off) = DeleteBlock(f, off)
<1>1. SUFFICES ASSUME NEW f, NEW off PROVE F!DeleteBlock(f, off) = DeleteBlock(f, off)
  OBVIOUS
<1>2. F!Unbind(f.map_fm_, off) = Unbind(f.map_fm_, off)
  BY SameBind, Zenon
<1>3. CASE off \in DOMAIN f.map_fm_
  BY <1>2, <1>3, Zenon DEF F!DeleteBlock, DeleteBlock
<1>4. CASE off \notin DOMAIN f.map_fm_
  BY <1>4, Zenon DEF F!DeleteBlock, DeleteBlock
<1>5. QED BY <1>3, <1>4

LEMMA SameDeleteCuts == \A f, off : F!DeleteBlockCuts(f, off) = DeleteBlockCuts(f, off)
BY Zenon DEF F!DeleteBlockCuts, DeleteBlockCuts

-----------------------------------------------------------------------------
(* What each operation does to the blocks.                                 *)

LEMMA GoodExt ==
  ASSUME NEW f, F!Good(f)
  PROVE  /\ F!FileOK(f)
         /\ Ext(f) = SlotExt(f)
         /\ DOMAIN f.map_fm_ \subseteq Nat
         /\ \A off \in DOMAIN f.map_fm_ : f.map_fm_[off].size \in Nat \ {0}
         /\ F!IsManager(f)
<1>1. /\ f.map_fm_ \in [DOMAIN f.map_fm_ -> [pos : F!Used(f), size : Nat \ {0}]]
      /\ \A off \in DOMAIN f.map_fm_ :
           /\ f.freememory_[f.map_fm_[off].pos].offset = off
           /\ f.freememory_[f.map_fm_[off].pos].size = f.map_fm_[off].size
      /\ \A i \in F!Used(f) : /\ f.freememory_[i].offset \in DOMAIN f.map_fm_
                              /\ f.map_fm_[f.freememory_[i].offset].pos = i
  BY Zenon DEF F!Good, F!MapOK
<1>2. \A off \in DOMAIN f.map_fm_ : f.map_fm_[off].pos \in F!Used(f)
                                   /\ f.map_fm_[off].size \in Nat \ {0}
  BY <1>1
<1>3. \A i \in F!Used(f) : f.freememory_[i].offset \in Nat
  BY Zenon DEF F!Good, F!SlotsOK
<1>4. DOMAIN f.map_fm_ \subseteq Nat
  BY <1>1, <1>2, <1>3
<1>5. Ext(f) = SlotExt(f)
  <2>1. Ext(f) \subseteq SlotExt(f)
    BY <1>1, <1>2, SMTT(30) DEF Ext, SlotExt
  <2>2. ASSUME NEW i \in F!Used(f)
        PROVE  <<f.freememory_[i].offset, f.freememory_[i].size>> \in Ext(f)
    <3>1. f.freememory_[i].offset \in DOMAIN f.map_fm_
          /\ f.map_fm_[f.freememory_[i].offset].size = f.freememory_[i].size
      BY <1>1
    <3>2. QED BY <3>1 DEF Ext
  <2>3. QED BY <2>1, <2>2 DEF SlotExt
<1>6. F!FileOK(f)
  BY F!GoodFile, Assumed, Zenon
<1>7. F!IsManager(f)
  BY Zenon DEF F!Good
<1>8. QED BY <1>2, <1>4, <1>5, <1>6, <1>7, Zenon

LEMMA OpenExt ==
  ASSUME NEW file, F!FileOK(file)
  PROVE  F!Good(OpenFile(file)) /\ Ext(OpenFile(file)) = SlotExt(file)
<1>1. F!Good(OpenFile(file))
  <2>1. F!Good(F!OpenFile(file))
    BY F!OpenGood, Assumed, Zenon
  <2>2. QED BY <2>1, SameOpen
<1>2. OpenFile(file).freememory_ = file.freememory_
  BY DEF OpenFile
<1>3. SlotExt(OpenFile(file)) = SlotExt(file)
  BY <1>2 DEF SlotExt, F!Used
<1>4. QED BY <1>1, <1>3, GoodExt

LEMMA DeleteExt ==
  ASSUME NEW f, F!Good(f), NEW off \in DOMAIN f.map_fm_
  PROVE  LET g == DeleteBlock(f, off)
         IN  /\ F!Good(g)
             /\ DOMAIN g.map_fm_ = DOMAIN f.map_fm_ \ {off}
             /\ \A x \in DOMAIN g.map_fm_ : g.map_fm_[x] = f.map_fm_[x]
             /\ Ext(g) = Ext(f) \ {<<off, f.map_fm_[off].size>>}
<1> DEFINE g == DeleteBlock(f, off)
<1>1. F!Good(g)
  <2>1. F!Good(F!DeleteBlock(f, off))
    BY F!DeleteGood, Assumed, Zenon
  <2>2. QED BY <2>1, SameDelete
<1>2. g.map_fm_ = Unbind(f.map_fm_, off)
  <2>1. F!IsManager(f)
    BY GoodExt
  <2>2. QED BY <2>1 DEF DeleteBlock, F!IsManager
<1> HIDE DEF g
<1>3. /\ DOMAIN g.map_fm_ = DOMAIN f.map_fm_ \ {off}
      /\ \A x \in DOMAIN g.map_fm_ : g.map_fm_[x] = f.map_fm_[x]
  BY <1>2 DEF Unbind
<1>4. Ext(g) = Ext(f) \ {<<off, f.map_fm_[off].size>>}
  BY <1>3 DEF Ext
<1>5. QED BY <1>1, <1>3, <1>4 DEF g

LEMMA UpdateExt ==
  ASSUME NEW f, F!Good(f), NEW off \in DOMAIN f.map_fm_,
         NEW newoff \in Nat, newoff \notin DOMAIN f.map_fm_ \ {off}, NEW size \in Nat \ {0}
  PROVE  LET g == UpdateBlock(f, off, newoff, size)
         IN  /\ F!Good(g)
             /\ DOMAIN g.map_fm_ = (DOMAIN f.map_fm_ \ {off}) \cup {newoff}
             /\ g.map_fm_[newoff].size = size
             /\ Ext(g) = (Ext(f) \ {<<off, f.map_fm_[off].size>>}) \cup {<<newoff, size>>}
<1> DEFINE g == UpdateBlock(f, off, newoff, size)
<1>1. F!Good(g)
  <2>1. F!Good(F!UpdateBlock(f, off, newoff, size))
    BY F!UpdateGood, Assumed, Zenon
  <2>2. QED BY <2>1, SameUpdate
<1>2. g.map_fm_ = Bind(Unbind(f.map_fm_, off), newoff, [pos |-> SlotOf(f, off), size |-> size])
  <2>1. F!IsManager(f)
    BY GoodExt
  <2>2. QED BY <2>1 DEF UpdateBlock, F!IsManager
<1> HIDE DEF g
<1>3. /\ DOMAIN g.map_fm_ = (DOMAIN f.map_fm_ \ {off}) \cup {newoff}
      /\ \A x \in DOMAIN f.map_fm_ \ {off} : g.map_fm_[x] = f.map_fm_[x]
      /\ g.map_fm_[newoff].size = size
  BY <1>2 DEF Bind, Unbind
<1>4. Ext(g) = (Ext(f) \ {<<off, f.map_fm_[off].size>>}) \cup {<<newoff, size>>}
  BY <1>3 DEF Ext
<1>5. QED BY <1>1, <1>3, <1>4 DEF g

\* The bound of the actions: the file is expanded at most once.
MayAddTo(f) == MaxPages \in 1 .. 2 /\ MayAdd(f)

LEMMA AddExt ==
  ASSUME NEW f, F!Good(f), MayAddTo(f), NEW off \in Nat \ DOMAIN f.map_fm_, NEW size \in Nat \ {0}
  PROVE  LET g == AddBlock(f, off, size)
         IN  /\ F!Good(g)
             /\ DOMAIN g.map_fm_ = DOMAIN f.map_fm_ \cup {off}
             /\ g.map_fm_[off].size = size
             /\ \A x \in DOMAIN f.map_fm_ : g.map_fm_[x] = f.map_fm_[x]
             /\ Ext(g) = Ext(f) \cup {<<off, size>>}
<1> DEFINE g == AddBlock(f, off, size)
           r == WithRoom(f)
<1>1. F!Good(g)
  <2>1. F!Good(F!AddBlock(f, off, size))
    BY F!AddGood, Assumed, Zenon DEF MayAddTo, MayAdd
  <2>2. QED BY <2>1, SameAdd
<1>2. F!Good(r) /\ r.map_fm_ = f.map_fm_
  <2>1. F!Good(F!WithRoom(f)) /\ F!WithRoom(f).map_fm_ = f.map_fm_
    BY F!RoomGood, Assumed, Zenon DEF MayAddTo, MayAdd
  <2>2. QED BY <2>1, SameRoom
<1>3. g.map_fm_ = Bind(f.map_fm_, off, [pos |-> Least(r.free_slots_), size |-> size])
  <2>1. F!IsManager(r)
    BY <1>2, GoodExt
  <2>2. g = [r EXCEPT !.free_slots_      = @ \ {Least(r.free_slots_)},
                      !.num_slots_free   = @ - 1,
                      !.map_fm_          = Bind(@, off, [pos |-> Least(r.free_slots_), size |-> size]),
                      !.freememory_[Least(r.free_slots_)] = [offset |-> off, size |-> size, del |-> 0]]
    BY Zenon DEF AddBlock
  <2> HIDE DEF g, r
  <2>3. QED BY <1>2, <2>1, <2>2 DEF F!IsManager
<1> HIDE DEF g, r
<1>4. /\ DOMAIN g.map_fm_ = DOMAIN f.map_fm_ \cup {off}
      /\ g.map_fm_[off].size = size
      /\ \A x \in DOMAIN f.map_fm_ : g.map_fm_[x] = f.map_fm_[x]
  BY <1>3 DEF Bind
<1>5. Ext(g) = Ext(f) \cup {<<off, size>>}
  BY <1>4 DEF Ext
<1>6. QED BY <1>1, <1>4, <1>5 DEF g

LEMMA CreateExt ==
  ASSUME MaxPages \in 1 .. 2
  PROVE  /\ F!FileOK(CreateFile(SizeOfData, 0))
         /\ SlotExt(CreateFile(SizeOfData, 0)) = {<<0, SizeOfData>>}
<1> DEFINE f == CreateFile(SizeOfData, 0)
<1>1. F!FileOK(f)
  <2>1. MaxPages \in Nat \ {0}
    OBVIOUS
  <2>2. F!FileOK(F!CreateFile(SizeOfData, 0))
    BY <2>1, F!CreateOK, Assumed, Zenon
  <2>3. QED BY <2>2, SameCreate
<1>2. SlotsIn(1) \in Nat \ {0} /\ SizeOfData \in Nat \ {0}
  BY FileAssumption, PoolAssumption DEF SlotsIn
<1>3. /\ DOMAIN f.freememory_ = 0 .. SlotsIn(1) - 1
      /\ f.freememory_[0] = [offset |-> 0, size |-> SizeOfData, del |-> 0]
      /\ \A i \in 0 .. SlotsIn(1) - 1 : i # 0 => f.freememory_[i] = ZeroSlot
  BY <1>2 DEF CreateFile
<1> HIDE DEF f
<1>4. F!Used(f) = {0}
  BY <1>2, <1>3, SameSlots DEF F!Used, InUse, ZeroSlot
<1>5. SlotExt(f) = {<<0, SizeOfData>>}
  BY <1>3, <1>4 DEF SlotExt
<1>6. QED BY <1>1, <1>5 DEF f

LEMMA AddCutsExt ==
  ASSUME NEW f, F!Good(f), MayAddTo(f), NEW file \in AddBlockCuts(f)
  PROVE  F!FileOK(file) /\ SlotExt(file) = Ext(f)
<1>1. F!FileOK(file)
  <2>1. file \in F!AddBlockCuts(f)
    BY SameAddCuts
  <2>2. QED BY <2>1, F!AddCutsOK, Assumed, Zenon DEF MayAddTo, MayAdd
<1>2. F!IsManager(f) /\ Ext(f) = SlotExt(f)
  BY GoodExt
<1>3. file.freememory_ = f.freememory_ \/ \E n : file.freememory_ = GrownSlots(f.freememory_, n)
  <2> DEFINE g == ExpandFile(f)
             grown == GrownSlots(f.freememory_, SlotsIn(f.num_pages) * 4)
  <2>1. g.freememory_ = grown /\ F!IsManager(g)
    <3> DEFINE pages == f.num_pages * 2
               count == f.num_slots_free + (SlotsIn(f.num_pages) * 4 - SlotsIn(f.num_pages))
               free == f.free_slots_ \cup SlotsIn(f.num_pages) .. (SlotsIn(f.num_pages) * 4 - 1)
    <3>1. g = [f EXCEPT !.num_pages = pages, !.num_slots_free = count,
                        !.freememory_ = grown, !.free_slots_ = free]
      BY Zenon DEF ExpandFile
    <3> HIDE DEF pages, count, grown, free, g
    <3>2. g = [num_pages |-> pages, num_slots_free |-> count, freememory_ |-> grown,
               map_fm_ |-> f.map_fm_, free_slots_ |-> free]
      BY <1>2, <3>1 DEF F!IsManager
    <3>3. QED BY <3>2 DEF F!IsManager
  <2> HIDE DEF g, grown
  <2>2. \A h \in {f, [f EXCEPT !.freememory_ = grown],
                  [[f EXCEPT !.freememory_ = grown] EXCEPT !.num_pages = g.num_pages], g} :
          h.freememory_ = f.freememory_ \/ h.freememory_ = grown
    <3>1. [f EXCEPT !.freememory_ = grown].freememory_ = grown
      BY <1>2 DEF F!IsManager
    <3>2. [[f EXCEPT !.freememory_ = grown] EXCEPT !.num_pages = g.num_pages].freememory_ = grown
      BY <1>2 DEF F!IsManager
    <3>3. QED BY <2>1, <3>1, <3>2
  <2>3. \A h \in ExpandFileCuts(f) : h.freememory_ = f.freememory_ \/ h.freememory_ = grown
    <3>1. ExpandFileCuts(f) = {f, [f EXCEPT !.freememory_ = grown],
                  [[f EXCEPT !.freememory_ = grown] EXCEPT !.num_pages = g.num_pages], g}
      BY <2>1, Zenon DEF ExpandFileCuts, g
    <3>2. QED BY <2>2, <3>1
  <2>4. WithRoom(f) \in {f, g}
    BY DEF WithRoom, g
  <2>5. \A h \in {f, g} : [h EXCEPT !.num_slots_free = @ - 1].freememory_ = h.freememory_
    BY <1>2, <2>1 DEF F!IsManager
  <2>6. \/ file \in ExpandFileCuts(f) \/ file = f
        \/ file = [WithRoom(f) EXCEPT !.num_slots_free = @ - 1]
    BY DEF AddBlockCuts
  <2>7. file.freememory_ = f.freememory_ \/ file.freememory_ = grown
    BY <2>1, <2>3, <2>4, <2>5, <2>6
  <2>8. QED BY <2>7 DEF grown
<1>4. ASSUME NEW n, NEW slots, slots = GrownSlots(f.freememory_, n)
      PROVE  \A i : (i \in DOMAIN slots /\ InUse(slots[i]))
                      <=> (i \in DOMAIN f.freememory_ /\ InUse(f.freememory_[i]))
  <2>1. ~ InUse(ZeroSlot)
    BY DEF InUse, ZeroSlot
  <2>2. /\ DOMAIN f.freememory_ \subseteq DOMAIN slots
        /\ \A i \in DOMAIN slots :
             slots[i] = IF i \in DOMAIN f.freememory_ THEN f.freememory_[i] ELSE ZeroSlot
    BY <1>4 DEF GrownSlots
  <2>3. QED BY <2>1, <2>2
<1>5. SlotExt(file) = SlotExt(f)
  <2>1. CASE file.freememory_ = f.freememory_
    BY <2>1 DEF SlotExt, F!Used
  <2>2. CASE \E n : file.freememory_ = GrownSlots(f.freememory_, n)
    <3>1. F!Used(file) = F!Used(f)
      BY <1>4, <2>2, SameSlots DEF F!Used
    <3>2. \A i \in F!Used(f) : file.freememory_[i] = f.freememory_[i]
      BY <2>2 DEF GrownSlots, F!Used
    <3>3. QED BY <3>1, <3>2 DEF SlotExt
  <2>3. QED BY <1>3, <2>1, <2>2
<1>6. QED BY <1>1, <1>2, <1>5

LEMMA DeleteCutsExt ==
  ASSUME NEW f, F!Good(f), NEW off \in DOMAIN f.map_fm_, NEW file \in DeleteBlockCuts(f, off)
  PROVE  /\ F!FileOK(file)
         /\ SlotExt(file) \in {Ext(f), Ext(f) \ {<<off, f.map_fm_[off].size>>}}
<1> DEFINE g == DeleteBlock(f, off)
           marked == [f EXCEPT !.freememory_[f.map_fm_[off].pos].del = 1]
<1>1. F!FileOK(file)
  <2>1. file \in F!DeleteBlockCuts(f, off)
    BY SameDeleteCuts
  <2>2. QED BY <2>1, F!DeleteCutsOK, Assumed, Zenon
<1>2. file = f \/ file = marked
  BY DEF DeleteBlockCuts
<1>3. F!IsManager(f)
  BY GoodExt
<1>4. marked.freememory_ = g.freememory_
  BY <1>3 DEF F!IsManager, DeleteBlock
<1> HIDE DEF g, marked
<1>5. SlotExt(marked) = SlotExt(g)
  BY <1>4 DEF SlotExt, F!Used
<1>6. SlotExt(g) = Ext(g) /\ Ext(g) = Ext(f) \ {<<off, f.map_fm_[off].size>>}
  BY DeleteExt, GoodExt DEF g
<1>7. SlotExt(f) = Ext(f)
  BY GoodExt
<1>8. QED BY <1>1, <1>2, <1>5, <1>6, <1>7

\* A merge leaves one block where two were.
Merged(fb, off, next) ==
  (Ext(fb) \ {<<off, fb.map_fm_[off].size>>, <<next, fb.map_fm_[next].size>>})
    \cup {<<off, fb.map_fm_[off].size + fb.map_fm_[next].size>>}

LEMMA MergeExt ==
  ASSUME NEW f, F!Good(f), NEW off, NEW next, Touches(f, off, next)
  PROVE  LET g == MergeBlocks(f, off, next)
         IN  /\ F!Good(g) /\ Ext(g) = Merged(f, off, next)
             /\ DOMAIN g.map_fm_ = DOMAIN f.map_fm_ \ {next}
             /\ g.map_fm_[off].size = f.map_fm_[off].size + f.map_fm_[next].size
             /\ \A file \in MergeCuts(f, off, next) :
                  /\ F!FileOK(file)
                  /\ SlotExt(file) \in {Ext(f), Ext(f) \ {<<next, f.map_fm_[next].size>>},
                                        Merged(f, off, next)}
<1> DEFINE d == DeleteBlock(f, next)
           sum == f.map_fm_[off].size + f.map_fm_[next].size
           g == MergeBlocks(f, off, next)
<1>1. off \in DOMAIN f.map_fm_ /\ next \in DOMAIN f.map_fm_ /\ off \in Nat /\ off # next
  <2>1. off \in DOMAIN f.map_fm_ /\ next \in DOMAIN f.map_fm_ /\ off < next
    BY DEF Touches
  <2>2. off \in Nat /\ next \in Nat
    BY <2>1, GoodExt
  <2>3. QED BY <2>1, <2>2
<1>2. sum \in Nat \ {0}
  <2>1. f.map_fm_[off].size \in Nat \ {0} /\ f.map_fm_[next].size \in Nat \ {0}
    BY <1>1, GoodExt
  <2>2. QED BY <2>1
<1>3. /\ F!Good(d)
      /\ DOMAIN d.map_fm_ = DOMAIN f.map_fm_ \ {next}
      /\ \A x \in DOMAIN d.map_fm_ : d.map_fm_[x] = f.map_fm_[x]
      /\ Ext(d) = Ext(f) \ {<<next, f.map_fm_[next].size>>}
  BY <1>1, DeleteExt
<1>4. g = UpdateBlock(d, off, off, sum)
  BY Zenon DEF MergeBlocks
<1> HIDE DEF d, g, sum
<1>5. off \in DOMAIN d.map_fm_ /\ off \notin DOMAIN d.map_fm_ \ {off}
      /\ d.map_fm_[off] = f.map_fm_[off]
  BY <1>1, <1>3
<1>6. /\ F!Good(g)
      /\ DOMAIN g.map_fm_ = (DOMAIN d.map_fm_ \ {off}) \cup {off}
      /\ g.map_fm_[off].size = sum
      /\ Ext(g) = (Ext(d) \ {<<off, d.map_fm_[off].size>>}) \cup {<<off, sum>>}
  BY <1>1, <1>2, <1>3, <1>4, <1>5, UpdateExt
<1>7. Ext(g) = Merged(f, off, next)
  BY <1>3, <1>5, <1>6 DEF Merged, sum
<1>8. DOMAIN g.map_fm_ = DOMAIN f.map_fm_ \ {next}
  BY <1>3, <1>5, <1>6
<1>9. ASSUME NEW file \in MergeCuts(f, off, next)
      PROVE  /\ F!FileOK(file)
             /\ SlotExt(file) \in {Ext(f), Ext(f) \ {<<next, f.map_fm_[next].size>>},
                                   Merged(f, off, next)}
  <2>1. file \in DeleteBlockCuts(f, next) \/ file = d \/ file = g
    BY DEF MergeCuts, d, g
  <2>2. CASE file \in DeleteBlockCuts(f, next)
    BY <1>1, <2>2, DeleteCutsExt
  <2>3. CASE file = d
    BY <1>3, <2>3, GoodExt
  <2>4. CASE file = g
    BY <1>6, <1>7, <2>4, GoodExt
  <2>5. QED BY <2>1, <2>2, <2>3, <2>4
<1>10. QED BY <1>6, <1>7, <1>8, <1>9 DEF g, sum

-----------------------------------------------------------------------------
(* Extents.                                                                *)

IsExtent(e, pool) == /\ e[1] \in Nat /\ e[2] \in Nat \ {0} /\ e = <<e[1], e[2]>>
                     /\ e[1] + e[2] <= pool

\* Free extents E and extents in use L: inside the pool, apart, and no extent is both.
Sep(E, L, pool) ==
  /\ E \cap L = {}
  /\ \A e \in E \cup L : IsExtent(e, pool)
  /\ \A e, f \in E \cup L : e = f \/ Disjoint(e, f)

LEMMA SepSub ==
  ASSUME NEW E, NEW L, NEW pool, Sep(E, L, pool), NEW E2 \in SUBSET E, NEW L2 \in SUBSET L
  PROVE  Sep(E2, L2, pool)
BY DEF Sep

\* Two neighbours become one.
LEMMA SepMerge ==
  ASSUME NEW E, NEW L, NEW pool \in Nat, Sep(E, L, pool), NEW a \in E, NEW b \in E, a[1] + a[2] = b[1]
  PROVE  Sep((E \ {a, b}) \cup {<<a[1], a[2] + b[2]>>}, L, pool)
<1> DEFINE c == <<a[1], a[2] + b[2]>>
           E2 == (E \ {a, b}) \cup {c}
<1>1. IsExtent(a, pool) /\ IsExtent(b, pool)
  BY DEF Sep
<1>2. IsExtent(c, pool) /\ c[1] = a[1] /\ c[2] = a[2] + b[2]
  BY <1>1 DEF IsExtent
<1> HIDE DEF c
<1>3. \A e \in (E \cup L) \ {a, b} : IsExtent(e, pool) /\ Disjoint(e, c) /\ Disjoint(c, e)
  <2>1. SUFFICES ASSUME NEW e \in (E \cup L) \ {a, b}
                 PROVE  IsExtent(e, pool) /\ Disjoint(e, c) /\ Disjoint(c, e)
    OBVIOUS
  <2>2. IsExtent(e, pool) /\ Disjoint(e, a) /\ Disjoint(e, b)
    BY DEF Sep
  <2>3. QED BY <1>1, <1>2, <2>2 DEF Disjoint, IsExtent
<1>4. a \notin L /\ b \notin L
  BY DEF Sep
<1>5. c \notin L
  <2>1. SUFFICES ASSUME c \in L PROVE FALSE
    OBVIOUS
  <2>2. Disjoint(c, c)
    BY <1>3, <1>4, <2>1
  <2>3. QED BY <1>2, <2>2 DEF Disjoint, IsExtent
<1>6. E2 \cap L = {}
  BY <1>5 DEF Sep
<1>7. \A e \in E2 \cup L : IsExtent(e, pool)
  BY <1>2 DEF Sep
<1>8. \A e, f \in E2 \cup L : e = f \/ Disjoint(e, f)
  <2>1. SUFFICES ASSUME NEW e \in E2 \cup L, NEW f \in E2 \cup L, e # f PROVE Disjoint(e, f)
    OBVIOUS
  <2>2. CASE e = c
    BY <1>3, <1>4, <2>1, <2>2
  <2>3. CASE f = c
    BY <1>3, <1>4, <2>1, <2>3
  <2>4. CASE e # c /\ f # c
    BY <2>1, <2>4 DEF Sep
  <2>5. QED BY <2>2, <2>3, <2>4
<1>9. QED BY <1>6, <1>7, <1>8 DEF Sep, c

\* The head of a free extent is handed out, the tail stays.
LEMMA SepSplit ==
  ASSUME NEW E, NEW L, NEW pool \in Nat, Sep(E, L, pool), NEW e \in E,
         NEW r \in Nat \ {0}, r < e[2]
  PROVE  Sep((E \ {e}) \cup {<<e[1] + r, e[2] - r>>}, L \cup {<<e[1], r>>}, pool)
<1> DEFINE head == <<e[1], r>>
           tail == <<e[1] + r, e[2] - r>>
           E2 == (E \ {e}) \cup {tail}
           L2 == L \cup {head}
<1>1. IsExtent(e, pool)
  BY DEF Sep
<1>2. /\ head[1] = e[1] /\ head[2] = r /\ tail[1] = e[1] + r /\ tail[2] = e[2] - r
      /\ IsExtent(head, pool) /\ IsExtent(tail, pool)
  BY <1>1 DEF IsExtent
<1> HIDE DEF head, tail
<1>3. Disjoint(head, tail) /\ Disjoint(tail, head)
  BY <1>1, <1>2 DEF Disjoint, IsExtent
<1>4. ASSUME NEW f \in (E \cup L) \ {e}
      PROVE  /\ Disjoint(f, head) /\ Disjoint(head, f) /\ Disjoint(f, tail) /\ Disjoint(tail, f)
             /\ f # head /\ f # tail
  <2>1. IsExtent(f, pool) /\ Disjoint(f, e)
    BY DEF Sep
  <2>2. Disjoint(f, head) /\ Disjoint(head, f) /\ Disjoint(f, tail) /\ Disjoint(tail, f)
    BY <1>1, <1>2, <2>1 DEF Disjoint, IsExtent
  <2>3. ~ Disjoint(head, head) /\ ~ Disjoint(tail, tail)
    BY <1>2 DEF Disjoint, IsExtent
  <2>4. QED BY <2>2, <2>3
<1>5. e \notin L
  BY DEF Sep
<1>6. head # tail
  BY <1>1, <1>2 DEF IsExtent
<1>7. E2 \cap L2 = {}
  BY <1>4, <1>5, <1>6 DEF Sep
<1>8. \A f \in E2 \cup L2 : IsExtent(f, pool)
  BY <1>2 DEF Sep
<1>9. \A f, g \in E2 \cup L2 : f = g \/ Disjoint(f, g)
  <2>1. SUFFICES ASSUME NEW f \in E2 \cup L2, NEW g \in E2 \cup L2, f # g PROVE Disjoint(f, g)
    OBVIOUS
  <2>2. CASE f \in {head, tail} /\ g \in {head, tail}
    BY <1>3, <2>1, <2>2
  <2>3. CASE f \notin {head, tail} /\ g \in {head, tail}
    BY <1>4, <1>5, <2>1, <2>3
  <2>4. CASE f \in {head, tail} /\ g \notin {head, tail}
    BY <1>4, <1>5, <2>1, <2>4
  <2>5. CASE f \notin {head, tail} /\ g \notin {head, tail}
    BY <2>1, <2>5 DEF Sep
  <2>6. QED BY <2>2, <2>3, <2>4, <2>5
<1>10. QED BY <1>7, <1>8, <1>9 DEF Sep, head, tail

\* An extent changes hands.
LEMMA SepMove ==
  ASSUME NEW E, NEW L, NEW pool, Sep(E, L, pool), NEW e
  PROVE  /\ e \in E => Sep(E \ {e}, L \cup {e}, pool)
         /\ e \in L => Sep(E \cup {e}, L \ {e}, pool)
BY DEF Sep

\* The pool grows.
LEMMA SepGrow ==
  ASSUME NEW E, NEW L, NEW pool \in Nat, Sep(E, L, pool), NEW larger \in Nat, pool < larger
  PROVE  Sep(E \cup {<<pool, larger - pool>>}, L, larger) /\ Sep(E, L, larger)
<1> DEFINE new == <<pool, larger - pool>>
<1>1. IsExtent(new, larger) /\ new[1] = pool
  <2>1. larger - pool \in Nat \ {0} /\ pool + (larger - pool) = larger
    OBVIOUS
  <2>2. QED BY <2>1 DEF IsExtent
<1> HIDE DEF new
<1>2. ASSUME NEW e \in E \cup L
      PROVE  IsExtent(e, larger) /\ Disjoint(e, new) /\ Disjoint(new, e) /\ e # new
  <2>1. IsExtent(e, pool)
    BY DEF Sep
  <2>2. QED BY <1>1, <2>1 DEF IsExtent, Disjoint
<1>3. QED BY <1>1, <1>2 DEF Sep, new

\* In a separated pool no two extents start at the same byte.
LEMMA SepStarts ==
  ASSUME NEW E, NEW L, NEW pool, Sep(E, L, pool), NEW e \in E \cup L, NEW f \in E \cup L,
         e[1] = f[1]
  PROVE  e = f
BY DEF Sep, Disjoint, IsExtent

-----------------------------------------------------------------------------
(* Free.                                                                   *)

IsMem(m) == m = [fb |-> m.fb, set_fm_ |-> m.set_fm_, pool |-> m.pool]

SetOK(m) == m.set_fm_ \subseteq [offset : 0 .. m.pool - 1, size : Nat \ {0}]

\* An open manager next to extents L in use.
MemOK(m, L) == /\ IsMem(m) /\ SetOK(m) /\ m.pool \in Nat \ {0}
               /\ F!Good(m.fb) /\ Sep(Ext(m.fb), L, m.pool)

\* The blocks of a good manager next to L, as numbers.
LEMMA BlockBounds ==
  ASSUME NEW f, NEW L, NEW pool, F!Good(f), Sep(Ext(f), L, pool), NEW off \in DOMAIN f.map_fm_
  PROVE  /\ off \in Nat /\ f.map_fm_[off].size \in Nat \ {0}
         /\ off + f.map_fm_[off].size <= pool
         /\ <<off, f.map_fm_[off].size>> \in Ext(f)
<1>1. <<off, f.map_fm_[off].size>> \in Ext(f)
  BY DEF Ext
<1>2. IsExtent(<<off, f.map_fm_[off].size>>, pool)
  BY <1>1 DEF Sep
<1>3. QED BY <1>1, <1>2 DEF IsExtent

LEMMA MergeSep ==
  ASSUME NEW f, F!Good(f), NEW L, NEW pool \in Nat, Sep(Ext(f), L, pool),
         NEW off, NEW next, Touches(f, off, next)
  PROVE  /\ Sep(Ext(MergeBlocks(f, off, next)), L, pool)
         /\ \A file \in MergeCuts(f, off, next) : F!FileOK(file) /\ Sep(SlotExt(file), L, pool)
<1> DEFINE a == <<off, f.map_fm_[off].size>>
           b == <<next, f.map_fm_[next].size>>
<1>1. off \in DOMAIN f.map_fm_ /\ next \in DOMAIN f.map_fm_ /\ off + f.map_fm_[off].size = next
  BY DEF Touches
<1>2. a \in Ext(f) /\ b \in Ext(f) /\ a[1] + a[2] = b[1]
      /\ a[1] = off /\ a[2] = f.map_fm_[off].size /\ b[2] = f.map_fm_[next].size
  BY <1>1 DEF Ext
<1>3. Merged(f, off, next) = (Ext(f) \ {a, b}) \cup {<<a[1], a[2] + b[2]>>}
  BY <1>2 DEF Merged
<1>4. Sep(Merged(f, off, next), L, pool)
  <2> HIDE DEF a, b
  <2>1. QED BY <1>2, <1>3, SepMerge
<1>5. Sep(Ext(f) \ {b}, L, pool)
  BY SepSub
<1>6. /\ Ext(MergeBlocks(f, off, next)) = Merged(f, off, next)
      /\ \A file \in MergeCuts(f, off, next) :
           F!FileOK(file) /\ SlotExt(file) \in {Ext(f), Ext(f) \ {b}, Merged(f, off, next)}
  BY MergeExt, Zenon
<1> HIDE DEF a, b
<1>7. QED BY <1>4, <1>5, <1>6

\* The block that was merged into, or off itself, is where BlockOf finds it.
LEMMA PrevFound ==
  ASSUME NEW f, F!Good(f), NEW prev, NEW off, Touches(f, prev, off)
  PROVE  BlockOf(MergeBlocks(f, prev, off), off) = prev
<1> DEFINE g == MergeBlocks(f, prev, off)
<1>1. /\ DOMAIN g.map_fm_ = DOMAIN f.map_fm_ \ {off}
      /\ DOMAIN g.map_fm_ \subseteq Nat
  <2>1. DOMAIN g.map_fm_ = DOMAIN f.map_fm_ \ {off}
    BY MergeExt
  <2>2. DOMAIN f.map_fm_ \subseteq Nat
    BY GoodExt
  <2>3. QED BY <2>1, <2>2
<1> HIDE DEF g
<1>2. /\ prev \in DOMAIN f.map_fm_ /\ off \in DOMAIN f.map_fm_ /\ prev < off
      /\ \A x \in DOMAIN f.map_fm_ : ~ (prev < x /\ x < off)
      /\ DOMAIN f.map_fm_ \subseteq Nat
  BY GoodExt DEF Touches
<1>3. \A x \in DOMAIN g.map_fm_ :
        (x < off /\ \A y \in DOMAIN g.map_fm_ : y < off => y <= x) <=> x = prev
  <2>1. \A y \in DOMAIN g.map_fm_ : y < off => y <= prev
    BY <1>1, <1>2
  <2>2. prev \in DOMAIN g.map_fm_
    BY <1>1, <1>2
  <2>3. ASSUME NEW x \in DOMAIN g.map_fm_, x < off, \A y \in DOMAIN g.map_fm_ : y < off => y <= x
        PROVE  x = prev
    BY <1>1, <1>2, <2>1, <2>2, <2>3
  <2>4. QED BY <1>2, <2>1, <2>3
<1>4. prev \in DOMAIN g.map_fm_ /\ off \notin DOMAIN g.map_fm_
  BY <1>1, <1>2
<1>5. QED BY <1>3, <1>4 DEF BlockOf, g

\* Some entry of set_fm_ has at least n bytes.
HasRoom(m, n) == \E e \in m.set_fm_ : e.size >= n

LEMMA PrevGood ==
  ASSUME NEW m, NEW L, MemOK(m, L), NEW off \in DOMAIN m.fb.map_fm_, NEW reuse,
         Entry(off, m.fb.map_fm_[off].size) \in m.set_fm_
  PROVE  LET g == TryMergePrev(m, off, reuse)
             cur == BlockOf(g.fb, off)
         IN  /\ MemOK(g, L) /\ g.pool = m.pool
             /\ cur \in DOMAIN g.fb.map_fm_
             /\ g.fb.map_fm_[cur].size >= m.fb.map_fm_[off].size
             /\ HasRoom(g, m.fb.map_fm_[off].size)
<1> DEFINE size == m.fb.map_fm_[off].size
           g == TryMergePrev(m, off, reuse)
<1>1. off \in Nat /\ size \in Nat \ {0}
  BY BlockBounds DEF MemOK
<1>2. CASE ~ \E prev \in DOMAIN m.fb.map_fm_ : Touches(m.fb, prev, off)
  <2>1. g = m
    BY <1>2, Zenon DEF TryMergePrev
  <2>2. BlockOf(m.fb, off) = off
    BY DEF BlockOf
  <2>3. HasRoom(m, size)
    <3>1. Entry(off, size).size >= size
      BY <1>1 DEF Entry
    <3>2. QED BY <3>1 DEF HasRoom
  <2>4. QED BY <1>1, <2>1, <2>2, <2>3
<1>3. CASE \E prev \in DOMAIN m.fb.map_fm_ : Touches(m.fb, prev, off)
  <2>1. PICK prev \in DOMAIN m.fb.map_fm_ :
               Touches(m.fb, prev, off) /\ g = MergePrev(m, prev, off, reuse)
    <3>1. PICK prev : /\ prev = CHOOSE p \in DOMAIN m.fb.map_fm_ : Touches(m.fb, p, off)
                      /\ prev \in DOMAIN m.fb.map_fm_ /\ Touches(m.fb, prev, off)
      BY <1>3, Zenon
    <3>2. g = MergePrev(m, prev, off, reuse)
      BY <1>3, <3>1, Zenon DEF TryMergePrev
    <3>3. QED BY <3>1, <3>2
  <2> DEFINE ps == m.fb.map_fm_[prev].size
             sum == CASE reuse = "updated" -> (ps + size) + size
                      [] reuse = "deleted" -> ps + (ps + size)
                      [] OTHER             -> ps + size
  <2>2. prev \in Nat /\ ps \in Nat \ {0} /\ prev + ps <= m.pool
    BY <2>1, BlockBounds DEF MemOK
  <2>3. sum \in Nat \ {0} /\ sum >= size
    BY <1>1, <2>2
  <2>4. g = [m EXCEPT !.fb = MergeBlocks(m.fb, prev, off),
                      !.set_fm_ = (m.set_fm_ \ {Entry(off, size)}) \cup {Entry(prev, sum)}]
    BY <2>1, Zenon DEF MergePrev
  <2> HIDE DEF sum, ps, g, size
  <2>5. /\ IsMem(g) /\ g.pool = m.pool /\ g.fb = MergeBlocks(m.fb, prev, off)
        /\ g.set_fm_ = (m.set_fm_ \ {Entry(off, size)}) \cup {Entry(prev, sum)}
    <3>1. m = [fb |-> m.fb, set_fm_ |-> m.set_fm_, pool |-> m.pool]
      BY DEF MemOK, IsMem
    <3> DEFINE merged == MergeBlocks(m.fb, prev, off)
               entries == (m.set_fm_ \ {Entry(off, size)}) \cup {Entry(prev, sum)}
    <3>2. g = [m EXCEPT !.fb = merged, !.set_fm_ = entries]
      BY <2>4
    <3> HIDE DEF merged, entries
    <3>3. g = [fb |-> merged, set_fm_ |-> entries, pool |-> m.pool]
      BY <3>1, <3>2
    <3>4. IsMem(g) /\ g.fb = merged /\ g.set_fm_ = entries /\ g.pool = m.pool
      BY <3>3 DEF IsMem
    <3>5. QED BY <3>4 DEF merged, entries
  <2>6. /\ F!Good(g.fb) /\ DOMAIN g.fb.map_fm_ = DOMAIN m.fb.map_fm_ \ {off}
        /\ g.fb.map_fm_[prev].size = ps + size
        /\ Sep(Ext(g.fb), L, m.pool)
    BY <2>1, <2>5, MergeExt, MergeSep DEF MemOK, ps, size
  <2>7. SetOK(g)
    BY <2>2, <2>3, <2>5 DEF SetOK, MemOK, Entry
  <2>8. BlockOf(g.fb, off) = prev
    BY <2>1, <2>5, PrevFound DEF MemOK
  <2>9. prev \in DOMAIN g.fb.map_fm_
    <3>1. prev < off
      BY <2>1 DEF Touches
    <3>2. QED BY <1>1, <2>2, <2>6, <3>1
  <2>10. g.fb.map_fm_[prev].size >= size
    BY <1>1, <2>2, <2>6
  <2>11. HasRoom(g, size)
    <3>1. Entry(prev, sum) \in g.set_fm_ /\ Entry(prev, sum).size >= size
      BY <2>3, <2>5 DEF Entry
    <3>2. QED BY <3>1 DEF HasRoom
  <2>12. MemOK(g, L)
    BY <2>5, <2>6, <2>7 DEF MemOK
  <2>13. QED BY <2>5, <2>8, <2>9, <2>10, <2>11, <2>12 DEF g, size
<1>4. QED BY <1>2, <1>3

LEMMA NextGood ==
  ASSUME NEW m, NEW L, MemOK(m, L), NEW cur \in DOMAIN m.fb.map_fm_, NEW reuse,
         NEW n \in Nat, m.fb.map_fm_[cur].size >= n, HasRoom(m, n)
  PROVE  LET g == TryMergeNext(m, cur, reuse)
         IN  MemOK(g, L) /\ g.pool = m.pool /\ HasRoom(g, n)
<1> DEFINE cs == m.fb.map_fm_[cur].size
           g == TryMergeNext(m, cur, reuse)
<1>1. cur \in Nat /\ cs \in Nat \ {0} /\ cur + cs <= m.pool
  BY BlockBounds DEF MemOK
<1>2. CASE ~ \E next \in DOMAIN m.fb.map_fm_ : Touches(m.fb, cur, next)
  <2>1. g = m
    BY <1>2, Zenon DEF TryMergeNext
  <2>2. QED BY <2>1
<1>3. CASE \E next \in DOMAIN m.fb.map_fm_ : Touches(m.fb, cur, next)
  <2>1. PICK next \in DOMAIN m.fb.map_fm_ :
               Touches(m.fb, cur, next) /\ g = MergeNext(m, cur, next, reuse)
    <3>1. PICK next : /\ next = CHOOSE p \in DOMAIN m.fb.map_fm_ : Touches(m.fb, cur, p)
                      /\ next \in DOMAIN m.fb.map_fm_ /\ Touches(m.fb, cur, next)
      BY <1>3, Zenon
    <3>2. g = MergeNext(m, cur, next, reuse)
      BY <1>3, <3>1, Zenon DEF TryMergeNext
    <3>3. QED BY <3>1, <3>2
  <2> DEFINE ns == m.fb.map_fm_[next].size
             fbt_deleted == IF reuse = "deleted" THEN Entry(cur, cs + ns) ELSE Entry(next, ns)
             fbt_new == IF reuse = "updated" THEN Entry(cur, cs + ns) ELSE Entry(cur, cs)
             set == (m.set_fm_ \ {fbt_deleted, Entry(cur, cs)}) \cup {fbt_new}
  <2>2. ns \in Nat \ {0}
    BY <2>1, BlockBounds DEF MemOK
  <2>3. /\ fbt_new.offset = cur /\ fbt_new.size \in Nat \ {0} /\ fbt_new.size >= n
        /\ fbt_new = Entry(fbt_new.offset, fbt_new.size)
    BY <1>1, <2>2 DEF Entry
  <2>4. g = [m EXCEPT !.fb = MergeBlocks(m.fb, cur, next), !.set_fm_ = set]
    BY <2>1, Zenon DEF MergeNext
  <2>5. fbt_new \in set /\ set \subseteq m.set_fm_ \cup {fbt_new}
    OBVIOUS
  <2> HIDE DEF set, fbt_new, fbt_deleted, ns, cs, g
  <2>6. IsMem(g) /\ g.pool = m.pool /\ g.fb = MergeBlocks(m.fb, cur, next) /\ g.set_fm_ = set
    <3>1. m = [fb |-> m.fb, set_fm_ |-> m.set_fm_, pool |-> m.pool]
      BY DEF MemOK, IsMem
    <3> DEFINE merged == MergeBlocks(m.fb, cur, next)
               entries == set
    <3>2. g = [m EXCEPT !.fb = merged, !.set_fm_ = entries]
      BY <2>4
    <3> HIDE DEF merged, entries
    <3>3. g = [fb |-> merged, set_fm_ |-> entries, pool |-> m.pool]
      BY <3>1, <3>2
    <3>4. IsMem(g) /\ g.fb = merged /\ g.set_fm_ = entries /\ g.pool = m.pool
      BY <3>3 DEF IsMem
    <3>5. QED BY <3>4 DEF merged, entries
  <2>7. F!Good(g.fb) /\ Sep(Ext(g.fb), L, m.pool)
    BY <2>1, <2>6, MergeExt, MergeSep DEF MemOK
  <2>8. SetOK(g)
    <3>1. fbt_new \in [offset : 0 .. m.pool - 1, size : Nat \ {0}]
      BY <1>1, <2>3 DEF Entry, MemOK
    <3>2. QED BY <2>5, <2>6, <3>1 DEF SetOK, MemOK
  <2>9. HasRoom(g, n)
    BY <2>3, <2>5, <2>6 DEF HasRoom
  <2>10. QED BY <2>6, <2>7, <2>8, <2>9 DEF MemOK, g
<1>4. QED BY <1>2, <1>3

\* What Free may be called with: an extent apart from every block and every extent in use.
Freeable(m, L, off, size) ==
  /\ IsMem(m) /\ SetOK(m) /\ m.pool \in Nat \ {0} /\ F!Good(m.fb)
  /\ MayAddTo(m.fb)
  /\ off \in Nat /\ size \in Nat \ {0}
  /\ <<off, size>> \notin Ext(m.fb)
  /\ Sep(Ext(m.fb) \cup {<<off, size>>}, L, m.pool)

LEMMA FreeableFresh ==
  ASSUME NEW m, NEW L, NEW off, NEW size, Freeable(m, L, off, size)
  PROVE  /\ off \notin DOMAIN m.fb.map_fm_ /\ off + size <= m.pool
         /\ Sep(Ext(m.fb), L, m.pool)
<1> DEFINE e == <<off, size>>
<1>1. IsExtent(e, m.pool) /\ e[1] = off /\ e[2] = size
  BY DEF Freeable, Sep
<1>2. off + size <= m.pool
  BY <1>1 DEF IsExtent
<1>3. Sep(Ext(m.fb), L, m.pool)
  BY SepSub DEF Freeable
<1>4. ASSUME off \in DOMAIN m.fb.map_fm_ PROVE FALSE
  <2> DEFINE f == <<off, m.fb.map_fm_[off].size>>
  <2>1. f \in Ext(m.fb) /\ f[1] = off
    BY <1>4 DEF Ext
  <2>2. Sep(Ext(m.fb) \cup {e}, L, m.pool) /\ e \notin Ext(m.fb)
    BY DEF Freeable
  <2> HIDE DEF e, f
  <2>3. e = f
    BY <1>1, <2>1, <2>2, SepStarts
  <2>4. QED BY <2>1, <2>2, <2>3
<1>5. QED BY <1>2, <1>3, <1>4

\* The first step of Free.
WithAdded(m, off, size) == [m EXCEPT !.fb = AddBlock(@, off, size),
                                     !.set_fm_ = @ \cup {Entry(off, size)}]

LEMMA AddedGood ==
  ASSUME NEW m, NEW L, NEW off, NEW size, Freeable(m, L, off, size)
  PROVE  LET g == WithAdded(m, off, size)
         IN  /\ MemOK(g, L) /\ g.pool = m.pool /\ g.fb = AddBlock(m.fb, off, size)
             /\ off \in DOMAIN g.fb.map_fm_ /\ g.fb.map_fm_[off].size = size
             /\ Entry(off, size) \in g.set_fm_
<1> DEFINE added == AddBlock(m.fb, off, size)
           entries == m.set_fm_ \cup {Entry(off, size)}
           g == WithAdded(m, off, size)
<1>1. g = [m EXCEPT !.fb = added, !.set_fm_ = entries]
  BY Zenon DEF WithAdded
<1> HIDE DEF g
<1>2. /\ F!Good(added) /\ off \in DOMAIN added.map_fm_ /\ added.map_fm_[off].size = size
      /\ Ext(added) = Ext(m.fb) \cup {<<off, size>>}
  <2>1. F!Good(m.fb) /\ MayAddTo(m.fb) /\ off \in Nat /\ size \in Nat \ {0}
    BY DEF Freeable
  <2>2. off \notin DOMAIN m.fb.map_fm_
    BY FreeableFresh
  <2>3. QED BY <2>1, <2>2, AddExt
<1>3. Entry(off, size) \in [offset : 0 .. m.pool - 1, size : Nat \ {0}]
  <2>1. off \in Nat /\ size \in Nat \ {0} /\ m.pool \in Nat
    BY DEF Freeable
  <2>2. off + size <= m.pool
    BY FreeableFresh
  <2>3. off \in 0 .. m.pool - 1
    BY <2>1, <2>2
  <2>4. QED BY <2>1, <2>3 DEF Entry
<1>4. m = [fb |-> m.fb, set_fm_ |-> m.set_fm_, pool |-> m.pool]
  BY DEF Freeable, IsMem
<1>5. Entry(off, size) \in entries /\ entries \subseteq [offset : 0 .. m.pool - 1, size : Nat \ {0}]
  BY <1>3 DEF Freeable, SetOK
<1> HIDE DEF added, entries
<1>6. g = [fb |-> added, set_fm_ |-> entries, pool |-> m.pool]
  BY <1>1, <1>4
<1>7. IsMem(g) /\ SetOK(g) /\ g.pool = m.pool /\ g.fb = added /\ g.set_fm_ = entries
  BY <1>5, <1>6 DEF IsMem, SetOK
<1>8. Sep(Ext(g.fb), L, g.pool)
  BY <1>2, <1>7 DEF Freeable
<1>9. QED BY <1>2, <1>5, <1>7, <1>8 DEF MemOK, Freeable, added, g

\* Free leaves a good manager that offers an entry of the size freed.
LEMMA FreeGood ==
  ASSUME NEW m, NEW L, NEW off, NEW size, Freeable(m, L, off, size), NEW rp, NEW rn
  PROVE  LET g == Free(m, off, size, rp, rn)
         IN  MemOK(g, L) /\ g.pool = m.pool /\ HasRoom(g, size)
<1> DEFINE added == WithAdded(m, off, size)
           back == TryMergePrev(added, off, rp)
           g == TryMergeNext(back, BlockOf(back.fb, off), rn)
<1>1. Free(m, off, size, rp, rn) = g
  BY Zenon DEF Free, WithAdded
<1>2. /\ MemOK(added, L) /\ added.pool = m.pool
      /\ off \in DOMAIN added.fb.map_fm_ /\ added.fb.map_fm_[off].size = size
      /\ Entry(off, added.fb.map_fm_[off].size) \in added.set_fm_
  BY AddedGood
<1> HIDE DEF added
<1>3. /\ MemOK(back, L) /\ back.pool = m.pool
      /\ BlockOf(back.fb, off) \in DOMAIN back.fb.map_fm_
      /\ back.fb.map_fm_[BlockOf(back.fb, off)].size >= size
      /\ HasRoom(back, size)
  BY <1>2, PrevGood
<1> HIDE DEF back
<1>4. size \in Nat
  BY DEF Freeable
<1>5. MemOK(g, L) /\ g.pool = back.pool /\ HasRoom(g, size)
  BY <1>3, <1>4, NextGood
<1>6. QED BY <1>1, <1>3, <1>5

\* So does every file a killed Free leaves, as far as the file goes.
LEMMA FreeCutsGood ==
  ASSUME NEW m, NEW L, NEW off, NEW size, Freeable(m, L, off, size),
         NEW file \in FreeCuts(m.fb, off, size)
  PROVE  F!FileOK(file) /\ Sep(SlotExt(file), L, m.pool)
<1> DEFINE added == AddBlock(m.fb, off, size)
           prevs == {prev \in DOMAIN added.map_fm_ : Touches(added, prev, off)}
           back == IF prevs = {} THEN added ELSE MergeBlocks(added, Least(prevs), off)
           cur == BlockOf(back, off)
           nexts == {n \in DOMAIN back.map_fm_ : Touches(back, cur, n)}
<1>1. \/ file \in AddBlockCuts(m.fb)
      \/ file = added
      \/ \E prev \in prevs : file \in MergeCuts(added, prev, off)
      \/ \E next \in nexts : file \in MergeCuts(back, cur, next)
  BY Zenon DEF FreeCuts
<1>2. F!Good(added) /\ Ext(added) = Ext(m.fb) \cup {<<off, size>>}
  BY FreeableFresh, AddExt, SMTT(30) DEF Freeable
<1>3. Sep(Ext(added), L, m.pool) /\ m.pool \in Nat /\ F!Good(m.fb) /\ MayAddTo(m.fb)
  BY <1>2 DEF Freeable
<1> HIDE DEF added
<1>4. F!Good(back) /\ Sep(Ext(back), L, m.pool)
  <2>1. CASE prevs = {}
    BY <1>2, <1>3, <2>1
  <2>2. CASE prevs # {}
    <3>1. DOMAIN added.map_fm_ \subseteq Nat
      BY <1>2, GoodExt
    <3>2. prevs \in SUBSET Nat
      BY <3>1
    <3> HIDE DEF prevs
    <3>3. Least(prevs) \in prevs
      BY <2>2, <3>2, F!LeastExists, Assumed, SameLeast, Zenon
    <3>4. Touches(added, Least(prevs), off)
      BY <3>3 DEF prevs
    <3>5. QED BY <1>2, <1>3, <2>2, <3>4, MergeExt, MergeSep
  <2>3. QED BY <2>1, <2>2
<1>5. \A prev \in prevs : Touches(added, prev, off)
  OBVIOUS
<1>6. \A next \in nexts : Touches(back, cur, next)
  OBVIOUS
<1> HIDE DEF prevs, back, cur, nexts
<1>7. CASE file \in AddBlockCuts(m.fb)
  BY <1>3, <1>7, AddCutsExt, FreeableFresh
<1>8. CASE file = added
  BY <1>2, <1>3, <1>8, GoodExt
<1>9. CASE \E prev \in prevs : file \in MergeCuts(added, prev, off)
  BY <1>2, <1>3, <1>5, <1>9, MergeSep
<1>10. CASE \E next \in nexts : file \in MergeCuts(back, cur, next)
  BY <1>3, <1>4, <1>6, <1>10, MergeSep
<1>11. QED BY <1>1, <1>7, <1>8, <1>9, <1>10

-----------------------------------------------------------------------------
(* Allocate.                                                               *)

LEMMA AlignUp ==
  ASSUME NEW n \in Nat, NEW a \in Nat \ {0}
  PROVE  align_size(n, a) \in Nat /\ align_size(n, a) >= n
<1>1. /\ n \div a \in Nat /\ n % a \in 0 .. a - 1
      /\ n = a * (n \div a) + (n % a)
  OBVIOUS
<1>2. (n \div a + 1) * a = a * (n \div a) + a
  BY <1>1
<1>3. (n \div a + 1) * a \in Nat /\ (n \div a + 1) * a >= n
  <2> DEFINE p == a * (n \div a)
  <2>1. p \in Nat
    BY <1>1
  <2> HIDE DEF p
  <2>2. QED BY <1>1, <1>2, <2>1 DEF p
<1>4. QED BY <1>3 DEF align_size

LEMMA PoolCovers ==
  ASSUME NEW m, m.pool \in Nat \ {0}, NEW r \in Nat \ {0}
  PROVE  PoolFor(m, r) \in Nat /\ PoolFor(m, r) - m.pool >= r /\ m.pool < PoolFor(m, r)
<1>1. align_size(r + m.pool, PageSize) \in Nat /\ align_size(r + m.pool, PageSize) >= r + m.pool
  <2>1. r + m.pool \in Nat /\ PageSize \in Nat \ {0}
    BY FileAssumption
  <2>2. QED BY <2>1, AlignUp
<1>2. QED BY <1>1 DEF PoolFor

\* The search for the best entry finds one that fits.
LEMMA BestFitFits ==
  ASSUME NEW m, SetOK(m), m.pool \in Nat, NEW r \in Nat, Fits(m, r) # {}
  PROVE  BestFit(m, r) \in Fits(m, r)
<1> DEFINE T == Fits(m, r)
           sizes == {e.size : e \in T}
           s == Least(sizes)
           rests == {m.pool - e.offset : e \in {x \in T : x.size = s}}
<1>1. \A e \in T : e.size \in Nat /\ e.offset \in Nat /\ m.pool - e.offset \in Nat
  BY DEF Fits, SetOK
<1> HIDE DEF T
<1>2. sizes \in SUBSET Nat /\ sizes # {}
  BY <1>1 DEF T
<1>3. s \in sizes /\ \A y \in sizes : s <= y
  <2> HIDE DEF sizes
  <2>1. QED BY <1>2, F!LeastExists, Assumed, SameLeast, Zenon
<1>4. PICK e0 \in T : e0.size = s
  BY <1>3
<1> HIDE DEF s
<1>5. rests \in SUBSET Nat /\ rests # {}
  BY <1>1, <1>4
<1>6. Least(rests) \in rests /\ \A y \in rests : Least(rests) <= y
  <2> HIDE DEF rests
  <2>1. QED BY <1>5, F!LeastExists, Assumed, SameLeast, Zenon
<1>7. PICK e \in T : e.size = s /\ Least(rests) = m.pool - e.offset
  BY <1>6
<1>8. ASSUME NEW x \in T
      PROVE  e.size < x.size \/ (e.size = x.size /\ e.offset >= x.offset)
  <2>1. s <= x.size
    BY <1>3
  <2>2. CASE x.size = s
    <3>1. m.pool - e.offset <= m.pool - x.offset
      BY <1>6, <1>7, <2>2
    <3>2. QED BY <1>1, <1>7, <2>2, <3>1
  <2>3. CASE x.size # s
    BY <1>1, <1>4, <1>7, <2>1, <2>3
  <2>4. QED BY <2>2, <2>3
<1>9. QED BY <1>7, <1>8, Zenon DEF BestFit, T

\* What TakeBlock does to the blocks and to set_fm_.
SplitTo(m, e, r) ==
  LET g == TakeBlock(m, e, r)
  IN  /\ r < e.size
      /\ Ext(g.fb) = (Ext(m.fb) \ {<<e.offset, e.size>>}) \cup {<<e.offset + r, e.size - r>>}
      /\ g.set_fm_ = (m.set_fm_ \ {e}) \cup {Entry(e.offset + r, e.size - r)}

TakenWhole(m, e, r) ==
  LET g == TakeBlock(m, e, r)
  IN  /\ Ext(g.fb) = Ext(m.fb) \ {<<e.offset, e.size>>}
      /\ g.set_fm_ = m.set_fm_ \ {e}

LEMMA TakeExt ==
  ASSUME NEW m, NEW L, MemOK(m, L), NEW r \in Nat \ {0}, NEW e \in EntriesOf(m.fb), e.size >= r
  PROVE  LET g == TakeBlock(m, e, r)
             a == <<e.offset, e.size>>
         IN  /\ IsMem(g) /\ g.pool = m.pool /\ F!Good(g.fb)
             /\ e.offset \in DOMAIN m.fb.map_fm_ /\ e.size = m.fb.map_fm_[e.offset].size
             /\ e.offset \in Nat /\ e.size \in Nat \ {0} /\ e.offset + e.size <= m.pool
             /\ e = Entry(e.offset, e.size) /\ a \in Ext(m.fb)
             /\ Splits(e, r) => SplitTo(m, e, r)
             /\ ~ Splits(e, r) => TakenWhole(m, e, r)
<1> DEFINE off == e.offset
           tail == Entry(off + r, e.size - r)
           g == TakeBlock(m, e, r)
<1>1. off \in DOMAIN m.fb.map_fm_ /\ e.size = m.fb.map_fm_[off].size /\ e = Entry(off, e.size)
  BY DEF EntriesOf, Entry
<1>2. /\ off \in Nat /\ e.size \in Nat \ {0} /\ off + e.size <= m.pool
      /\ <<off, e.size>> \in Ext(m.fb) /\ m.pool \in Nat
  BY <1>1, BlockBounds DEF MemOK
<1>3. m = [fb |-> m.fb, set_fm_ |-> m.set_fm_, pool |-> m.pool]
  BY DEF MemOK, IsMem
<1>4. F!Good(m.fb) /\ Sep(Ext(m.fb), L, m.pool)
  BY DEF MemOK
<1>5. CASE Splits(e, r)
  <2> DEFINE fb == UpdateBlock(m.fb, off, off + r, e.size - r)
             entries == (m.set_fm_ \ {e}) \cup {tail}
  <2>1. r < e.size
    BY <1>2, <1>5, AlignAssumption, FileAssumption DEF Splits
  <2>2. off + r \in Nat /\ e.size - r \in Nat \ {0} /\ off + r < m.pool
    BY <1>2, <2>1
  <2>3. off + r \notin DOMAIN m.fb.map_fm_ \ {off}
    <3>1. SUFFICES ASSUME off + r \in DOMAIN m.fb.map_fm_ PROVE FALSE
      OBVIOUS
    <3> DEFINE a == <<off, e.size>>
               b == <<off + r, m.fb.map_fm_[off + r].size>>
    <3>2. b \in Ext(m.fb) /\ b[1] = off + r /\ b[2] \in Nat \ {0} /\ a[1] = off /\ a[2] = e.size
      BY <1>4, <3>1, BlockBounds
    <3> HIDE DEF a, b
    <3>3. a = b \/ Disjoint(a, b)
      BY <1>2, <1>4, <3>2 DEF Sep, a
    <3>4. QED BY <1>2, <2>1, <3>2, <3>3 DEF Disjoint
  <2>4. /\ F!Good(fb)
        /\ Ext(fb) = (Ext(m.fb) \ {<<off, e.size>>}) \cup {<<off + r, e.size - r>>}
    BY <1>1, <1>4, <2>2, <2>3, UpdateExt
  <2>5. g = [m EXCEPT !.fb = fb, !.set_fm_ = entries]
    BY <1>5, Zenon DEF TakeBlock, Entry
  <2> HIDE DEF fb, entries, g
  <2>6. g = [fb |-> fb, set_fm_ |-> entries, pool |-> m.pool]
    BY <1>3, <2>5
  <2>7. IsMem(g) /\ g.fb = fb /\ g.set_fm_ = entries /\ g.pool = m.pool
    BY <2>6 DEF IsMem
  <2>8. SplitTo(m, e, r)
    BY <2>1, <2>4, <2>7 DEF SplitTo, g, entries
  <2>9. QED BY <1>1, <1>2, <1>5, <2>4, <2>7, <2>8 DEF g
<1>6. CASE ~ Splits(e, r)
  <2> DEFINE fb == DeleteBlock(m.fb, off)
             entries == m.set_fm_ \ {e}
  <2>1. F!Good(fb) /\ Ext(fb) = Ext(m.fb) \ {<<off, e.size>>}
    BY <1>1, <1>4, DeleteExt
  <2>2. g = [m EXCEPT !.fb = fb, !.set_fm_ = entries]
    BY <1>6, Zenon DEF TakeBlock
  <2> HIDE DEF fb, entries, g
  <2>3. g = [fb |-> fb, set_fm_ |-> entries, pool |-> m.pool]
    BY <1>3, <2>2
  <2>4. IsMem(g) /\ g.fb = fb /\ g.set_fm_ = entries /\ g.pool = m.pool
    BY <2>3 DEF IsMem
  <2>5. TakenWhole(m, e, r)
    BY <2>1, <2>4 DEF TakenWhole, g, entries
  <2>6. QED BY <1>1, <1>2, <1>6, <2>1, <2>4, <2>5 DEF g
<1>7. QED BY <1>5, <1>6

\* The block Allocate takes goes from the free extents to those in use.
LEMMA TakeGood ==
  ASSUME NEW m, NEW L, MemOK(m, L), NEW r \in Nat \ {0}, NEW e \in EntriesOf(m.fb), e.size >= r
  PROVE  LET g == TakeBlock(m, e, r)
         IN  /\ MemOK(g, L \cup {<<e.offset, RspSize(e, r)>>}) /\ g.pool = m.pool
             /\ MemOK(m, L) /\ RspSize(e, r) >= r
             /\ \A file \in TakeCuts(m, e, r) :
                  (file \in {m.fb, g.fb} \/ ~ Splits(e, r)) =>
                     F!FileOK(file) /\ Sep(SlotExt(file), L, m.pool)
<1> DEFINE off == e.offset
           tail == Entry(off + r, e.size - r)
           g == TakeBlock(m, e, r)
<1>1. /\ IsMem(g) /\ g.pool = m.pool /\ F!Good(g.fb)
      /\ off \in DOMAIN m.fb.map_fm_ /\ e.size = m.fb.map_fm_[off].size
      /\ off \in Nat /\ e.size \in Nat \ {0} /\ off + e.size <= m.pool
      /\ <<off, e.size>> \in Ext(m.fb)
  BY TakeExt
<1>2. m.pool \in Nat /\ F!Good(m.fb) /\ Sep(Ext(m.fb), L, m.pool)
  BY DEF MemOK
<1>3. CASE Splits(e, r)
  <2>1. /\ r < e.size
        /\ Ext(g.fb) = (Ext(m.fb) \ {<<off, e.size>>}) \cup {<<off + r, e.size - r>>}
        /\ g.set_fm_ = (m.set_fm_ \ {e}) \cup {tail}
    <3>1. SplitTo(m, e, r)
      BY <1>3, TakeExt
    <3>2. QED BY <3>1 DEF SplitTo
  <2> HIDE DEF g
  <2>2. Sep(Ext(g.fb), L \cup {<<off, r>>}, m.pool)
    <3> DEFINE a == <<off, e.size>>
    <3>1. a \in Ext(m.fb) /\ a[1] = off /\ a[2] = e.size /\ r < a[2]
      BY <1>1, <2>1
    <3> HIDE DEF a
    <3>2. Sep((Ext(m.fb) \ {a}) \cup {<<a[1] + r, a[2] - r>>}, L \cup {<<a[1], r>>}, m.pool)
      BY <1>2, <3>1, SepSplit, SMTT(30)
    <3>3. QED BY <2>1, <3>1, <3>2 DEF a
  <2>3. SetOK(g)
    <3>1. off + r \in 0 .. m.pool - 1 /\ e.size - r \in Nat \ {0}
      BY <1>1, <1>2, <2>1
    <3>2. QED BY <1>1, <2>1, <3>1 DEF MemOK, SetOK, Entry
  <2>4. RspSize(e, r) = r
    BY <1>3 DEF RspSize
  <2>5. MemOK(g, L \cup {<<off, RspSize(e, r)>>})
    BY <1>1, <2>2, <2>3, <2>4 DEF MemOK
  <2>6. ASSUME NEW file \in {m.fb, g.fb}
        PROVE  F!FileOK(file) /\ Sep(SlotExt(file), L, m.pool)
    <3>1. Sep(Ext(g.fb), L, m.pool)
      BY <2>2, SepSub
    <3>2. QED BY <1>1, <1>2, <2>6, <3>1, GoodExt
  <2>7. QED BY <1>1, <1>3, <2>4, <2>5, <2>6 DEF g
<1>4. CASE ~ Splits(e, r)
  <2>1. Ext(g.fb) = Ext(m.fb) \ {<<off, e.size>>} /\ g.set_fm_ = m.set_fm_ \ {e}
    <3>1. TakenWhole(m, e, r)
      BY <1>4, TakeExt
    <3>2. QED BY <3>1 DEF TakenWhole
  <2> HIDE DEF g
  <2>2. Sep(Ext(g.fb), L \cup {<<off, e.size>>}, m.pool) /\ Sep(Ext(g.fb), L, m.pool)
    BY <1>1, <1>2, <2>1, SepMove, SepSub
  <2>3. SetOK(g)
    BY <1>1, <2>1 DEF MemOK, SetOK
  <2>4. RspSize(e, r) = e.size
    BY <1>4 DEF RspSize
  <2>5. MemOK(g, L \cup {<<off, RspSize(e, r)>>})
    BY <1>1, <2>2, <2>3, <2>4 DEF MemOK
  <2>6. ASSUME NEW file \in TakeCuts(m, e, r)
        PROVE  F!FileOK(file) /\ Sep(SlotExt(file), L, m.pool)
    <3>1. file = g.fb \/ file \in DeleteBlockCuts(m.fb, off)
      BY <1>4, <2>6 DEF TakeCuts, g
    <3>2. CASE file = g.fb
      BY <1>1, <2>2, <3>2, GoodExt
    <3>3. CASE file \in DeleteBlockCuts(m.fb, off)
      <4>1. F!FileOK(file) /\ SlotExt(file) \in {Ext(m.fb), Ext(m.fb) \ {<<off, e.size>>}}
        BY <1>1, <1>2, <3>3, DeleteCutsExt
      <4>2. QED BY <1>2, <4>1, SepSub
    <3>4. QED BY <3>1, <3>2, <3>3
  <2>7. QED BY <1>1, <2>4, <2>5, <2>6 DEF g
<1>5. QED BY <1>3, <1>4

-----------------------------------------------------------------------------
(* Restarts and growth.                                                    *)

\* Opening a good file next to the extents the client has.
LEMMA OpenMemGood ==
  ASSUME NEW file, F!FileOK(file), NEW L, NEW pool \in Nat \ {0}, Sep(SlotExt(file), L, pool)
  PROVE  MemOK(OpenMemory(file, pool), L)
<1> DEFINE fb == OpenFile(file)
           m == OpenMemory(file, pool)
<1>1. m = [fb |-> fb, set_fm_ |-> EntriesOf(fb), pool |-> pool]
  BY Zenon DEF OpenMemory
<1>2. F!Good(fb) /\ Sep(Ext(fb), L, pool)
  BY OpenExt
<1> HIDE DEF fb, m
<1>3. ASSUME NEW e \in EntriesOf(fb) PROVE e \in [offset : 0 .. pool - 1, size : Nat \ {0}]
  <2>1. PICK off \in DOMAIN fb.map_fm_ : e = Entry(off, fb.map_fm_[off].size)
    BY DEF EntriesOf
  <2>2. off \in Nat /\ fb.map_fm_[off].size \in Nat \ {0} /\ off + fb.map_fm_[off].size <= pool
    BY <1>2, BlockBounds
  <2>3. off \in 0 .. pool - 1
    BY <2>2
  <2>4. QED BY <2>1, <2>2, <2>3 DEF Entry
<1>4. IsMem(m) /\ SetOK(m) /\ m.fb = fb /\ m.pool = pool
  BY <1>1, <1>3 DEF IsMem, SetOK
<1>5. QED BY <1>2, <1>4 DEF MemOK, m

\* A new pool is one free block.
LEMMA CreateMemGood ==
  ASSUME MaxPages \in 1 .. 2
  PROVE  MemOK(OpenMemory(CreateFile(SizeOfData, 0), SizeOfData), {})
<1> DEFINE f == CreateFile(SizeOfData, 0)
           whole == <<0, SizeOfData>>
<1>1. SizeOfData \in Nat \ {0}
  BY PoolAssumption
<1>2. F!FileOK(f) /\ SlotExt(f) = {whole}
  BY CreateExt
<1>3. IsExtent(whole, SizeOfData)
  BY <1>1 DEF IsExtent
<1> HIDE DEF f, whole
<1>4. Sep(SlotExt(f), {}, SizeOfData)
  BY <1>2, <1>3 DEF Sep
<1>5. QED BY <1>1, <1>2, <1>4, OpenMemGood DEF f

\* The part the pool grows by may be freed.
LEMMA GrownFreeable ==
  ASSUME NEW m, NEW L, MemOK(m, L), MayAddTo(m.fb), NEW larger \in Nat, m.pool < larger
  PROVE  Freeable([m EXCEPT !.pool = larger], L, m.pool, larger - m.pool)
<1> DEFINE g == [m EXCEPT !.pool = larger]
           e == <<m.pool, larger - m.pool>>
<1>1. g = [fb |-> m.fb, set_fm_ |-> m.set_fm_, pool |-> larger] /\ m.pool \in Nat \ {0}
  BY DEF MemOK, IsMem
<1> HIDE DEF g
<1>2. IsMem(g) /\ SetOK(g) /\ g.fb = m.fb /\ g.pool = larger
  <2>1. 0 .. m.pool - 1 \subseteq 0 .. larger - 1
    BY <1>1
  <2>2. QED BY <1>1, <2>1 DEF IsMem, SetOK, MemOK
<1>3. Sep(Ext(m.fb) \cup {e}, L, larger)
  BY <1>1, SepGrow DEF MemOK
<1>4. e \notin Ext(m.fb)
  <2>1. SUFFICES ASSUME e \in Ext(m.fb) PROVE FALSE
    OBVIOUS
  <2>2. IsExtent(e, m.pool)
    BY <2>1 DEF MemOK, Sep
  <2>3. e[1] = m.pool
    OBVIOUS
  <2>4. QED BY <1>1, <2>2, <2>3 DEF IsExtent
<1>5. m.pool \in Nat /\ larger - m.pool \in Nat \ {0}
  BY <1>1
<1>6. QED BY <1>2, <1>3, <1>4, <1>5 DEF Freeable, MemOK, g

-----------------------------------------------------------------------------
(* A manager next to extents in use: what callers need of Free and Allocate.*)

LEMMA MemSub ==
  ASSUME NEW m, NEW L, MemOK(m, L), NEW L2 \in SUBSET L
  PROVE  MemOK(m, L2)
<1>1. Sep(Ext(m.fb), L2, m.pool)
  BY SepSub DEF MemOK
<1>2. QED BY <1>1 DEF MemOK

\* An extent in use may be freed once.
LEMMA UsedFreeable ==
  ASSUME NEW m, NEW L, MemOK(m, L), MayAddTo(m.fb), NEW e \in L
  PROVE  Freeable(m, L \ {e}, e[1], e[2])
<1>1. Sep(Ext(m.fb), L, m.pool)
  BY DEF MemOK
<1>2. IsExtent(e, m.pool) /\ e \notin Ext(m.fb)
  BY <1>1 DEF Sep
<1>3. e[1] \in Nat /\ e[2] \in Nat \ {0} /\ e = <<e[1], e[2]>>
  BY <1>2 DEF IsExtent
<1>4. Sep(Ext(m.fb) \cup {e}, L \ {e}, m.pool)
  BY <1>1, SepMove
<1>5. QED BY <1>2, <1>3, <1>4 DEF Freeable, MemOK

\* The files a killed Free leaves open into a good manager.
LEMMA FreeCutsMem ==
  ASSUME NEW m, NEW L, NEW off, NEW size, Freeable(m, L, off, size),
         NEW file \in FreeCuts(m.fb, off, size)
  PROVE  MemOK(OpenMemory(file, m.pool), L)
<1>1. F!FileOK(file) /\ Sep(SlotExt(file), L, m.pool)
  BY FreeCutsGood
<1>2. m.pool \in Nat \ {0}
  BY DEF Freeable
<1>3. QED BY <1>1, <1>2, OpenMemGood

LEMMA ReopenGood ==
  ASSUME NEW m, NEW L, MemOK(m, L)
  PROVE  MemOK(OpenMemory(m.fb, m.pool), L)
<1>1. F!FileOK(m.fb) /\ Ext(m.fb) = SlotExt(m.fb)
  BY GoodExt DEF MemOK
<1>2. Sep(SlotExt(m.fb), L, m.pool) /\ m.pool \in Nat \ {0}
  BY <1>1 DEF MemOK
<1>3. QED BY <1>1, <1>2, OpenMemGood

\* The pool is grown far enough for the request, and so are the files of a kill.
LEMMA GrowGood ==
  ASSUME NEW m, NEW L, MemOK(m, L), MayAddTo(m.fb), NEW r \in Nat \ {0}
  PROVE  /\ PoolFor(m, r) \in Nat /\ PoolFor(m, r) > m.pool
         /\ \A rp, rn : LET g == Grow(m, PoolFor(m, r), rp, rn)
                        IN  MemOK(g, L) /\ g.pool = PoolFor(m, r) /\ Fits(g, r) # {}
         /\ \A file \in FreeCuts(m.fb, m.pool, PoolFor(m, r) - m.pool) :
              MemOK(OpenMemory(file, PoolFor(m, r)), L)
<1> DEFINE new == PoolFor(m, r)
           grown == [m EXCEPT !.pool = new]
<1>1. m.pool \in Nat \ {0}
  BY DEF MemOK
<1>2. new \in Nat /\ new - m.pool >= r /\ m.pool < new
  BY <1>1, PoolCovers
<1>3. Freeable(grown, L, m.pool, new - m.pool)
  BY <1>2, GrownFreeable
<1>4. grown.fb = m.fb /\ grown.pool = new
  BY DEF MemOK, IsMem
<1>5. \A rp, rn : Grow(m, new, rp, rn) = Free(grown, m.pool, new - m.pool, rp, rn)
  BY Zenon DEF Grow
<1> HIDE DEF new, grown
<1>6. ASSUME NEW rp, NEW rn
      PROVE  LET g == Grow(m, new, rp, rn)
             IN  MemOK(g, L) /\ g.pool = new /\ Fits(g, r) # {}
  <2> DEFINE g == Free(grown, m.pool, new - m.pool, rp, rn)
  <2>1. MemOK(g, L) /\ g.pool = new /\ HasRoom(g, new - m.pool)
    BY <1>3, <1>4, FreeGood
  <2> HIDE DEF g
  <2>2. PICK e \in g.set_fm_ : e.size >= new - m.pool
    BY <2>1 DEF HasRoom
  <2>3. e.size \in Nat
    BY <2>1 DEF MemOK, SetOK
  <2>4. e.size >= r
    BY <1>1, <1>2, <2>2, <2>3
  <2>5. Fits(g, r) # {}
    BY <2>4 DEF Fits
  <2>6. g = Grow(m, new, rp, rn)
    BY <1>5 DEF g
  <2>7. QED BY <2>1, <2>5, <2>6
<1>7. \A file \in FreeCuts(m.fb, m.pool, new - m.pool) : MemOK(OpenMemory(file, new), L)
  BY <1>3, <1>4, FreeCutsMem
<1>8. QED BY <1>1, <1>2, <1>6, <1>7 DEF new

\* What is handed out of entry e is large enough, inside the pool and apart from all
\* in use; the manager is good next to it, and opens so after a kill.
TakenFrom(m, L, r, e, size) ==
  LET x == <<e.offset, size>>
      g == TakeBlock(m, e, r)
  IN  /\ e.offset \in Nat /\ size \in Nat \ {0} /\ size >= r
      /\ e.offset + size <= m.pool /\ g.pool = m.pool
      /\ \A f \in L : e.offset # f[1] /\ Disjoint(x, f)
      /\ MemOK(g, L \cup {x}) /\ MemOK(OpenMemory(g.fb, m.pool), L \cup {x})
      /\ \A file \in TakeCuts(m, e, r) :
           (file \in {m.fb, g.fb} \/ ~ Splits(e, r)) => MemOK(OpenMemory(file, m.pool), L)

LEMMA TakeMem ==
  ASSUME NEW m, NEW L, MemOK(m, L), NEW r \in Nat \ {0}, Fits(m, r) # {},
         NEW e, e = BestFit(m, r), IsBlock(m, e),
         NEW size, size = RspSize(e, r)
  PROVE  TakenFrom(m, L, r, e, size)
<1> DEFINE g == TakeBlock(m, e, r)
           x == <<e.offset, size>>
<1>1. m.pool \in Nat \ {0} /\ SetOK(m) /\ Sep(Ext(m.fb), L, m.pool)
  BY DEF MemOK
<1>2. e \in Fits(m, r)
  BY <1>1, BestFitFits
<1>3. e.size >= r /\ e \in EntriesOf(m.fb)
  BY <1>2 DEF Fits, IsBlock
<1>4. /\ MemOK(g, L \cup {x}) /\ g.pool = m.pool /\ size >= r
      /\ \A file \in TakeCuts(m, e, r) :
           (file \in {m.fb, g.fb} \/ ~ Splits(e, r)) =>
              F!FileOK(file) /\ Sep(SlotExt(file), L, m.pool)
  BY <1>3, TakeGood
<1> HIDE DEF g
<1>5. /\ e.offset \in Nat /\ size \in Nat \ {0} /\ e.offset + size <= m.pool
      /\ x[1] = e.offset /\ x[2] = size
  <2>1. IsExtent(x, m.pool)
    BY <1>4 DEF MemOK, Sep
  <2>2. QED BY <2>1 DEF IsExtent
<1>6. ASSUME NEW f \in L PROVE e.offset # f[1]
  <2> DEFINE b == <<e.offset, e.size>>
  <2>1. b \in Ext(m.fb) /\ b[1] = e.offset
    BY <1>3 DEF EntriesOf, Entry, Ext
  <2> HIDE DEF b
  <2>2. SUFFICES ASSUME e.offset = f[1] PROVE FALSE
    OBVIOUS
  <2>3. b = f
    BY <1>1, <2>1, <2>2, SepStarts
  <2>4. QED BY <1>1, <2>1, <2>3 DEF Sep
<1>7. ASSUME NEW f \in L PROVE Disjoint(x, f)
  <2>1. Sep(Ext(g.fb), L \cup {x}, g.pool)
    BY <1>4 DEF MemOK
  <2>2. x # f
    BY <1>5, <1>6
  <2> HIDE DEF x
  <2>3. QED BY <2>1, <2>2 DEF Sep
<1>8. MemOK(OpenMemory(g.fb, m.pool), L \cup {x})
  BY <1>4, ReopenGood
<1>9. \A file \in TakeCuts(m, e, r) :
         (file \in {m.fb, g.fb} \/ ~ Splits(e, r)) => MemOK(OpenMemory(file, m.pool), L)
  BY <1>1, <1>4, OpenMemGood
<1>10. QED BY <1>4, <1>5, <1>6, <1>7, <1>8, <1>9 DEF TakenFrom, g

-----------------------------------------------------------------------------
(* The bytes that extents cover.                                           *)

LEMMA BytesOfUnion ==
  ASSUME NEW D, NEW E
  PROVE  BytesOf(D \cup E) = BytesOf(D) \cup BytesOf(E)
BY DEF BytesOf

LEMMA BytesOfOne ==
  ASSUME NEW e
  PROVE  BytesOf({e}) = Bytes(e[1], e[2])
BY DEF BytesOf

\* Extents that lie apart cover no byte twice.
LEMMA SepBytes ==
  ASSUME NEW E, NEW L, NEW pool, Sep(E, L, pool)
  PROVE  /\ \A e, f \in E \cup L : e = f \/ Bytes(e[1], e[2]) \cap Bytes(f[1], f[2]) = {}
         /\ BytesOf(E) \cap BytesOf(L) = {}
<1>1. ASSUME NEW e \in E \cup L, NEW f \in E \cup L, e # f
      PROVE  Bytes(e[1], e[2]) \cap Bytes(f[1], f[2]) = {}
  <2>1. IsExtent(e, pool) /\ IsExtent(f, pool) /\ Disjoint(e, f)
    BY <1>1 DEF Sep
  <2>2. QED BY <2>1 DEF IsExtent, Disjoint, Bytes
<1>2. \A e \in E, f \in L : e # f
  BY DEF Sep
<1>3. BytesOf(E) \cap BytesOf(L) = {}
  BY <1>1, <1>2 DEF BytesOf
<1>4. QED BY <1>1, <1>3

\* One of them given up uncovers its bytes and no other.
LEMMA BytesOfLess ==
  ASSUME NEW E, NEW L, NEW pool, Sep(E, L, pool), NEW e \in E
  PROVE  /\ BytesOf(E \ {e}) = BytesOf(E) \ Bytes(e[1], e[2])
         /\ Bytes(e[1], e[2]) \subseteq BytesOf(E)
<1>1. \A f \in E \ {e} : Bytes(f[1], f[2]) \cap Bytes(e[1], e[2]) = {}
  BY SepBytes
<1>2. QED BY <1>1 DEF BytesOf

\* Two neighbours made one cover what they covered.
LEMMA BytesOfMerged ==
  ASSUME NEW E, NEW L, NEW pool, Sep(E, L, pool), NEW a \in E, NEW b \in E, a[1] + a[2] = b[1]
  PROVE  BytesOf((E \ {a, b}) \cup {<<a[1], a[2] + b[2]>>}) = BytesOf(E)
<1> DEFINE c == <<a[1], a[2] + b[2]>>
<1>1. IsExtent(a, pool) /\ IsExtent(b, pool) /\ c[1] = a[1] /\ c[2] = a[2] + b[2]
  BY DEF Sep
<1> HIDE DEF c
<1>2. Bytes(c[1], c[2]) = Bytes(a[1], a[2]) \cup Bytes(b[1], b[2])
  BY <1>1 DEF IsExtent, Bytes
<1>3. QED BY <1>2 DEF BytesOf, c

\* What a kill may do to the bytes covered: nothing, or uncover one extent.
KeepsOrLosesOne(covered, left, pool) ==
  \/ left = covered
  \/ \E e : /\ IsExtent(e, pool) /\ Bytes(e[1], e[2]) \subseteq covered
            /\ left = covered \ Bytes(e[1], e[2])

LEMMA LosesOne ==
  ASSUME NEW E, NEW L, NEW pool, Sep(E, L, pool), NEW e \in E
  PROVE  KeepsOrLosesOne(BytesOf(E), BytesOf(E \ {e}), pool)
<1>1. IsExtent(e, pool)
  BY DEF Sep
<1>2. QED BY <1>1, BytesOfLess DEF KeepsOrLosesOne

LEMMA MergeCovers ==
  ASSUME NEW f, F!Good(f), NEW L, NEW pool \in Nat, Sep(Ext(f), L, pool),
         NEW off, NEW next, Touches(f, off, next)
  PROVE  /\ BytesOf(Ext(MergeBlocks(f, off, next))) = BytesOf(Ext(f))
         /\ \A file \in MergeCuts(f, off, next) :
              KeepsOrLosesOne(BytesOf(Ext(f)), BytesOf(SlotExt(file)), pool)
<1> DEFINE a == <<off, f.map_fm_[off].size>>
           b == <<next, f.map_fm_[next].size>>
<1>1. off \in DOMAIN f.map_fm_ /\ next \in DOMAIN f.map_fm_ /\ off + f.map_fm_[off].size = next
  BY DEF Touches
<1>2. a \in Ext(f) /\ b \in Ext(f) /\ a[1] + a[2] = b[1]
      /\ a[1] = off /\ a[2] = f.map_fm_[off].size /\ b[2] = f.map_fm_[next].size
  BY <1>1 DEF Ext
<1>3. Merged(f, off, next) = (Ext(f) \ {a, b}) \cup {<<a[1], a[2] + b[2]>>}
  BY <1>2 DEF Merged
<1>4. /\ Ext(MergeBlocks(f, off, next)) = Merged(f, off, next)
      /\ \A file \in MergeCuts(f, off, next) :
           SlotExt(file) \in {Ext(f), Ext(f) \ {b}, Merged(f, off, next)}
  BY MergeExt, Zenon
<1> HIDE DEF a, b
<1>5. BytesOf(Merged(f, off, next)) = BytesOf(Ext(f))
  BY <1>2, <1>3, BytesOfMerged
<1>6. KeepsOrLosesOne(BytesOf(Ext(f)), BytesOf(Ext(f) \ {b}), pool)
  BY <1>2, LosesOne
<1>7. KeepsOrLosesOne(BytesOf(Ext(f)), BytesOf(Ext(f)), pool)
  BY DEF KeepsOrLosesOne
<1>8. QED BY <1>4, <1>5, <1>6, <1>7

LEMMA TryPrevCovers ==
  ASSUME NEW m, NEW L, MemOK(m, L), NEW off, NEW reuse
  PROVE  BytesOf(Ext(TryMergePrev(m, off, reuse).fb)) = BytesOf(Ext(m.fb))
<1>1. CASE ~ \E prev \in DOMAIN m.fb.map_fm_ : Touches(m.fb, prev, off)
  BY <1>1, Zenon DEF TryMergePrev
<1>2. CASE \E prev \in DOMAIN m.fb.map_fm_ : Touches(m.fb, prev, off)
  <2>1. PICK prev : /\ prev = CHOOSE p \in DOMAIN m.fb.map_fm_ : Touches(m.fb, p, off)
                    /\ Touches(m.fb, prev, off)
    BY <1>2, Zenon
  <2>2. TryMergePrev(m, off, reuse) = MergePrev(m, prev, off, reuse)
    BY <1>2, <2>1, Zenon DEF TryMergePrev
  <2>3. MergePrev(m, prev, off, reuse).fb = MergeBlocks(m.fb, prev, off)
    BY DEF MergePrev, MemOK, IsMem
  <2>4. QED BY <2>1, <2>2, <2>3, MergeCovers DEF MemOK
<1>3. QED BY <1>1, <1>2

LEMMA TryNextCovers ==
  ASSUME NEW m, NEW L, MemOK(m, L), NEW cur, NEW reuse
  PROVE  BytesOf(Ext(TryMergeNext(m, cur, reuse).fb)) = BytesOf(Ext(m.fb))
<1>1. CASE ~ \E next \in DOMAIN m.fb.map_fm_ : Touches(m.fb, cur, next)
  BY <1>1, Zenon DEF TryMergeNext
<1>2. CASE \E next \in DOMAIN m.fb.map_fm_ : Touches(m.fb, cur, next)
  <2>1. PICK next : /\ next = CHOOSE n \in DOMAIN m.fb.map_fm_ : Touches(m.fb, cur, n)
                    /\ Touches(m.fb, cur, next)
    BY <1>2, Zenon
  <2>2. TryMergeNext(m, cur, reuse) = MergeNext(m, cur, next, reuse)
    BY <1>2, <2>1, Zenon DEF TryMergeNext
  <2>3. MergeNext(m, cur, next, reuse).fb = MergeBlocks(m.fb, cur, next)
    BY DEF MergeNext, MemOK, IsMem
  <2>4. QED BY <2>1, <2>2, <2>3, MergeCovers DEF MemOK
<1>3. QED BY <1>1, <1>2

LEMMA AddCovers ==
  ASSUME NEW m, NEW L, NEW off, NEW size, Freeable(m, L, off, size)
  PROVE  LET g == AddBlock(m.fb, off, size)
         IN  /\ F!Good(g) /\ Ext(g) = Ext(m.fb) \cup {<<off, size>>}
             /\ BytesOf(Ext(g)) = BytesOf(Ext(m.fb)) \cup Bytes(off, size)
<1> DEFINE g == AddBlock(m.fb, off, size)
           e == <<off, size>>
<1>1. F!Good(m.fb) /\ MayAddTo(m.fb) /\ off \in Nat /\ size \in Nat \ {0}
  BY DEF Freeable
<1>2. off \notin DOMAIN m.fb.map_fm_
  BY FreeableFresh
<1>3. F!Good(g) /\ Ext(g) = Ext(m.fb) \cup {e}
  BY <1>1, <1>2, AddExt
<1>4. e[1] = off /\ e[2] = size
  OBVIOUS
<1> HIDE DEF g, e
<1>5. BytesOf({e}) = Bytes(off, size)
  BY <1>4, BytesOfOne
<1>6. BytesOf(Ext(g)) = BytesOf(Ext(m.fb)) \cup BytesOf({e})
  BY <1>3, BytesOfUnion
<1>7. QED BY <1>3, <1>5, <1>6 DEF g, e

\* Freeing an extent adds its bytes to the free ones, whatever it is merged with.
LEMMA FreeCovers ==
  ASSUME NEW m, NEW L, NEW off, NEW size, Freeable(m, L, off, size), NEW rp, NEW rn
  PROVE  BytesOf(Ext(Free(m, off, size, rp, rn).fb)) = BytesOf(Ext(m.fb)) \cup Bytes(off, size)
<1> DEFINE added == WithAdded(m, off, size)
           back == TryMergePrev(added, off, rp)
           g == TryMergeNext(back, BlockOf(back.fb, off), rn)
<1>1. Free(m, off, size, rp, rn) = g
  BY Zenon DEF Free, WithAdded
<1>2. /\ MemOK(added, L) /\ added.fb = AddBlock(m.fb, off, size)
      /\ off \in DOMAIN added.fb.map_fm_ /\ added.fb.map_fm_[off].size = size
      /\ Entry(off, added.fb.map_fm_[off].size) \in added.set_fm_
  BY AddedGood
<1>3. BytesOf(Ext(added.fb)) = BytesOf(Ext(m.fb)) \cup Bytes(off, size)
  BY <1>2, AddCovers
<1> HIDE DEF added
<1>5. MemOK(back, L)
  BY <1>2, PrevGood
<1>6. BytesOf(Ext(back.fb)) = BytesOf(Ext(added.fb))
  BY <1>2, TryPrevCovers
<1> HIDE DEF back
<1>7. BytesOf(Ext(g.fb)) = BytesOf(Ext(back.fb))
  BY <1>5, TryNextCovers
<1>8. QED BY <1>1, <1>3, <1>6, <1>7

\* A killed Free keeps every byte free, or loses one extent: the one being freed
\* or a block being merged.
LEMMA FreeCutsCover ==
  ASSUME NEW m, NEW L, NEW off, NEW size, Freeable(m, L, off, size),
         NEW file \in FreeCuts(m.fb, off, size)
  PROVE  KeepsOrLosesOne(BytesOf(Ext(m.fb)) \cup Bytes(off, size), BytesOf(SlotExt(file)), m.pool)
<1> DEFINE added == AddBlock(m.fb, off, size)
           prevs == {prev \in DOMAIN added.map_fm_ : Touches(added, prev, off)}
           back == IF prevs = {} THEN added ELSE MergeBlocks(added, Least(prevs), off)
           cur == BlockOf(back, off)
           nexts == {n \in DOMAIN back.map_fm_ : Touches(back, cur, n)}
           e == <<off, size>>
           all == BytesOf(Ext(m.fb)) \cup Bytes(off, size)
<1>1. \/ file \in AddBlockCuts(m.fb)
      \/ file = added
      \/ \E prev \in prevs : file \in MergeCuts(added, prev, off)
      \/ \E next \in nexts : file \in MergeCuts(back, cur, next)
  BY Zenon DEF FreeCuts
<1>2. F!Good(added) /\ Ext(added) = Ext(m.fb) \cup {e} /\ BytesOf(Ext(added)) = all
  BY AddCovers
<1>3. /\ Sep(Ext(added), L, m.pool) /\ m.pool \in Nat /\ F!Good(m.fb) /\ MayAddTo(m.fb)
      /\ e \notin Ext(m.fb) /\ e[1] = off /\ e[2] = size
  BY <1>2 DEF Freeable
<1> HIDE DEF added, e
<1>4. BytesOf(Ext(added)) = all
  BY <1>2
<1>5. F!Good(back) /\ Sep(Ext(back), L, m.pool) /\ BytesOf(Ext(back)) = all
  <2>1. CASE prevs = {}
    BY <1>2, <1>3, <1>4, <2>1
  <2>2. CASE prevs # {}
    <3>1. DOMAIN added.map_fm_ \subseteq Nat
      BY <1>2, GoodExt
    <3>2. prevs \in SUBSET Nat
      BY <3>1
    <3> HIDE DEF prevs
    <3>3. Least(prevs) \in prevs
      BY <2>2, <3>2, F!LeastExists, Assumed, SameLeast, Zenon
    <3>4. Touches(added, Least(prevs), off)
      BY <3>3 DEF prevs
    <3>5. F!Good(back) /\ Sep(Ext(back), L, m.pool)
      BY <1>2, <1>3, <2>2, <3>4, MergeExt, MergeSep
    <3>6. BytesOf(Ext(back)) = BytesOf(Ext(added))
      BY <1>2, <1>3, <2>2, <3>4, MergeCovers
    <3>7. QED BY <1>4, <3>5, <3>6
  <2>3. QED BY <2>1, <2>2
<1>6. \A prev \in prevs : Touches(added, prev, off)
  OBVIOUS
<1>7. \A next \in nexts : Touches(back, cur, next)
  OBVIOUS
<1> HIDE DEF prevs, back, cur, nexts, all
<1>8. CASE file \in AddBlockCuts(m.fb)
  <2>1. SlotExt(file) = Ext(m.fb)
    BY <1>3, <1>8, AddCutsExt
  <2>2. Ext(added) \ {e} = Ext(m.fb) /\ e \in Ext(added)
    BY <1>2, <1>3
  <2>3. KeepsOrLosesOne(BytesOf(Ext(added)), BytesOf(Ext(added) \ {e}), m.pool)
    BY <1>3, <2>2, LosesOne
  <2>4. QED BY <1>4, <2>1, <2>2, <2>3 DEF all
<1>9. CASE file = added
  <2>1. BytesOf(SlotExt(file)) = all
    BY <1>2, <1>4, <1>9, GoodExt
  <2>2. QED BY <2>1 DEF KeepsOrLosesOne, all
<1>10. CASE \E prev \in prevs : file \in MergeCuts(added, prev, off)
  <2>1. KeepsOrLosesOne(BytesOf(Ext(added)), BytesOf(SlotExt(file)), m.pool)
    BY <1>2, <1>3, <1>6, <1>10, MergeCovers
  <2>2. QED BY <1>4, <2>1 DEF all
<1>11. CASE \E next \in nexts : file \in MergeCuts(back, cur, next)
  <2>1. KeepsOrLosesOne(BytesOf(Ext(back)), BytesOf(SlotExt(file)), m.pool)
    BY <1>3, <1>5, <1>7, <1>11, MergeCovers
  <2>2. QED BY <1>5, <2>1 DEF all
<1>12. QED BY <1>1, <1>8, <1>9, <1>10, <1>11

\* What is taken was free, all of it; a kill loses that extent or nothing.
LEMMA TakeCovers ==
  ASSUME NEW m, NEW L, MemOK(m, L), NEW r \in Nat \ {0}, NEW e \in EntriesOf(m.fb), e.size >= r
  PROVE  LET taken == Bytes(e.offset, RspSize(e, r))
         IN  /\ taken \subseteq BytesOf(Ext(m.fb))
             /\ BytesOf(Ext(TakeBlock(m, e, r).fb)) = BytesOf(Ext(m.fb)) \ taken
             /\ \A file \in TakeCuts(m, e, r) :
                  (file \in {m.fb, TakeBlock(m, e, r).fb} \/ ~ Splits(e, r)) =>
                     KeepsOrLosesOne(BytesOf(Ext(m.fb)), BytesOf(SlotExt(file)), m.pool)
<1> DEFINE off == e.offset
           g == TakeBlock(m, e, r)
           a == <<off, e.size>>
           taken == Bytes(off, RspSize(e, r))
<1>1. /\ F!Good(g.fb) /\ off \in DOMAIN m.fb.map_fm_ /\ e.size = m.fb.map_fm_[off].size
      /\ off \in Nat /\ e.size \in Nat \ {0} /\ off + e.size <= m.pool
      /\ a \in Ext(m.fb) /\ a[1] = off /\ a[2] = e.size
  BY TakeExt
<1>2. m.pool \in Nat /\ F!Good(m.fb) /\ Sep(Ext(m.fb), L, m.pool)
  BY DEF MemOK
<1>3. BytesOf(Ext(m.fb) \ {a}) = BytesOf(Ext(m.fb)) \ Bytes(off, e.size)
      /\ Bytes(off, e.size) \subseteq BytesOf(Ext(m.fb))
  <2> HIDE DEF a
  <2>1. QED BY <1>1, <1>2, BytesOfLess
<1>4. taken \subseteq BytesOf(Ext(m.fb)) /\ BytesOf(Ext(g.fb)) = BytesOf(Ext(m.fb)) \ taken
  <2>1. CASE Splits(e, r)
    <3> DEFINE tail == <<off + r, e.size - r>>
    <3>1. r < e.size /\ Ext(g.fb) = (Ext(m.fb) \ {a}) \cup {tail} /\ RspSize(e, r) = r
      <4>1. SplitTo(m, e, r)
        BY <2>1, TakeExt
      <4>2. QED BY <2>1, <4>1 DEF SplitTo, RspSize
    <3>2. tail[1] = off + r /\ tail[2] = e.size - r
      OBVIOUS
    <3> HIDE DEF tail, a, g
    <3>3. BytesOf(Ext(g.fb)) = BytesOf(Ext(m.fb) \ {a}) \cup Bytes(off + r, e.size - r)
      <4>1. BytesOf({tail}) = Bytes(off + r, e.size - r)
        BY <3>2, BytesOfOne
      <4>2. BytesOf(Ext(g.fb)) = BytesOf(Ext(m.fb) \ {a}) \cup BytesOf({tail})
        BY <3>1, BytesOfUnion
      <4>3. QED BY <4>1, <4>2
    <3>4. Bytes(off, e.size) = Bytes(off, r) \cup Bytes(off + r, e.size - r)
          /\ Bytes(off, r) \cap Bytes(off + r, e.size - r) = {}
      BY <1>1, <3>1 DEF Bytes
    <3>5. QED BY <1>3, <3>1, <3>3, <3>4
  <2>2. CASE ~ Splits(e, r)
    <3>1. Ext(g.fb) = Ext(m.fb) \ {a} /\ RspSize(e, r) = e.size
      <4>1. TakenWhole(m, e, r)
        BY <2>2, TakeExt
      <4>2. QED BY <2>2, <4>1 DEF TakenWhole, RspSize
    <3>2. QED BY <1>3, <3>1
  <2>3. QED BY <2>1, <2>2
<1>5. IsExtent(<<off, RspSize(e, r)>>, m.pool)
  <2>1. RspSize(e, r) \in Nat \ {0} /\ RspSize(e, r) <= e.size
    <3>1. Splits(e, r) => r < e.size
      BY TakeExt DEF SplitTo
    <3>2. QED BY <1>1, <3>1 DEF RspSize
  <2>2. QED BY <1>1, <1>2, <2>1 DEF IsExtent
<1>6. KeepsOrLosesOne(BytesOf(Ext(m.fb)), BytesOf(Ext(g.fb)), m.pool)
  <2> DEFINE x == <<off, RspSize(e, r)>>
  <2>1. x[1] = off /\ x[2] = RspSize(e, r) /\ IsExtent(x, m.pool)
    BY <1>5
  <2> HIDE DEF x
  <2>2. QED BY <1>4, <2>1 DEF KeepsOrLosesOne
<1>7. KeepsOrLosesOne(BytesOf(Ext(m.fb)), BytesOf(Ext(m.fb)), m.pool)
  BY DEF KeepsOrLosesOne
<1>8. ASSUME NEW file \in TakeCuts(m, e, r), file \in {m.fb, g.fb} \/ ~ Splits(e, r)
      PROVE  KeepsOrLosesOne(BytesOf(Ext(m.fb)), BytesOf(SlotExt(file)), m.pool)
  <2>1. SlotExt(m.fb) = Ext(m.fb) /\ SlotExt(g.fb) = Ext(g.fb)
    BY <1>1, <1>2, GoodExt
  <2>2. CASE file \in {m.fb, g.fb}
    BY <1>6, <1>7, <2>1, <2>2
  <2>3. CASE file \notin {m.fb, g.fb}
    <3>1. file \in DeleteBlockCuts(m.fb, off)
      BY <1>8, <2>3 DEF TakeCuts, g
    <3>2. SlotExt(file) \in {Ext(m.fb), Ext(m.fb) \ {a}}
      BY <1>1, <1>2, <3>1, DeleteCutsExt
    <3> HIDE DEF a
    <3>3. KeepsOrLosesOne(BytesOf(Ext(m.fb)), BytesOf(Ext(m.fb) \ {a}), m.pool)
      BY <1>1, <1>2, LosesOne
    <3>4. QED BY <1>7, <3>2, <3>3
  <2>4. QED BY <2>2, <2>3
<1>9. QED BY <1>4, <1>8 DEF g

\* The bytes of an extent to be freed and of those in use.
LEMMA FreeableBytes ==
  ASSUME NEW m, NEW L, NEW off, NEW size, Freeable(m, L, off, size)
  PROVE  (BytesOf(Ext(m.fb)) \cup Bytes(off, size)) \cap BytesOf(L) = {}
<1> DEFINE e == <<off, size>>
<1>1. e[1] = off /\ e[2] = size /\ Sep(Ext(m.fb) \cup {e}, L, m.pool)
  BY DEF Freeable
<1> HIDE DEF e
<1>2. BytesOf({e}) = Bytes(off, size)
  BY <1>1, BytesOfOne
<1>3. BytesOf(Ext(m.fb) \cup {e}) = BytesOf(Ext(m.fb)) \cup BytesOf({e})
  BY BytesOfUnion
<1>4. BytesOf(Ext(m.fb) \cup {e}) \cap BytesOf(L) = {}
  BY <1>1, SepBytes
<1>5. QED BY <1>2, <1>3, <1>4

=============================================================================
