---------------------------- MODULE FMBMgrProofs ----------------------------
(***************************************************************************)
(* Proofs about FMBMgr for every page and slot size, every set of offsets  *)
(* and sizes, and executions that expand the file at most once             *)
(* (MaxPages \in 1 .. 2): from the second expansion on the properties do   *)
(* not hold.                                                               *)
(*                                                                         *)
(* The inductive invariant Good says of the open manager what SlotsAgree   *)
(* says, and two things SlotsAgree does not imply: the header never counts *)
(* more free slots than free_slots_ has, and as long as the header says    *)
(* one page, only slots of that page are in use or counted.  The second is *)
(* needed because a kill inside ExpandFile leaves a file whose array has   *)
(* grown and whose num_pages has not: the expansion is done again later    *)
(* and makes every slot beyond the first page free.                        *)
(*                                                                         *)
(* FileOK is the part of Good that a kill leaves: what is in the file.     *)
(* Every operation maps Good to Good, every cut of it is FileOK, and       *)
(* OpenFile maps FileOK to Good.                                           *)
(***************************************************************************)
EXTENDS FMBMgr, TLAPS, FiniteSetTheorems, WellFoundedInduction

Used(f) == {i \in DOMAIN f.freememory_ : InUse(f.freememory_[i])}

\* The slots that num_slots_free may count.
Counted(f, free) ==
  IF f.num_pages = 1 THEN {i \in free : i < SlotsIn(1)} ELSE free

HeaderOK(f) == f.num_pages \in 1 .. MaxPages /\ f.num_slots_free \in Nat

SlotsOK(f) ==
  /\ \E last \in Nat : DOMAIN f.freememory_ = 0 .. last /\ SlotsIn(1) - 1 <= last
  /\ f.freememory_ \in [DOMAIN f.freememory_ -> SlotType]
  /\ \A i \in Used(f) : f.freememory_[i].offset \in Offsets
  /\ f.num_pages = 1 => \A i \in Used(f) : i < SlotsIn(1)

FileOK(f) ==
  /\ HeaderOK(f)
  /\ SlotsOK(f)
  /\ \A i, j \in Used(f) : f.freememory_[i].offset = f.freememory_[j].offset => i = j
  /\ f.num_slots_free <= Cardinality(Counted(f, DOMAIN f.freememory_ \ Used(f)))

IsManager(f) ==
  f = [num_pages      |-> f.num_pages,
       num_slots_free |-> f.num_slots_free,
       freememory_    |-> f.freememory_,
       map_fm_        |-> f.map_fm_,
       free_slots_    |-> f.free_slots_]

MapOK(f) ==
  /\ f.map_fm_ \in [DOMAIN f.map_fm_ -> [pos : Used(f), size : Sizes]]
  /\ \A off \in DOMAIN f.map_fm_ :
       /\ f.freememory_[f.map_fm_[off].pos].offset = off
       /\ f.freememory_[f.map_fm_[off].pos].size = f.map_fm_[off].size
  /\ \A i \in Used(f) : /\ f.freememory_[i].offset \in DOMAIN f.map_fm_
                        /\ f.map_fm_[f.freememory_[i].offset].pos = i

Good(f) ==
  /\ IsManager(f)
  /\ HeaderOK(f)
  /\ SlotsOK(f)
  /\ MapOK(f)
  /\ f.free_slots_ \subseteq DOMAIN f.freememory_ \ Used(f)
  /\ f.num_slots_free <= Cardinality(Counted(f, f.free_slots_))

-----------------------------------------------------------------------------
(* Arithmetic and finite sets.                                             *)

\* *set.begin() of a nonempty set of numbers is in it and below all others.
LEMMA LeastExists ==
  ASSUME NEW S \in SUBSET Nat, S # {}
  PROVE  Least(S) \in S /\ \A y \in S : Least(S) <= y
<1> DEFINE Less == {ss \in Nat \X Nat : ss[1] < ss[2]}
<1>1. IsWellFoundedOn(Less, Nat)
  BY NatLessThanWellFounded, Zenon DEF OpToRel
<1>2. PICK x \in S : \A y \in S : ~ (<<y, x>> \in Less)
  BY <1>1, WFMin, Zenon
<1>3. x \in Nat /\ \A y \in S : y \in Nat /\ ~ (y < x)
  BY <1>2
<1>4. \A y \in S : x <= y
  BY <1>3
<1>5. QED BY <1>4, Zenon DEF Least

\* A page holds at least one slot.
LEMMA SlotsInOnePage == SlotsIn(1) \in Nat \ {0}
BY FileAssumption DEF SlotsIn

\* The bytes ExpandFile maps, a page for each slot, hold those slots at least.
LEMMA MappedEnough ==
  ASSUME NEW n \in Nat
  PROVE  (n * PageSize) \div SlotBytes \in Nat /\ (n * PageSize) \div SlotBytes >= n
BY FileAssumption

\* Sets of slots are finite, and so is what may be counted of them.
LEMMA SlotSetsFinite ==
  ASSUME NEW f, SlotsOK(f), NEW S \in SUBSET DOMAIN f.freememory_
  PROVE  /\ S \subseteq Nat
         /\ IsFiniteSet(S) /\ Cardinality(S) \in Nat
         /\ IsFiniteSet(Counted(f, S)) /\ Cardinality(Counted(f, S)) \in Nat
         /\ Counted(f, S) \subseteq S
<1>1. PICK last \in Nat : DOMAIN f.freememory_ = 0 .. last
  BY DEF SlotsOK
<1>2. S \subseteq Nat /\ \A s \in S : s <= last
  BY <1>1
<1>3. Counted(f, S) \subseteq S
  BY DEF Counted
<1>4. IsFiniteSet(S)
  BY <1>2, FS_BoundedSetOfNaturals
<1>5. IsFiniteSet(Counted(f, S))
  BY <1>3, <1>4, FS_Subset
<1>6. QED BY <1>2, <1>3, <1>4, <1>5, FS_CardinalityType

-----------------------------------------------------------------------------
(* Opening.                                                                *)

\* A good manager's file is a good file.
LEMMA GoodFile ==
  ASSUME NEW f, Good(f)
  PROVE  FileOK(f)
<1>1. Counted(f, f.free_slots_) \subseteq Counted(f, DOMAIN f.freememory_ \ Used(f))
  BY DEF Good, Counted
<1>2. IsFiniteSet(Counted(f, DOMAIN f.freememory_ \ Used(f)))
  BY SlotSetsFinite DEF Good
<1>3. /\ Cardinality(Counted(f, f.free_slots_))
           <= Cardinality(Counted(f, DOMAIN f.freememory_ \ Used(f)))
      /\ Cardinality(Counted(f, f.free_slots_)) \in Nat
      /\ Cardinality(Counted(f, DOMAIN f.freememory_ \ Used(f))) \in Nat
  BY <1>1, <1>2, FS_Subset, FS_CardinalityType
<1>4. f.num_slots_free <= Cardinality(Counted(f, DOMAIN f.freememory_ \ Used(f)))
  BY <1>3 DEF Good, HeaderOK
<1>5. \A i, j \in Used(f) : f.freememory_[i].offset = f.freememory_[j].offset => i = j
  BY DEF Good, MapOK
<1>6. QED BY <1>4, <1>5 DEF Good, FileOK

\* Opening a good file gives a good manager.
LEMMA OpenGood ==
  ASSUME NEW f, FileOK(f)
  PROVE  Good(OpenFile(f))
<1> DEFINE g == OpenFile(f)
           posOf(o) == CHOOSE i \in Used(f) :
                         /\ f.freememory_[i].offset = o
                         /\ \A j \in Used(f) : f.freememory_[j].offset = o => j <= i
<1>1. /\ IsManager(g)
      /\ g.num_pages = f.num_pages
      /\ g.num_slots_free = f.num_slots_free
      /\ g.freememory_ = f.freememory_
      /\ g.map_fm_ = [o \in {f.freememory_[i].offset : i \in Used(f)} |->
                        [pos |-> posOf(o), size |-> f.freememory_[posOf(o)].size]]
      /\ g.free_slots_ = DOMAIN f.freememory_ \ Used(f)
  BY DEF OpenFile, IsManager, Used
<1>2. Used(g) = Used(f)
  BY <1>1 DEF Used
<1>3. \A i \in Used(f) : i \in Nat
  BY DEF FileOK, SlotsOK, Used
<1>4. \A i \in Used(f) : posOf(f.freememory_[i].offset) = i
  BY <1>3 DEF FileOK
<1>5. \A i \in Used(f) : f.freememory_[i].size \in Sizes
  BY DEF FileOK, SlotsOK, Used, InUse, SlotType
<1>6. HeaderOK(g) /\ SlotsOK(g)
  BY <1>1, <1>2, SMTT(30) DEF FileOK, HeaderOK, SlotsOK
<1> HIDE DEF g, posOf
<1>7. MapOK(g)
  <2>1. DOMAIN g.map_fm_ = {f.freememory_[i].offset : i \in Used(f)}
    BY <1>1
  <2>2. \A i \in Used(f) :
          g.map_fm_[f.freememory_[i].offset] = [pos |-> i, size |-> f.freememory_[i].size]
    BY <1>1, <1>4
  <2>3. g.map_fm_ \in [DOMAIN g.map_fm_ -> [pos : Used(f), size : Sizes]]
    BY <1>1, <1>4, <1>5
  <2>4. ASSUME NEW off \in DOMAIN g.map_fm_
        PROVE  /\ g.freememory_[g.map_fm_[off].pos].offset = off
               /\ g.freememory_[g.map_fm_[off].pos].size = g.map_fm_[off].size
    <3>1. PICK i \in Used(f) : off = f.freememory_[i].offset
      BY <2>1
    <3>2. g.map_fm_[off] = [pos |-> i, size |-> f.freememory_[i].size]
      BY <2>2, <3>1
    <3>3. g.map_fm_[off].pos = i /\ g.map_fm_[off].size = f.freememory_[i].size
      BY <3>2
    <3>4. g.freememory_[i].offset = off
      BY <1>1, <3>1
    <3>5. QED BY <1>1, <3>3, <3>4, Zenon
  <2>5. ASSUME NEW i \in Used(f)
        PROVE  /\ f.freememory_[i].offset \in DOMAIN g.map_fm_
               /\ g.map_fm_[f.freememory_[i].offset].pos = i
    <3>1. f.freememory_[i].offset \in DOMAIN g.map_fm_
      BY <2>1, Zenon
    <3>2. g.map_fm_[f.freememory_[i].offset] = [pos |-> i, size |-> f.freememory_[i].size]
      BY <2>2, Zenon
    <3>3. g.map_fm_[f.freememory_[i].offset].pos = i
      BY <3>2
    <3>4. QED BY <3>1, <3>3
  <2>6. QED BY <1>1, <1>2, <2>3, <2>4, <2>5 DEF MapOK
<1>8. Counted(g, g.free_slots_) = Counted(f, DOMAIN f.freememory_ \ Used(f))
  BY <1>1 DEF Counted
<1>9. QED BY <1>1, <1>2, <1>6, <1>7, <1>8 DEF Good, FileOK, g

\* A file whose header counts fewer free slots than a good one's is good.
LEMMA FewerCounted ==
  ASSUME NEW f, FileOK(f), NEW g,
         g.num_pages = f.num_pages, g.freememory_ = f.freememory_,
         g.num_slots_free \in Nat, g.num_slots_free <= f.num_slots_free
  PROVE  FileOK(g)
<1>1. Used(g) = Used(f)
  BY DEF Used
<1>2. Counted(g, DOMAIN g.freememory_ \ Used(g)) = Counted(f, DOMAIN f.freememory_ \ Used(f))
  BY <1>1 DEF Counted
<1>3. Cardinality(Counted(f, DOMAIN f.freememory_ \ Used(f))) \in Nat
  BY SlotSetsFinite DEF FileOK
<1>4. HeaderOK(g)
  BY DEF FileOK, HeaderOK
<1>5. SlotsOK(g)
  BY <1>1 DEF FileOK, SlotsOK
<1>6. g.num_slots_free <= Cardinality(Counted(g, DOMAIN g.freememory_ \ Used(g)))
  BY <1>2, <1>3 DEF FileOK, HeaderOK
<1>7. QED BY <1>1, <1>4, <1>5, <1>6 DEF FileOK

-----------------------------------------------------------------------------
(* DeleteBlock.                                                            *)

\* Deleting a block keeps the manager good.
LEMMA DeleteGood ==
  ASSUME NEW f, Good(f), NEW off \in DOMAIN f.map_fm_
  PROVE  Good(DeleteBlock(f, off))
<1> DEFINE pos == f.map_fm_[off].pos
           g == DeleteBlock(f, off)
<1>1. /\ IsManager(g)
      /\ g.num_pages = f.num_pages
      /\ g.num_slots_free = f.num_slots_free + 1
      /\ g.freememory_ = [f.freememory_ EXCEPT ![pos].del = 1]
      /\ g.map_fm_ = Unbind(f.map_fm_, off)
      /\ g.free_slots_ = f.free_slots_ \cup {pos}
  BY DEF DeleteBlock, Good, IsManager
<1>2. pos \in Used(f) /\ pos \in DOMAIN f.freememory_ /\ f.freememory_[pos].offset = off
  BY DEF Good, MapOK, Used
<1> HIDE DEF g, pos
<1>3. /\ DOMAIN g.freememory_ = DOMAIN f.freememory_
      /\ \A i \in DOMAIN f.freememory_ : i # pos => g.freememory_[i] = f.freememory_[i]
      /\ g.freememory_[pos].del = 1
      /\ g.freememory_ \in [DOMAIN f.freememory_ -> SlotType]
  BY <1>1, <1>2, SMTT(30) DEF Good, SlotsOK, SlotType
<1>4. Used(g) = Used(f) \ {pos}
  BY <1>3 DEF Used, InUse
<1>5. HeaderOK(g)
  BY <1>1 DEF Good, HeaderOK
<1>6. SlotsOK(g)
  <2>1. \A i \in Used(g) : g.freememory_[i] = f.freememory_[i]
    BY <1>3, <1>4 DEF Used
  <2>2. QED BY <1>1, <1>3, <1>4, <2>1 DEF Good, SlotsOK
<1>7. MapOK(g)
  <2>1. /\ DOMAIN g.map_fm_ = DOMAIN f.map_fm_ \ {off}
        /\ \A o \in DOMAIN g.map_fm_ : g.map_fm_[o] = f.map_fm_[o]
    BY <1>1 DEF Unbind
  <2>2. \A o \in DOMAIN g.map_fm_ : f.map_fm_[o].pos \in Used(g)
    BY <1>2, <1>4, <2>1 DEF Good, MapOK
  <2>3. g.map_fm_ \in [DOMAIN g.map_fm_ -> [pos : Used(g), size : Sizes]]
    BY <1>1, <2>1, <2>2 DEF Good, MapOK, Unbind
  <2>4. \A o \in DOMAIN g.map_fm_ :
          /\ g.freememory_[g.map_fm_[o].pos].offset = o
          /\ g.freememory_[g.map_fm_[o].pos].size = g.map_fm_[o].size
    BY <1>3, <1>4, <2>1, <2>2 DEF Good, MapOK, Used
  <2>5. \A i \in Used(g) : /\ g.freememory_[i].offset \in DOMAIN g.map_fm_
                           /\ g.map_fm_[g.freememory_[i].offset].pos = i
    BY <1>2, <1>3, <1>4, <2>1 DEF Good, MapOK, Used, pos
  <2>6. QED BY <2>3, <2>4, <2>5 DEF MapOK
<1>8. g.free_slots_ \subseteq DOMAIN g.freememory_ \ Used(g)
  BY <1>1, <1>2, <1>3, <1>4 DEF Good
<1>9. g.num_slots_free <= Cardinality(Counted(g, g.free_slots_))
  <2>1. Counted(g, g.free_slots_) = Counted(f, f.free_slots_) \cup {pos}
    BY <1>1, <1>2 DEF Counted, Good, SlotsOK
  <2>2. pos \notin Counted(f, f.free_slots_)
    BY <1>2 DEF Counted, Good
  <2>3. /\ IsFiniteSet(Counted(f, f.free_slots_))
        /\ Cardinality(Counted(f, f.free_slots_)) \in Nat
    BY SlotSetsFinite DEF Good
  <2>4. Cardinality(Counted(g, g.free_slots_)) = Cardinality(Counted(f, f.free_slots_)) + 1
    BY <2>1, <2>2, <2>3, FS_AddElement
  <2>5. QED BY <1>1, <2>3, <2>4 DEF Good, HeaderOK
<1>10. QED BY <1>1, <1>5, <1>6, <1>7, <1>8, <1>9 DEF Good, g

\* A kill inside DeleteBlock leaves a good file.
LEMMA DeleteCutsOK ==
  ASSUME NEW f, Good(f), NEW off, NEW file \in DeleteBlockCuts(f, off)
  PROVE  FileOK(file)
<1>1. CASE file = f
  BY <1>1, GoodFile
<1>2. CASE off \in DOMAIN f.map_fm_ /\ file # f
  <2> DEFINE g == DeleteBlock(f, off)
  <2>1. /\ file.num_pages = g.num_pages
        /\ file.freememory_ = g.freememory_
        /\ file.num_slots_free = f.num_slots_free
        /\ g.num_slots_free = f.num_slots_free + 1
    BY <1>2 DEF DeleteBlockCuts, DeleteBlock, Good, IsManager
  <2>2. FileOK(g)
    BY <1>2, DeleteGood, GoodFile
  <2>3. f.num_slots_free \in Nat
    BY DEF Good, HeaderOK
  <2> HIDE DEF g
  <2>4. QED BY <2>1, <2>2, <2>3, FewerCounted
<1>3. QED BY <1>1, <1>2 DEF DeleteBlockCuts

-----------------------------------------------------------------------------
(* AddBlock, with ExpandFile.                                              *)

\* Growing the array keeps the slots there are and adds unused ones, at least
\* as many as ExpandFile counts.
LEMMA GrownSlotsOK ==
  ASSUME NEW f, SlotsOK(f), NEW n \in Nat, n >= SlotsIn(1),
         NEW slots, slots = GrownSlots(f.freememory_, n)
  PROVE  /\ \E last \in Nat : DOMAIN slots = 0 .. last /\ n - 1 <= last
         /\ slots \in [DOMAIN slots -> SlotType]
         /\ DOMAIN f.freememory_ \subseteq DOMAIN slots
         /\ \A i \in DOMAIN f.freememory_ : slots[i] = f.freememory_[i]
         /\ {i \in DOMAIN slots : InUse(slots[i])} = Used(f)
<1> DEFINE mapped == (n * PageSize) \div SlotBytes
<1>1. mapped \in Nat /\ mapped >= n
  BY MappedEnough
<1>2. PICK last \in Nat : DOMAIN f.freememory_ = 0 .. last
  BY DEF SlotsOK
<1>3. slots = [i \in DOMAIN f.freememory_ \cup 0 .. mapped - 1 |->
                 IF i \in DOMAIN f.freememory_ THEN f.freememory_[i] ELSE ZeroSlot]
  BY DEF GrownSlots
<1> HIDE DEF mapped
<1>4. \E top \in Nat : DOMAIN slots = 0 .. top /\ n - 1 <= top
  <2>1. CASE mapped - 1 <= last
    <3>1. DOMAIN slots = 0 .. last
      BY <1>1, <1>2, <1>3, <2>1
    <3>2. QED BY <1>1, <2>1, <3>1
  <2>2. CASE last < mapped - 1
    <3>1. DOMAIN slots = 0 .. (mapped - 1) /\ mapped - 1 \in Nat
      BY <1>1, <1>2, <1>3, <2>2
    <3>2. QED BY <1>1, <3>1
  <2>3. QED BY <1>1, <2>1, <2>2
<1>5. /\ DOMAIN f.freememory_ \subseteq DOMAIN slots
      /\ \A i \in DOMAIN f.freememory_ : slots[i] = f.freememory_[i]
      /\ \A i \in DOMAIN slots : i \notin DOMAIN f.freememory_ => slots[i] = ZeroSlot
  BY <1>3
<1>6. ZeroSlot \in SlotType /\ ~ InUse(ZeroSlot)
  BY DEF ZeroSlot, SlotType, InUse
<1>7. slots \in [DOMAIN slots -> SlotType]
  BY <1>3, <1>6 DEF SlotsOK
<1>8. {i \in DOMAIN slots : InUse(slots[i])} = Used(f)
  BY <1>5, <1>6 DEF Used
<1>9. QED BY <1>4, <1>5, <1>7, <1>8

\* The first expansion keeps the manager good and gives it free slots.
LEMMA ExpandGood ==
  ASSUME NEW f, Good(f), f.num_pages = 1, 2 <= MaxPages, MaxPages \in Nat,
         f.num_slots_free = 0
  PROVE  /\ Good(ExpandFile(f))
         /\ ExpandFile(f).num_slots_free > 0
         /\ ExpandFile(f).map_fm_ = f.map_fm_
<1> DEFINE cur == SlotsIn(1)
           g == ExpandFile(f)
<1>1. cur \in Nat \ {0} /\ cur * 4 \in Nat /\ cur * 4 >= cur
  BY SlotsInOnePage
<1>2. /\ IsManager(g)
      /\ g.num_pages = 2
      /\ g.num_slots_free = cur * 4 - cur
      /\ g.freememory_ = GrownSlots(f.freememory_, cur * 4)
      /\ g.map_fm_ = f.map_fm_
      /\ g.free_slots_ = f.free_slots_ \cup cur .. (cur * 4 - 1)
  <2>1. /\ IsManager(g)
        /\ g.num_pages = f.num_pages * 2
        /\ g.num_slots_free = f.num_slots_free + (SlotsIn(f.num_pages) * 4 - SlotsIn(f.num_pages))
        /\ g.freememory_ = GrownSlots(f.freememory_, SlotsIn(f.num_pages) * 4)
        /\ g.map_fm_ = f.map_fm_
        /\ g.free_slots_ = f.free_slots_ \cup
                              SlotsIn(f.num_pages) .. (SlotsIn(f.num_pages) * 4 - 1)
    <3> DEFINE pages == f.num_pages * 2
               count == f.num_slots_free + (SlotsIn(f.num_pages) * 4 - SlotsIn(f.num_pages))
               slots == GrownSlots(f.freememory_, SlotsIn(f.num_pages) * 4)
               free == f.free_slots_ \cup SlotsIn(f.num_pages) .. (SlotsIn(f.num_pages) * 4 - 1)
    <3>1. g = [f EXCEPT !.num_pages = pages, !.num_slots_free = count,
                        !.freememory_ = slots, !.free_slots_ = free]
      BY Zenon DEF ExpandFile
    <3> HIDE DEF pages, count, slots, free, g
    <3>2. /\ IsManager(g)
          /\ g.num_pages = pages
          /\ g.num_slots_free = count
          /\ g.freememory_ = slots
          /\ g.map_fm_ = f.map_fm_
          /\ g.free_slots_ = free
      BY <3>1 DEF Good, IsManager
    <3>3. QED BY <3>2 DEF pages, count, slots, free
  <2>2. SlotsIn(f.num_pages) = cur
    OBVIOUS
  <2> HIDE DEF cur, g
  <2>3. QED BY <1>1, <2>1, <2>2
<1>3. SlotsOK(f)
  BY DEF Good
<1> HIDE DEF g
<1>4. /\ \E last \in Nat : DOMAIN g.freememory_ = 0 .. last /\ cur * 4 - 1 <= last
      /\ g.freememory_ \in [DOMAIN g.freememory_ -> SlotType]
      /\ DOMAIN f.freememory_ \subseteq DOMAIN g.freememory_
      /\ \A i \in DOMAIN f.freememory_ : g.freememory_[i] = f.freememory_[i]
      /\ Used(g) = Used(f)
  <2> DEFINE n == cur * 4
  <2>1. n \in Nat /\ n >= SlotsIn(1) /\ g.freememory_ = GrownSlots(f.freememory_, n)
    BY <1>1, <1>2
  <2>2. Used(g) = {i \in DOMAIN g.freememory_ : InUse(g.freememory_[i])}
    BY DEF Used
  <2> HIDE DEF n
  <2>3. /\ \E last \in Nat : DOMAIN g.freememory_ = 0 .. last /\ n - 1 <= last
        /\ g.freememory_ \in [DOMAIN g.freememory_ -> SlotType]
        /\ DOMAIN f.freememory_ \subseteq DOMAIN g.freememory_
        /\ \A i \in DOMAIN f.freememory_ : g.freememory_[i] = f.freememory_[i]
        /\ {i \in DOMAIN g.freememory_ : InUse(g.freememory_[i])} = Used(f)
    BY <1>3, <2>1, GrownSlotsOK, ZenonT(60)
  <2>4. QED BY <2>2, <2>3, Zenon DEF n
<1>5. \A i \in Used(f) : /\ i \in DOMAIN f.freememory_ /\ i < cur
                         /\ g.freememory_[i] = f.freememory_[i]
  BY <1>4 DEF Used, Good, SlotsOK
<1> HIDE DEF cur
<1>6. HeaderOK(g)
  BY <1>1, <1>2 DEF HeaderOK
<1>7. SlotsOK(g)
  <2>1. \E last \in Nat : DOMAIN g.freememory_ = 0 .. last /\ SlotsIn(1) - 1 <= last
    BY <1>1, <1>4 DEF cur
  <2>2. \A i \in Used(g) : g.freememory_[i].offset \in Offsets
    BY <1>4, <1>5 DEF Good, SlotsOK
  <2>3. QED BY <1>2, <1>4, <2>1, <2>2 DEF SlotsOK
<1>8. MapOK(g)
  <2>1. MapOK(f)
    BY DEF Good
  <2>2. g.map_fm_ \in [DOMAIN g.map_fm_ -> [pos : Used(g), size : Sizes]]
    BY <1>2, <1>4, <2>1 DEF MapOK
  <2>3. ASSUME NEW off \in DOMAIN g.map_fm_
        PROVE  /\ g.freememory_[g.map_fm_[off].pos].offset = off
               /\ g.freememory_[g.map_fm_[off].pos].size = g.map_fm_[off].size
    <3>1. f.map_fm_[off].pos \in Used(f)
      BY <1>2, <2>1 DEF MapOK
    <3>2. g.freememory_[g.map_fm_[off].pos] = f.freememory_[f.map_fm_[off].pos]
      BY <1>2, <1>5, <3>1
    <3>3. QED BY <1>2, <2>1, <3>2 DEF MapOK
  <2>4. ASSUME NEW i \in Used(g)
        PROVE  /\ g.freememory_[i].offset \in DOMAIN g.map_fm_
               /\ g.map_fm_[g.freememory_[i].offset].pos = i
    BY <1>2, <1>4, <1>5, <2>1 DEF MapOK
  <2>5. QED BY <2>2, <2>3, <2>4 DEF MapOK
<1>9. g.free_slots_ \subseteq DOMAIN g.freememory_ \ Used(g)
  <2>1. cur .. (cur * 4 - 1) \subseteq DOMAIN g.freememory_
    BY <1>1, <1>4
  <2>2. \A i \in cur .. (cur * 4 - 1) : i \notin Used(g)
    BY <1>1, <1>4, <1>5
  <2>3. f.free_slots_ \subseteq DOMAIN g.freememory_ \ Used(g)
    BY <1>4 DEF Good
  <2>4. QED BY <1>2, <2>1, <2>2, <2>3
<1>10. g.num_slots_free <= Cardinality(Counted(g, g.free_slots_))
  <2>1. Counted(g, g.free_slots_) = g.free_slots_
    BY <1>2 DEF Counted
  <2>2. IsFiniteSet(g.free_slots_) /\ Cardinality(g.free_slots_) \in Nat
    BY <1>7, <1>9, SlotSetsFinite
  <2>3. Cardinality(cur .. (cur * 4 - 1)) = cur * 4 - cur
    BY <1>1, FS_Interval
  <2>4. cur .. (cur * 4 - 1) \subseteq g.free_slots_
    BY <1>2
  <2>5. Cardinality(cur .. (cur * 4 - 1)) <= Cardinality(g.free_slots_)
    BY <2>2, <2>4, FS_Subset
  <2>6. QED BY <1>2, <2>1, <2>3, <2>5
<1>11. g.num_slots_free > 0
  BY <1>1, <1>2
<1>12. QED BY <1>2, <1>6, <1>7, <1>8, <1>9, <1>10, <1>11 DEF Good, g

\* AddBlock once there is room.
AddTo(g, off, size) ==
  LET pos == Least(g.free_slots_)
  IN  [g EXCEPT !.free_slots_      = @ \ {pos},
                !.num_slots_free   = @ - 1,
                !.map_fm_          = Bind(@, off, [pos |-> pos, size |-> size]),
                !.freememory_[pos] = [offset |-> off, size |-> size, del |-> 0]]

\* When the header counts a free slot, the first of free_slots_ exists, and is
\* one the header counts.
LEMMA FirstFreeSlot ==
  ASSUME NEW g, Good(g), g.num_slots_free > 0
  PROVE  Least(g.free_slots_) \in Counted(g, g.free_slots_)
<1>1. /\ g.free_slots_ \subseteq Nat
      /\ IsFiniteSet(Counted(g, g.free_slots_))
      /\ Cardinality(Counted(g, g.free_slots_)) \in Nat
      /\ Counted(g, g.free_slots_) \subseteq g.free_slots_
  BY SlotSetsFinite DEF Good
<1>2. Cardinality(Counted(g, g.free_slots_)) # 0
  BY <1>1 DEF Good, HeaderOK
<1>3. PICK i : i \in Counted(g, g.free_slots_)
  BY <1>1, <1>2, FS_EmptySet
<1>4. Least(g.free_slots_) \in g.free_slots_ /\ Least(g.free_slots_) <= i
  BY <1>1, <1>3, LeastExists
<1>5. g.num_pages = 1 => Least(g.free_slots_) < SlotsIn(1)
  <2>1. SUFFICES ASSUME g.num_pages = 1 PROVE Least(g.free_slots_) < SlotsIn(1)
    OBVIOUS
  <2>2. i < SlotsIn(1) /\ i \in Nat /\ Least(g.free_slots_) \in Nat
    BY <1>1, <1>3, <1>4, <2>1 DEF Counted
  <2>3. QED BY <1>4, <2>2, SlotsInOnePage
<1>6. QED BY <1>4, <1>5 DEF Counted

\* Taking a slot keeps the manager good.
LEMMA AddToGood ==
  ASSUME NEW g, Good(g), g.num_slots_free > 0,
         NEW off \in Offsets \ DOMAIN g.map_fm_, NEW size \in Sizes
  PROVE  Good(AddTo(g, off, size))
<1> DEFINE pos == Least(g.free_slots_)
           slot == [offset |-> off, size |-> size, del |-> 0]
           h == AddTo(g, off, size)
<1>1. /\ IsManager(h)
      /\ h.num_pages = g.num_pages
      /\ h.num_slots_free = g.num_slots_free - 1
      /\ h.freememory_ = [g.freememory_ EXCEPT ![pos] = slot]
      /\ h.map_fm_ = Bind(g.map_fm_, off, [pos |-> pos, size |-> size])
      /\ h.free_slots_ = g.free_slots_ \ {pos}
  <2> DEFINE bound == Bind(g.map_fm_, off, [pos |-> pos, size |-> size])
             count == g.num_slots_free - 1
             free == g.free_slots_ \ {pos}
  <2>1. h = [g EXCEPT !.free_slots_ = free, !.num_slots_free = count,
                      !.map_fm_ = bound, !.freememory_[pos] = slot]
    BY Zenon DEF AddTo
  <2> HIDE DEF bound, count, free, pos, h, slot
  <2>2. /\ IsManager(h)
        /\ h.num_pages = g.num_pages
        /\ h.num_slots_free = count
        /\ h.freememory_ = [g.freememory_ EXCEPT ![pos] = slot]
        /\ h.map_fm_ = bound
        /\ h.free_slots_ = free
    BY <2>1 DEF Good, IsManager
  <2>3. QED BY <2>2 DEF bound, count, free
<1>2. /\ pos \in Counted(g, g.free_slots_)
      /\ pos \in g.free_slots_
      /\ pos \in DOMAIN g.freememory_
      /\ pos \notin Used(g)
      /\ g.num_pages = 1 => pos < SlotsIn(1)
  BY FirstFreeSlot DEF Good, Counted
<1>3. slot \in SlotType /\ InUse(slot) /\ off \in Offsets /\ slot.offset = off /\ slot.size = size
  BY ClientAssumption DEF SlotType, InUse
<1> HIDE DEF h, pos, slot
<1>4. /\ DOMAIN h.freememory_ = DOMAIN g.freememory_
      /\ \A i \in DOMAIN g.freememory_ : i # pos => h.freememory_[i] = g.freememory_[i]
      /\ h.freememory_[pos] = slot
      /\ h.freememory_ \in [DOMAIN g.freememory_ -> SlotType]
  BY <1>1, <1>2, <1>3 DEF Good, SlotsOK
<1>5. Used(h) = Used(g) \cup {pos}
  BY <1>2, <1>3, <1>4 DEF Used
<1>6. HeaderOK(h)
  BY <1>1 DEF Good, HeaderOK
<1>7. SlotsOK(h)
  <2>1. \A i \in Used(g) : h.freememory_[i] = g.freememory_[i]
    BY <1>2, <1>4 DEF Used
  <2>2. \A i \in Used(h) : h.freememory_[i].offset \in Offsets
    BY <1>3, <1>4, <1>5, <2>1 DEF Good, SlotsOK
  <2>3. h.num_pages = 1 => \A i \in Used(h) : i < SlotsIn(1)
    BY <1>1, <1>2, <1>5 DEF Good, SlotsOK
  <2>4. QED BY <1>4, <2>2, <2>3 DEF Good, SlotsOK
<1>8. MapOK(h)
  <2>1. /\ DOMAIN h.map_fm_ = DOMAIN g.map_fm_ \cup {off}
        /\ \A o \in DOMAIN g.map_fm_ : h.map_fm_[o] = g.map_fm_[o]
        /\ h.map_fm_[off] = [pos |-> pos, size |-> size]
    BY <1>1 DEF Bind
  <2>2. MapOK(g)
    BY DEF Good
  <2>3. \A o \in DOMAIN g.map_fm_ : h.map_fm_[o] \in [pos : Used(h), size : Sizes]
    BY <1>5, <2>1, <2>2 DEF MapOK
  <2>4. h.map_fm_[off] \in [pos : Used(h), size : Sizes]
    BY <1>5, <2>1
  <2>5. h.map_fm_ = [o \in DOMAIN h.map_fm_ |-> h.map_fm_[o]]
    BY <1>1 DEF Bind
  <2>6. h.map_fm_ \in [DOMAIN h.map_fm_ -> [pos : Used(h), size : Sizes]]
    BY <2>1, <2>3, <2>4, <2>5
  <2>7. ASSUME NEW o \in DOMAIN h.map_fm_
        PROVE  /\ h.freememory_[h.map_fm_[o].pos].offset = o
               /\ h.freememory_[h.map_fm_[o].pos].size = h.map_fm_[o].size
    <3>1. CASE o = off
      BY <1>3, <1>4, <2>1, <3>1
    <3>2. CASE o # off
      <4>1. o \in DOMAIN g.map_fm_ /\ g.map_fm_[o].pos \in Used(g)
        BY <2>1, <2>2, <3>2 DEF MapOK
      <4>2. h.freememory_[h.map_fm_[o].pos] = g.freememory_[g.map_fm_[o].pos]
        BY <1>2, <1>4, <2>1, <4>1 DEF Used
      <4>3. QED BY <2>1, <2>2, <4>1, <4>2 DEF MapOK
    <3>3. QED BY <3>1, <3>2
  <2>8. ASSUME NEW i \in Used(h)
        PROVE  /\ h.freememory_[i].offset \in DOMAIN h.map_fm_
               /\ h.map_fm_[h.freememory_[i].offset].pos = i
    <3>1. CASE i = pos
      BY <1>3, <1>4, <2>1, <3>1
    <3>2. CASE i # pos
      <4>1. i \in Used(g) /\ h.freememory_[i] = g.freememory_[i]
        BY <1>4, <1>5, <3>2 DEF Used
      <4>2. QED BY <2>1, <2>2, <4>1 DEF MapOK
    <3>3. QED BY <3>1, <3>2
  <2>9. QED BY <2>6, <2>7, <2>8 DEF MapOK
<1>9. h.free_slots_ \subseteq DOMAIN h.freememory_ \ Used(h)
  BY <1>1, <1>4, <1>5 DEF Good
<1>10. h.num_slots_free <= Cardinality(Counted(h, h.free_slots_))
  <2>1. Counted(h, h.free_slots_) = Counted(g, g.free_slots_) \ {pos}
    BY <1>1 DEF Counted
  <2>2. /\ IsFiniteSet(Counted(g, g.free_slots_))
        /\ Cardinality(Counted(g, g.free_slots_)) \in Nat
    BY SlotSetsFinite DEF Good
  <2> DEFINE counted == Counted(g, g.free_slots_)
  <2>3. /\ pos \in counted
        /\ IsFiniteSet(counted) /\ Cardinality(counted) \in Nat
        /\ g.num_slots_free \in Nat /\ g.num_slots_free <= Cardinality(counted)
        /\ Counted(h, h.free_slots_) = counted \ {pos}
    BY <1>2, <2>1, <2>2 DEF Good, HeaderOK
  <2> HIDE DEF counted
  <2>4. Cardinality(counted \ {pos}) = Cardinality(counted) - 1
    BY <2>3, FS_RemoveElement
  <2>5. Cardinality(Counted(h, h.free_slots_)) = Cardinality(counted) - 1
    BY <2>3, <2>4, Zenon
  <2>6. h.num_slots_free = g.num_slots_free - 1
    BY <1>1, Zenon
  <2>7. g.num_slots_free \in Nat /\ Cardinality(counted) \in Nat
        /\ g.num_slots_free <= Cardinality(counted)
    BY <2>3, Zenon
  <2>8. QED BY <2>5, <2>6, <2>7
<1>11. QED BY <1>1, <1>6, <1>7, <1>8, <1>9, <1>10 DEF Good, h

\* Making room, where MayAdd allows it, keeps the manager good and its blocks.
LEMMA RoomGood ==
  ASSUME NEW f, Good(f), MaxPages \in 1 .. 2,
         f.num_slots_free = 0 => f.num_pages * 2 <= MaxPages
  PROVE  /\ Good(WithRoom(f))
         /\ WithRoom(f).num_slots_free > 0
         /\ WithRoom(f).map_fm_ = f.map_fm_
<1>1. f.num_pages \in 1 .. MaxPages /\ f.num_slots_free \in Nat
  BY DEF Good, HeaderOK
<1>2. CASE f.num_slots_free = 0
  <2>1. f.num_pages = 1 /\ 2 <= MaxPages /\ MaxPages \in Nat
    BY <1>1, <1>2
  <2>2. QED BY <1>2, <2>1, ExpandGood DEF WithRoom
<1>3. CASE f.num_slots_free # 0
  BY <1>1, <1>3 DEF WithRoom
<1>4. QED BY <1>2, <1>3

\* Adding a block keeps the manager good.
LEMMA AddGood ==
  ASSUME NEW f, Good(f), MaxPages \in 1 .. 2,
         f.num_slots_free = 0 => f.num_pages * 2 <= MaxPages,
         NEW off \in Offsets \ DOMAIN f.map_fm_, NEW size \in Sizes
  PROVE  Good(AddBlock(f, off, size))
<1>1. AddBlock(f, off, size) = AddTo(WithRoom(f), off, size)
  BY Zenon DEF AddBlock, AddTo
<1>2. QED BY <1>1, RoomGood, AddToGood

\* A kill inside ExpandFile, or after it, leaves a good file.
LEMMA ExpandCutsOK ==
  ASSUME NEW f, Good(f), f.num_pages = 1, 2 <= MaxPages, MaxPages \in Nat,
         f.num_slots_free = 0, NEW file \in ExpandFileCuts(f)
  PROVE  FileOK(file)
<1> DEFINE g == ExpandFile(f)
           resized == [f EXCEPT !.freememory_ = g.freememory_]
           doubled == [resized EXCEPT !.num_pages = g.num_pages]
<1>1. Good(g) /\ g.num_slots_free > 0
  BY ExpandGood
<1>2. FileOK(g) /\ FileOK(f)
  BY <1>1, GoodFile
<1>3. file \in {f, resized, doubled, g}
  BY Zenon DEF ExpandFileCuts
<1>4. g.num_slots_free \in Nat
  BY <1>1 DEF Good, HeaderOK
<1>5. CASE file = doubled
  <2>1. /\ doubled.num_pages = g.num_pages
        /\ doubled.freememory_ = g.freememory_
        /\ doubled.num_slots_free = 0
    <3> HIDE DEF g
    <3>1. QED BY DEF Good, IsManager
  <2> HIDE DEF g, doubled
  <2>2. QED BY <1>1, <1>2, <1>4, <1>5, <2>1, FewerCounted
<1>6. CASE file = resized
  <2>1. /\ resized.num_pages = 1
        /\ resized.num_slots_free = 0
        /\ resized.freememory_ = g.freememory_
    <3> HIDE DEF g
    <3>1. QED BY DEF Good, IsManager
  <2>2. g.freememory_ = GrownSlots(f.freememory_, SlotsIn(1) * 4)
    BY DEF ExpandFile, Good, IsManager
  <2> DEFINE n == SlotsIn(1) * 4
  <2>3. n \in Nat /\ n >= SlotsIn(1) /\ SlotsIn(1) \in Nat
    BY SlotsInOnePage
  <2>4. Used(g) = {i \in DOMAIN g.freememory_ : InUse(g.freememory_[i])}
    BY Zenon DEF Used
  <2>5. SlotsOK(f) /\ \A i \in Used(f) : i < SlotsIn(1)
    BY DEF Good, SlotsOK
  <2>6. g.freememory_ = GrownSlots(f.freememory_, n)
    BY <2>2
  <2> HIDE DEF g, n
  <2>7. Used(g) = Used(f)
    <3>1. n >= SlotsIn(1) /\ n \in Nat
      BY <2>3
    <3>2. {i \in DOMAIN g.freememory_ : InUse(g.freememory_[i])} = Used(f)
      BY <2>5, <2>6, <3>1, GrownSlotsOK, ZenonT(60)
    <3>3. QED BY <2>4, <3>2, Zenon
  <2>8. Used(resized) = Used(g)
    BY <2>1 DEF Used
  <2> HIDE DEF resized
  <2>9. Cardinality(Counted(resized, DOMAIN resized.freememory_ \ Used(resized))) \in Nat
        /\ SlotsOK(resized)
    <3>1. SlotsOK(resized)
      BY <1>2, <2>1, <2>5, <2>7, <2>8 DEF FileOK, SlotsOK
    <3>2. QED BY <3>1, SlotSetsFinite
  <2>10. HeaderOK(resized)
    BY <2>1 DEF HeaderOK
  <2>11. \A i, j \in Used(resized) :
           resized.freememory_[i].offset = resized.freememory_[j].offset => i = j
    BY <1>2, <2>1, <2>8 DEF FileOK
  <2>12. resized.num_slots_free
           <= Cardinality(Counted(resized, DOMAIN resized.freememory_ \ Used(resized)))
    BY <2>1, <2>9
  <2>13. FileOK(resized)
    BY <2>9, <2>10, <2>11, <2>12 DEF FileOK
  <2>14. QED BY <1>6, <2>13
<1>7. QED BY <1>2, <1>3, <1>5, <1>6

\* A kill inside AddBlock leaves a good file.
LEMMA AddCutsOK ==
  ASSUME NEW f, Good(f), MaxPages \in 1 .. 2,
         f.num_slots_free = 0 => f.num_pages * 2 <= MaxPages,
         NEW file \in AddBlockCuts(f)
  PROVE  FileOK(file)
<1> DEFINE g == WithRoom(f)
           counted == [g EXCEPT !.num_slots_free = @ - 1]
<1>1. FileOK(f)
  BY GoodFile
<1>2. CASE f.num_slots_free = 0 /\ file \in ExpandFileCuts(f)
  <2>1. f.num_pages \in 1 .. MaxPages
    BY DEF Good, HeaderOK
  <2>2. f.num_pages = 1 /\ 2 <= MaxPages /\ MaxPages \in Nat
    BY <1>2, <2>1
  <2>3. QED BY <1>2, <2>2, ExpandCutsOK
<1>3. CASE file = counted
  <2>1. Good(g) /\ g.num_slots_free > 0
    BY RoomGood
  <2>2. g.num_slots_free \in Nat /\ FileOK(g) /\ IsManager(g)
    BY <2>1, GoodFile DEF Good, HeaderOK
  <2> HIDE DEF g
  <2>3. /\ counted.num_pages = g.num_pages
        /\ counted.freememory_ = g.freememory_
        /\ counted.num_slots_free = g.num_slots_free - 1
    BY <2>2 DEF IsManager
  <2> HIDE DEF counted
  <2>4. counted.num_slots_free \in Nat /\ counted.num_slots_free <= g.num_slots_free
    BY <2>1, <2>2, <2>3
  <2>5. QED BY <1>3, <2>2, <2>3, <2>4, FewerCounted
<1>4. QED BY <1>1, <1>2, <1>3, Zenon DEF AddBlockCuts

-----------------------------------------------------------------------------
(* UpdateBlock.                                                            *)

\* Moving or resizing a block keeps the manager good.
LEMMA UpdateGood ==
  ASSUME NEW f, Good(f), NEW off \in DOMAIN f.map_fm_,
         NEW newoff \in Offsets, newoff \notin DOMAIN f.map_fm_ \ {off}, NEW size \in Sizes
  PROVE  Good(UpdateBlock(f, off, newoff, size))
<1> DEFINE pos == f.map_fm_[off].pos
           g == UpdateBlock(f, off, newoff, size)
<1>1. /\ IsManager(g)
      /\ g.num_pages = f.num_pages
      /\ g.num_slots_free = f.num_slots_free
      /\ g.freememory_ = [f.freememory_ EXCEPT ![pos] =
                            [@ EXCEPT !.offset = newoff, !.size = size]]
      /\ g.map_fm_ = Bind(Unbind(f.map_fm_, off), newoff, [pos |-> pos, size |-> size])
      /\ g.free_slots_ = f.free_slots_
  <2> DEFINE bound == Bind(Unbind(f.map_fm_, off), newoff, [pos |-> pos, size |-> size])
             slot == [f.freememory_[pos] EXCEPT !.offset = newoff, !.size = size]
  <2>1. g = [f EXCEPT !.map_fm_ = bound, !.freememory_[pos] = slot]
    <3>1. SlotOf(f, off) = pos
      BY Zenon DEF SlotOf
    <3>2. QED BY <3>1, Zenon DEF UpdateBlock
  <2> HIDE DEF bound, slot, pos, g
  <2>2. /\ IsManager(g)
        /\ g.num_pages = f.num_pages
        /\ g.num_slots_free = f.num_slots_free
        /\ g.freememory_ = [f.freememory_ EXCEPT ![pos] = slot]
        /\ g.map_fm_ = bound
        /\ g.free_slots_ = f.free_slots_
    BY <2>1 DEF Good, IsManager
  <2>3. QED BY <2>2 DEF bound, slot
<1>2. /\ pos \in Used(f)
      /\ DOMAIN g.freememory_ = DOMAIN f.freememory_
      /\ g.freememory_ \in [DOMAIN f.freememory_ -> SlotType]
      /\ g.freememory_[pos].offset = newoff
      /\ g.freememory_[pos].size = size
      /\ \A i \in DOMAIN f.freememory_ \ {pos} : g.freememory_[i] = f.freememory_[i]
      /\ Used(g) = Used(f)
  <2> DEFINE slot == [f.freememory_[pos] EXCEPT !.offset = newoff, !.size = size]
  <2>1. pos \in Used(f) /\ pos \in DOMAIN f.freememory_ /\ InUse(f.freememory_[pos])
    BY DEF Good, MapOK, Used
  <2>2. f.freememory_ \in [DOMAIN f.freememory_ -> SlotType]
    BY DEF Good, SlotsOK
  <2>3. g.freememory_ = [f.freememory_ EXCEPT ![pos] = slot]
    BY <1>1
  <2> HIDE DEF pos, g
  <2>4. /\ slot \in SlotType /\ slot.offset = newoff /\ slot.size = size
        /\ slot.del = f.freememory_[pos].del
    BY <2>1, <2>2 DEF SlotType
  <2>5. InUse(slot)
    BY <2>1, <2>4, ClientAssumption DEF InUse
  <2> HIDE DEF slot
  <2>6. /\ DOMAIN g.freememory_ = DOMAIN f.freememory_
        /\ g.freememory_ \in [DOMAIN f.freememory_ -> SlotType]
        /\ g.freememory_[pos] = slot
        /\ \A i \in DOMAIN f.freememory_ \ {pos} : g.freememory_[i] = f.freememory_[i]
    BY <2>1, <2>2, <2>3, <2>4
  <2>7. Used(g) = Used(f)
    BY <2>1, <2>5, <2>6 DEF Used
  <2>8. QED BY <2>1, <2>4, <2>6, <2>7
<1>3. MapOK(f) /\ f.freememory_[pos].offset = off
  BY DEF Good, MapOK
<1> HIDE DEF g, pos
<1>4. HeaderOK(g)
  BY <1>1 DEF Good, HeaderOK
<1>5. \A i \in Used(f) : i # pos => g.freememory_[i] = f.freememory_[i]
  BY <1>2 DEF Used
<1>6. SlotsOK(g)
  <2>1. \A i \in Used(g) : g.freememory_[i].offset \in Offsets
    BY <1>2, <1>5 DEF Good, SlotsOK
  <2>2. QED BY <1>1, <1>2, <2>1 DEF Good, SlotsOK
<1>7. MapOK(g)
  <2>1. /\ DOMAIN g.map_fm_ = (DOMAIN f.map_fm_ \ {off}) \cup {newoff}
        /\ g.map_fm_[newoff] = [pos |-> pos, size |-> size]
        /\ \A o \in DOMAIN f.map_fm_ \ {off} : g.map_fm_[o] = f.map_fm_[o]
        /\ g.map_fm_ = [o \in DOMAIN g.map_fm_ |-> g.map_fm_[o]]
    BY <1>1 DEF Bind, Unbind
  <2>2. \A o \in DOMAIN g.map_fm_ : g.map_fm_[o] \in [pos : Used(g), size : Sizes]
    BY <1>2, <1>3, <2>1 DEF MapOK
  <2>3. g.map_fm_ \in [DOMAIN g.map_fm_ -> [pos : Used(g), size : Sizes]]
    BY <2>1, <2>2
  <2>4. ASSUME NEW o \in DOMAIN f.map_fm_ \ {off}
        PROVE  /\ g.map_fm_[o] = f.map_fm_[o]
               /\ f.map_fm_[o].pos \in Used(f)
               /\ f.map_fm_[o].pos # pos
    BY <1>3, <2>1 DEF MapOK
  <2>5. ASSUME NEW o \in DOMAIN g.map_fm_
        PROVE  /\ g.freememory_[g.map_fm_[o].pos].offset = o
               /\ g.freememory_[g.map_fm_[o].pos].size = g.map_fm_[o].size
    <3>1. CASE o = newoff
      BY <1>2, <2>1, <3>1
    <3>2. CASE o \in DOMAIN f.map_fm_ \ {off}
      <4>1. g.freememory_[g.map_fm_[o].pos] = f.freememory_[f.map_fm_[o].pos]
        BY <1>5, <2>4, <3>2
      <4>2. QED BY <1>3, <2>4, <3>2, <4>1 DEF MapOK
    <3>3. QED BY <2>1, <3>1, <3>2
  <2>6. ASSUME NEW i \in Used(g)
        PROVE  /\ g.freememory_[i].offset \in DOMAIN g.map_fm_
               /\ g.map_fm_[g.freememory_[i].offset].pos = i
    <3>1. CASE i = pos
      BY <1>2, <2>1, <3>1
    <3>2. CASE i # pos
      <4>1. g.freememory_[i] = f.freememory_[i]
        BY <1>2, <1>5, <3>2
      <4>2. /\ f.freememory_[i].offset \in DOMAIN f.map_fm_ \ {off}
            /\ f.map_fm_[f.freememory_[i].offset].pos = i
        BY <1>2, <1>3, <3>2 DEF MapOK, pos
      <4>3. QED BY <2>1, <4>1, <4>2
    <3>3. QED BY <3>1, <3>2
  <2>7. QED BY <2>3, <2>5, <2>6 DEF MapOK
<1>8. /\ g.free_slots_ \subseteq DOMAIN g.freememory_ \ Used(g)
      /\ Counted(g, g.free_slots_) = Counted(f, f.free_slots_)
  BY <1>1, <1>2 DEF Good, Counted
<1>9. QED BY <1>1, <1>4, <1>6, <1>7, <1>8 DEF Good, g

\* A kill inside UpdateBlock leaves a good file.
LEMMA UpdateCutsOK ==
  ASSUME NEW f, Good(f), NEW off \in DOMAIN f.map_fm_,
         NEW newoff \in Offsets, newoff \notin DOMAIN f.map_fm_ \ {off},
         NEW file \in UpdateBlockCuts(f, off, newoff)
  PROVE  FileOK(file)
<1> DEFINE pos == f.map_fm_[off].pos
           size == f.map_fm_[off].size
           g == UpdateBlock(f, off, newoff, size)
           moved == [f EXCEPT !.freememory_[SlotOf(f, off)].offset = newoff]
<1>1. file = f \/ file = moved
  BY Zenon DEF UpdateBlockCuts
<1>2. FileOK(f)
  BY GoodFile
<1>3. CASE file = moved
  <2>1. size \in Sizes /\ pos \in Used(f) /\ pos \in DOMAIN f.freememory_
        /\ f.freememory_[pos].size = size
    BY DEF Good, MapOK, Used
  <2>2. FileOK(g)
    <3> HIDE DEF size
    <3>1. QED BY <2>1, UpdateGood, GoodFile
  <2>3. /\ moved.num_pages = f.num_pages
        /\ moved.num_slots_free = f.num_slots_free
        /\ moved.freememory_ = [f.freememory_ EXCEPT ![pos] = [@ EXCEPT !.offset = newoff]]
    BY DEF SlotOf, Good, IsManager
  <2>4. /\ g.num_pages = f.num_pages
        /\ g.num_slots_free = f.num_slots_free
        /\ g.freememory_ = [f.freememory_ EXCEPT ![pos] =
                              [@ EXCEPT !.offset = newoff, !.size = size]]
    BY DEF UpdateBlock, SlotOf, Good, IsManager
  <2>5. f.freememory_ \in [DOMAIN f.freememory_ -> SlotType] /\ f.num_slots_free \in Nat
    BY DEF Good, SlotsOK, HeaderOK
  <2> HIDE DEF moved, g, pos, size
  <2>6. [f.freememory_[pos] EXCEPT !.offset = newoff]
          = [f.freememory_[pos] EXCEPT !.offset = newoff, !.size = size]
    BY <2>1, <2>5 DEF SlotType
  <2>7. moved.freememory_ = g.freememory_
    BY <2>3, <2>4, <2>6
  <2>8. QED BY <1>3, <2>2, <2>3, <2>4, <2>5, <2>7, FewerCounted
<1>4. QED BY <1>1, <1>2, <1>3

-----------------------------------------------------------------------------
(* The state machine.                                                      *)

\* The file CreateFile writes is good.
LEMMA CreateOK ==
  ASSUME MaxPages \in Nat \ {0}
  PROVE  FileOK(CreateFile(SizeOfData, InitOffset))
<1> DEFINE f == CreateFile(SizeOfData, InitOffset)
           top == SlotsIn(1) - 1
           size == SizeOfData - InitOffset
           first == [offset |-> InitOffset, size |-> size, del |-> 0]
<1>1. top \in Nat /\ top + 1 = SlotsIn(1)
  BY SlotsInOnePage
<1>2. /\ f.num_pages = 1
      /\ f.num_slots_free = top
      /\ f.freememory_ = [i \in 0 .. top |-> IF i = 0 THEN first ELSE ZeroSlot]
  BY Zenon DEF CreateFile
<1>3. size \in Sizes /\ size # 0 /\ InitOffset \in Offsets
  BY ClientAssumption
<1> HIDE DEF top, size, f
<1>4. first \in SlotType /\ InUse(first) /\ ZeroSlot \in SlotType /\ ~ InUse(ZeroSlot)
      /\ first.offset = InitOffset
  BY <1>3 DEF SlotType, InUse, ZeroSlot
<1> HIDE DEF first
<1>5. 0 \in 0 .. top
  BY <1>1
<1>6. /\ DOMAIN f.freememory_ = 0 .. top
      /\ f.freememory_[0] = first
      /\ \A i \in 0 .. top : i # 0 => f.freememory_[i] = ZeroSlot
      /\ f.freememory_ \in [0 .. top -> SlotType]
  BY <1>2, <1>4, <1>5
<1>7. Used(f) = {0}
  BY <1>4, <1>5, <1>6 DEF Used
<1>8. HeaderOK(f)
  BY <1>1, <1>2 DEF HeaderOK
<1>9. SlotsOK(f)
  BY <1>1, <1>3, <1>4, <1>6, <1>7 DEF SlotsOK, top
<1>10. Counted(f, DOMAIN f.freememory_ \ Used(f)) = 1 .. top
  BY <1>1, <1>2, <1>6, <1>7 DEF Counted
<1>11. Cardinality(1 .. top) = top
  BY <1>1, FS_Interval
<1>12. f.num_slots_free <= Cardinality(Counted(f, DOMAIN f.freememory_ \ Used(f)))
  BY <1>1, <1>2, <1>10, <1>11
<1>13. QED BY <1>7, <1>8, <1>9, <1>12 DEF FileOK, f

\* The inductive invariant.
ManagerGood == Good(fmb)

\* The manager is good when the file has just been created.
LEMMA InitGood == MaxPages \in 1 .. 2 /\ Init => ManagerGood
BY CreateOK, OpenGood DEF Init, ManagerGood

\* Every call, completed or killed, keeps the manager good.
LEMMA NextGood == MaxPages \in 1 .. 2 /\ ManagerGood /\ [Next]_fmb => ManagerGood'
<1> SUFFICES ASSUME MaxPages \in 1 .. 2, Good(fmb), [Next]_fmb
             PROVE  Good(fmb')
  BY DEF ManagerGood
<1>1. ASSUME NEW off \in Offsets, NEW size \in Sizes, Add(off, size)
      PROVE  Good(fmb')
  BY <1>1, AddGood DEF Add, MayAdd
<1>2. ASSUME NEW off \in Offsets, NEW newoff \in Offsets, NEW size \in Sizes,
             Update(off, newoff, size)
      PROVE  Good(fmb')
  BY <1>2, UpdateGood DEF Update
<1>3. ASSUME NEW off \in Offsets, Delete(off)
      PROVE  Good(fmb')
  <2>1. CASE off \in DOMAIN fmb.map_fm_
    BY <1>3, <2>1, DeleteGood DEF Delete
  <2>2. CASE off \notin DOMAIN fmb.map_fm_
    BY <1>3, <2>2 DEF Delete, DeleteBlock
  <2>3. QED BY <2>1, <2>2
<1>4. CASE Reopen
  BY <1>4, GoodFile, OpenGood DEF Reopen
<1>5. ASSUME NEW off \in Offsets, CrashInAdd(off)
      PROVE  Good(fmb')
  BY <1>5, AddCutsOK, OpenGood DEF CrashInAdd, MayAdd
<1>6. ASSUME NEW off \in Offsets, NEW newoff \in Offsets, CrashInUpdate(off, newoff)
      PROVE  Good(fmb')
  BY <1>6, UpdateCutsOK, OpenGood DEF CrashInUpdate
<1>7. ASSUME NEW off \in Offsets, CrashInDelete(off)
      PROVE  Good(fmb')
  BY <1>7, DeleteCutsOK, OpenGood DEF CrashInDelete
<1>8. CASE UNCHANGED fmb
  BY <1>8
<1>9. QED BY <1>1, <1>2, <1>3, <1>4, <1>5, <1>6, <1>7, <1>8 DEF Next

\* In every execution that expands the file at most once the manager is good.
THEOREM AlwaysGood == MaxPages \in 1 .. 2 => (Spec => []ManagerGood)
<1> SUFFICES ASSUME MaxPages \in 1 .. 2 PROVE Spec => []ManagerGood
  OBVIOUS
<1>1. Init => ManagerGood
  BY InitGood
<1>2. ManagerGood /\ [Next]_fmb => ManagerGood'
  BY NextGood
<1>3. QED BY <1>1, <1>2, PTL DEF Spec

-----------------------------------------------------------------------------
(* What follows from Good.                                                 *)

\* A good manager has the type the code gives it.
LEMMA GoodType == ManagerGood => TypeOK
<1> SUFFICES ASSUME Good(fmb) PROVE TypeOK
  BY DEF ManagerGood
<1>1. /\ fmb.num_pages \in 1 .. MaxPages
      /\ fmb.num_slots_free \in Nat
      /\ fmb.freememory_ \in [Slots -> SlotType]
      /\ fmb.free_slots_ \subseteq Slots
  BY DEF Good, HeaderOK, SlotsOK, Slots
<1>2. \E last \in Slots : Slots = 0 .. last
  BY DEF Good, SlotsOK, Slots
<1>3. Blocks \subseteq Offsets
  <2>1. \A off \in Blocks : /\ fmb.map_fm_[off].pos \in Used(fmb)
                           /\ fmb.freememory_[fmb.map_fm_[off].pos].offset = off
    BY DEF Good, MapOK, Blocks
  <2>2. \A i \in Used(fmb) : fmb.freememory_[i].offset \in Offsets
    BY DEF Good, SlotsOK
  <2>3. QED BY <2>1, <2>2, Zenon
<1>4. fmb.map_fm_ \in [Blocks -> [pos : Slots, size : Sizes]]
  <2>1. fmb.map_fm_ \in [Blocks -> [pos : Used(fmb), size : Sizes]]
    BY DEF Good, MapOK, Blocks
  <2>2. Used(fmb) \subseteq Slots
    BY DEF Used, Slots
  <2>3. QED BY <2>1, <2>2
<1>5. QED BY <1>1, <1>2, <1>3, <1>4 DEF TypeOK, Good, IsManager

\* Of a good manager memory and file describe the same blocks, and a slot that
\* is free holds none.
LEMMA GoodAgrees == ManagerGood => SlotsAgree /\ FreeSlotsAreFree
<1> SUFFICES ASSUME Good(fmb) PROVE SlotsAgree /\ FreeSlotsAreFree
  BY DEF ManagerGood
<1>1. \A off \in Blocks : fmb.map_fm_[off].pos \in Used(fmb)
  BY DEF Good, MapOK, Blocks
<1>2. FreeSlotsAreFree
  BY <1>1 DEF FreeSlotsAreFree, Good
<1>3. \A off \in Blocks :
        /\ InUse(fmb.freememory_[fmb.map_fm_[off].pos])
        /\ fmb.freememory_[fmb.map_fm_[off].pos].offset = off
        /\ fmb.freememory_[fmb.map_fm_[off].pos].size = fmb.map_fm_[off].size
  BY <1>1 DEF Used, Good, MapOK, Blocks
<1>4. \A i \in Slots : InUse(fmb.freememory_[i]) =>
        /\ i \notin fmb.free_slots_
        /\ fmb.freememory_[i].offset \in Blocks
        /\ fmb.map_fm_[fmb.freememory_[i].offset].pos = i
  BY DEF Good, MapOK, Used, Slots, Blocks
<1>5. QED BY <1>2, <1>3, <1>4, Zenon DEF SlotsAgree

\* A good manager has a slot in free_slots_ for each one its header counts.
LEMMA GoodCount == ManagerGood => SlotAtHand
<1> SUFFICES ASSUME Good(fmb) PROVE SlotAtHand
  BY DEF ManagerGood
<1>1. /\ IsFiniteSet(fmb.free_slots_) /\ Cardinality(fmb.free_slots_) \in Nat
      /\ Counted(fmb, fmb.free_slots_) \subseteq fmb.free_slots_
      /\ Cardinality(Counted(fmb, fmb.free_slots_)) \in Nat
  BY SlotSetsFinite DEF Good
<1>2. Cardinality(Counted(fmb, fmb.free_slots_)) <= Cardinality(fmb.free_slots_)
  BY <1>1, FS_Subset
<1>3. QED BY <1>1, <1>2 DEF SlotAtHand, Good, HeaderOK

\* A good manager, closed and opened, has the blocks it had.
LEMMA GoodReopens == ManagerGood => RestartLosesNothing
<1> SUFFICES ASSUME Good(fmb) PROVE OpenFile(fmb).map_fm_ = fmb.map_fm_
  BY Zenon DEF RestartLosesNothing, ManagerGood
<1> DEFINE g == OpenFile(fmb)
<1>1. Good(g)
  BY GoodFile, OpenGood
<1>2. g.freememory_ = fmb.freememory_
  BY Zenon DEF OpenFile
<1>3. Used(g) = Used(fmb)
  BY <1>2 DEF Used
<1> HIDE DEF g
<1>4. MapOK(g) /\ MapOK(fmb)
  BY <1>1 DEF Good
<1>5. DOMAIN g.map_fm_ = DOMAIN fmb.map_fm_
  <2>1. DOMAIN g.map_fm_ = {fmb.freememory_[i].offset : i \in Used(fmb)}
    <3>1. \A off \in DOMAIN g.map_fm_ : /\ g.map_fm_[off].pos \in Used(fmb)
                                        /\ fmb.freememory_[g.map_fm_[off].pos].offset = off
      BY <1>2, <1>3, <1>4 DEF MapOK
    <3>2. \A i \in Used(fmb) : fmb.freememory_[i].offset \in DOMAIN g.map_fm_
      BY <1>2, <1>3, <1>4, Zenon DEF MapOK
    <3>3. QED BY <3>1, <3>2
  <2>2. DOMAIN fmb.map_fm_ = {fmb.freememory_[i].offset : i \in Used(fmb)}
    <3>1. \A off \in DOMAIN fmb.map_fm_ : /\ fmb.map_fm_[off].pos \in Used(fmb)
                                          /\ fmb.freememory_[fmb.map_fm_[off].pos].offset = off
      BY <1>4 DEF MapOK
    <3>2. \A i \in Used(fmb) : fmb.freememory_[i].offset \in DOMAIN fmb.map_fm_
      BY <1>4, Zenon DEF MapOK
    <3>3. QED BY <3>1, <3>2
  <2>3. QED BY <2>1, <2>2
<1>6. ASSUME NEW off \in DOMAIN fmb.map_fm_
      PROVE  g.map_fm_[off] = fmb.map_fm_[off]
  <2>1. /\ g.map_fm_[off].pos \in Used(fmb)
        /\ fmb.freememory_[g.map_fm_[off].pos].offset = off
        /\ fmb.freememory_[g.map_fm_[off].pos].size = g.map_fm_[off].size
        /\ g.map_fm_[off] \in [pos : Used(fmb), size : Sizes]
    BY <1>2, <1>3, <1>4, <1>5 DEF MapOK
  <2>2. g.map_fm_[off].pos = fmb.map_fm_[off].pos
    BY <1>4, <2>1 DEF MapOK
  <2>3. /\ fmb.freememory_[fmb.map_fm_[off].pos].size = fmb.map_fm_[off].size
        /\ fmb.map_fm_[off] \in [pos : Used(fmb), size : Sizes]
    BY <1>4 DEF MapOK
  <2>4. QED BY <2>1, <2>2, <2>3
<1>7. /\ g.map_fm_ = [o \in DOMAIN g.map_fm_ |-> g.map_fm_[o]]
      /\ fmb.map_fm_ = [o \in DOMAIN fmb.map_fm_ |-> fmb.map_fm_[o]]
  BY <1>4 DEF MapOK
<1>8. QED BY <1>5, <1>6, <1>7, Zenon DEF g

\* The manager always has the type the code gives it.
THEOREM TypeCorrect == MaxPages \in 1 .. 2 => (Spec => []TypeOK)
BY AlwaysGood, GoodType, PTL

\* Memory and file always describe the same blocks (SlotsAgree): through moves,
\* deletes, the expansion and any kill, map_fm_ and the slot array stay in step.
THEOREM MemoryMatchesFile == MaxPages \in 1 .. 2 => (Spec => []SlotsAgree)
BY AlwaysGood, GoodAgrees, PTL

\* AddBlock never takes a slot that holds a block (FreeSlotsAreFree).
THEOREM NoSlotTakenTwice == MaxPages \in 1 .. 2 => (Spec => []FreeSlotsAreFree)
BY AlwaysGood, GoodAgrees, PTL

\* AddBlock always finds the slot the header promises (SlotAtHand): it never
\* dereferences begin() of an empty free_slots_.
THEOREM SlotAlwaysAtHand == MaxPages \in 1 .. 2 => (Spec => []SlotAtHand)
BY AlwaysGood, GoodCount, PTL

\* Closing and opening the file gives back exactly the blocks there were
\* (RestartLosesNothing).
THEOREM NothingLostOnRestart == MaxPages \in 1 .. 2 => (Spec => []RestartLosesNothing)
BY AlwaysGood, GoodReopens, PTL

-----------------------------------------------------------------------------
(* What one step does to the other blocks.                                 *)

\* Block x of f is a block of g, with its size.
Stays(f, g, x) == x \in DOMAIN g.map_fm_ /\ g.map_fm_[x].size = f.map_fm_[x].size

\* A block whose slot a kill leaves alone is there when the file is opened again.
LEMMA SlotStays ==
  ASSUME NEW f, Good(f), NEW file, FileOK(file), NEW x \in DOMAIN f.map_fm_,
         f.map_fm_[x].pos \in DOMAIN file.freememory_,
         file.freememory_[f.map_fm_[x].pos] = f.freememory_[f.map_fm_[x].pos]
  PROVE  Stays(f, OpenFile(file), x)
<1> DEFINE g == OpenFile(file)
           i == f.map_fm_[x].pos
<1>1. Good(g)
  BY OpenGood
<1>2. g.freememory_ = file.freememory_
  BY Zenon DEF OpenFile
<1> HIDE DEF g
<1>3. /\ i \in Used(f) /\ f.freememory_[i].offset = x
      /\ f.freememory_[i].size = f.map_fm_[x].size
  BY DEF Good, MapOK
<1>4. i \in Used(g)
  BY <1>2, <1>3 DEF Used
<1>5. g.freememory_[i].offset \in DOMAIN g.map_fm_ /\ g.map_fm_[g.freememory_[i].offset].pos = i
  BY <1>1, <1>4, Zenon DEF Good, MapOK
<1>6. g.freememory_[i] = f.freememory_[i]
  BY <1>2
<1>7. x \in DOMAIN g.map_fm_ /\ g.map_fm_[x].pos = i
  BY <1>3, <1>5, <1>6, SMTT(30)
<1>8. g.map_fm_[x].size = g.freememory_[g.map_fm_[x].pos].size
  BY <1>1, <1>7 DEF Good, MapOK
<1>9. QED BY <1>3, <1>6, <1>7, <1>8 DEF Stays, g

\* Two blocks have two slots.
LEMMA OtherSlot ==
  ASSUME NEW f, Good(f), NEW off \in DOMAIN f.map_fm_, NEW x \in DOMAIN f.map_fm_, x # off
  PROVE  f.map_fm_[x].pos # f.map_fm_[off].pos /\ f.map_fm_[x].pos \in DOMAIN f.freememory_
BY DEF Good, MapOK, Used

\* A kill inside AddBlock changes no slot there was.
LEMMA AddCutsKeep ==
  ASSUME NEW f, Good(f), NEW file \in AddBlockCuts(f), NEW i \in DOMAIN f.freememory_
  PROVE  i \in DOMAIN file.freememory_ /\ file.freememory_[i] = f.freememory_[i]
<1> DEFINE g == ExpandFile(f)
           grown == GrownSlots(f.freememory_, SlotsIn(f.num_pages) * 4)
<1>1. IsManager(f)
  BY DEF Good
<1>2. g.freememory_ = grown /\ IsManager(g)
  <2> DEFINE pages == f.num_pages * 2
             count == f.num_slots_free + (SlotsIn(f.num_pages) * 4 - SlotsIn(f.num_pages))
             free == f.free_slots_ \cup SlotsIn(f.num_pages) .. (SlotsIn(f.num_pages) * 4 - 1)
  <2>1. g = [f EXCEPT !.num_pages = pages, !.num_slots_free = count,
                      !.freememory_ = grown, !.free_slots_ = free]
    BY Zenon DEF ExpandFile
  <2> HIDE DEF pages, count, grown, free, g
  <2>2. g = [num_pages |-> pages, num_slots_free |-> count, freememory_ |-> grown,
             map_fm_ |-> f.map_fm_, free_slots_ |-> free]
    BY <1>1, <2>1 DEF IsManager
  <2>3. QED BY <2>2 DEF IsManager
<1>3. i \in DOMAIN grown /\ grown[i] = f.freememory_[i]
  BY DEF GrownSlots
<1>4. \/ file \in {f, [f EXCEPT !.freememory_ = g.freememory_],
                   [[f EXCEPT !.freememory_ = g.freememory_] EXCEPT !.num_pages = g.num_pages], g}
      \/ file = [WithRoom(f) EXCEPT !.num_slots_free = @ - 1]
  BY DEF AddBlockCuts, ExpandFileCuts
<1>5. WithRoom(f) \in {f, g}
  BY DEF WithRoom
<1> HIDE DEF g, grown
<1>6. \A h \in {f, g} : [h EXCEPT !.num_slots_free = @ - 1].freememory_ = h.freememory_
  BY <1>1, <1>2 DEF IsManager
<1>7. [f EXCEPT !.freememory_ = g.freememory_].freememory_ = g.freememory_
  BY <1>1 DEF IsManager
<1>8. [[f EXCEPT !.freememory_ = g.freememory_] EXCEPT !.num_pages = g.num_pages].freememory_
        = g.freememory_
  BY <1>1 DEF IsManager
<1>9. file.freememory_ \in {f.freememory_, grown}
  BY <1>2, <1>4, <1>5, <1>6, <1>7, <1>8
<1>10. QED BY <1>3, <1>9

\* A kill inside UpdateBlock changes one slot at most.
LEMMA MovedSlot ==
  ASSUME NEW f, Good(f), NEW off \in DOMAIN f.map_fm_, NEW newoff \in Offsets,
         NEW file \in UpdateBlockCuts(f, off, newoff)
  PROVE  file.freememory_ \in
           {f.freememory_, [f.freememory_ EXCEPT ![f.map_fm_[off].pos] =
                              [f.freememory_[f.map_fm_[off].pos] EXCEPT !.offset = newoff]]}
<1> DEFINE pos == f.map_fm_[off].pos
           moved == [f EXCEPT !.freememory_[SlotOf(f, off)].offset = newoff]
<1>1. file = f \/ file = moved
  BY Zenon DEF UpdateBlockCuts
<1>2. moved.freememory_ = [f.freememory_ EXCEPT ![pos] = [@ EXCEPT !.offset = newoff]]
  BY DEF SlotOf, Good, IsManager
<1> HIDE DEF moved
<1>3. QED BY <1>1, <1>2

LEMMA NextKeeps ==
  ASSUME MaxPages \in 1 .. 2, ManagerGood, Next
  PROVE  \E off \in Offsets : \A x \in Blocks \ {off} : Stays(fmb, fmb', x)
<1>1. Good(fmb) /\ IsManager(fmb)
  BY DEF ManagerGood, Good
<1>2. ASSUME NEW off \in Offsets, NEW size \in Sizes, Add(off, size)
      PROVE  \A x \in Blocks \ {off} : Stays(fmb, fmb', x)
  <2> DEFINE r == WithRoom(fmb)
             k == Least(r.free_slots_)
  <2>1. fmb' = [r EXCEPT !.free_slots_    = @ \ {k},
                         !.num_slots_free = @ - 1,
                         !.map_fm_        = Bind(@, off, [pos |-> k, size |-> size]),
                         !.freememory_[k] = [offset |-> off, size |-> size, del |-> 0]]
    BY <1>2, Zenon DEF Add, AddBlock
  <2>2. Good(r) /\ r.map_fm_ = fmb.map_fm_
    BY <1>1, <1>2, RoomGood DEF Add, MayAdd
  <2> HIDE DEF r, k
  <2>3. fmb'.map_fm_ = Bind(fmb.map_fm_, off, [pos |-> k, size |-> size])
    BY <2>1, <2>2 DEF Good, IsManager
  <2>4. QED BY <2>3 DEF Stays, Bind, Blocks
<1>3. ASSUME NEW off \in Offsets, NEW newoff \in Offsets, NEW size \in Sizes,
             Update(off, newoff, size)
      PROVE  \A x \in Blocks \ {off} : Stays(fmb, fmb', x)
  <2>1. fmb'.map_fm_ = Bind(Unbind(fmb.map_fm_, off), newoff,
                            [pos |-> SlotOf(fmb, off), size |-> size])
    BY <1>1, <1>3 DEF Update, UpdateBlock, IsManager
  <2>2. newoff \notin Blocks \ {off}
    BY <1>3 DEF Update, Blocks
  <2>3. QED BY <2>1, <2>2 DEF Stays, Bind, Unbind, Blocks
<1>4. ASSUME NEW off \in Offsets, Delete(off)
      PROVE  \A x \in Blocks \ {off} : Stays(fmb, fmb', x)
  <2>1. fmb'.map_fm_ = Unbind(fmb.map_fm_, off) \/ fmb' = fmb
    BY <1>1, <1>4 DEF Delete, DeleteBlock, IsManager
  <2>2. QED BY <2>1 DEF Stays, Unbind, Blocks
<1>5. ASSUME Reopen PROVE \A x \in Blocks : Stays(fmb, fmb', x)
  <2>1. FileOK(fmb) /\ fmb' = OpenFile(fmb)
    BY <1>1, <1>5, GoodFile DEF Reopen
  <2>2. \A x \in Blocks : fmb.map_fm_[x].pos \in DOMAIN fmb.freememory_
    BY <1>1 DEF Good, MapOK, Used, Blocks
  <2>3. QED BY <1>1, <2>1, <2>2, SlotStays DEF Blocks
<1>6. ASSUME NEW off \in Offsets, CrashInAdd(off)
      PROVE  \A x \in Blocks : Stays(fmb, fmb', x)
  <2>1. PICK file \in AddBlockCuts(fmb) : fmb' = OpenFile(file)
    BY <1>6 DEF CrashInAdd
  <2>2. FileOK(file)
    BY <1>1, <1>6, AddCutsOK DEF CrashInAdd, MayAdd
  <2>3. \A x \in Blocks : fmb.map_fm_[x].pos \in DOMAIN fmb.freememory_
    BY <1>1 DEF Good, MapOK, Used, Blocks
  <2>4. ASSUME NEW x \in Blocks PROVE Stays(fmb, fmb', x)
    <3>1. /\ fmb.map_fm_[x].pos \in DOMAIN file.freememory_
          /\ file.freememory_[fmb.map_fm_[x].pos] = fmb.freememory_[fmb.map_fm_[x].pos]
      BY <1>1, <2>3, AddCutsKeep
    <3>2. QED BY <1>1, <2>1, <2>2, <3>1, SlotStays DEF Blocks
  <2>5. QED BY <2>4
<1>7. ASSUME NEW off \in DOMAIN fmb.map_fm_, NEW file, FileOK(file), fmb' = OpenFile(file),
             NEW slot,
             file.freememory_ \in {fmb.freememory_,
                                   [fmb.freememory_ EXCEPT ![fmb.map_fm_[off].pos] = slot]}
      PROVE  \A x \in Blocks \ {off} : Stays(fmb, fmb', x)
  <2>1. ASSUME NEW x \in Blocks \ {off} PROVE Stays(fmb, fmb', x)
    <3>1. x \in DOMAIN fmb.map_fm_ /\ x # off
      BY DEF Blocks
    <3>2. /\ fmb.map_fm_[x].pos # fmb.map_fm_[off].pos
          /\ fmb.map_fm_[x].pos \in DOMAIN fmb.freememory_
      BY <1>1, <3>1, OtherSlot
    <3>3. /\ fmb.map_fm_[x].pos \in DOMAIN file.freememory_
          /\ file.freememory_[fmb.map_fm_[x].pos] = fmb.freememory_[fmb.map_fm_[x].pos]
      BY <1>7, <3>2
    <3>4. QED BY <1>1, <1>7, <3>1, <3>3, SlotStays
  <2>2. QED BY <2>1
<1>8. ASSUME NEW off \in Offsets, NEW newoff \in Offsets, CrashInUpdate(off, newoff)
      PROVE  \A x \in Blocks \ {off} : Stays(fmb, fmb', x)
  <2>1. PICK file \in UpdateBlockCuts(fmb, off, newoff) : fmb' = OpenFile(file)
    BY <1>8 DEF CrashInUpdate
  <2>2. off \in DOMAIN fmb.map_fm_ /\ FileOK(file)
    BY <1>1, <1>8, UpdateCutsOK DEF CrashInUpdate
  <2> DEFINE slot == [fmb.freememory_[fmb.map_fm_[off].pos] EXCEPT !.offset = newoff]
  <2>3. file.freememory_ \in {fmb.freememory_,
                              [fmb.freememory_ EXCEPT ![fmb.map_fm_[off].pos] = slot]}
    BY <1>1, <2>2, MovedSlot
  <2> HIDE DEF slot
  <2>4. QED BY <1>7, <2>1, <2>2, <2>3
<1>9. ASSUME NEW off \in Offsets, CrashInDelete(off)
      PROVE  \A x \in Blocks \ {off} : Stays(fmb, fmb', x)
  <2>1. PICK file \in DeleteBlockCuts(fmb, off) : fmb' = OpenFile(file)
    BY <1>9 DEF CrashInDelete
  <2>2. CASE off \in DOMAIN fmb.map_fm_
    <3> DEFINE slot == [fmb.freememory_[fmb.map_fm_[off].pos] EXCEPT !.del = 1]
    <3>1. file.freememory_ \in {fmb.freememory_,
                                [fmb.freememory_ EXCEPT ![fmb.map_fm_[off].pos] = slot]}
      BY <1>1, <2>2 DEF DeleteBlockCuts, IsManager
    <3>2. FileOK(file)
      BY <1>1, <2>2, DeleteCutsOK
    <3> HIDE DEF slot
    <3>3. QED BY <1>7, <2>1, <2>2, <3>1, <3>2
  <2>3. CASE off \notin DOMAIN fmb.map_fm_
    BY <1>5, <2>1, <2>3 DEF DeleteBlockCuts, Reopen
  <2>4. QED BY <2>2, <2>3
<1>10. InitOffset \in Offsets
  BY ClientAssumption
<1>11. QED BY <1>2, <1>3, <1>4, <1>5, <1>6, <1>8, <1>9, <1>10 DEF Next

\* No call, completed or killed, disturbs more than one block (OneBlockDisturbed).
THEOREM OthersStay == MaxPages \in 1 .. 2 => (Spec => OneBlockDisturbed)
<1> SUFFICES ASSUME MaxPages \in 1 .. 2 PROVE Spec => OneBlockDisturbed
  OBVIOUS
<1>1. Spec => []ManagerGood
  BY AlwaysGood
<1>2. ManagerGood /\ [Next]_fmb =>
        [\E off \in Offsets : \A x \in Blocks \ {off} :
           x \in Blocks' /\ fmb'.map_fm_[x].size = fmb.map_fm_[x].size]_fmb
  BY NextKeeps DEF Stays, Blocks
<1>3. QED BY <1>1, <1>2, PTL DEF Spec, OneBlockDisturbed
=============================================================================
