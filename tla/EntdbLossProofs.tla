-------------------------- MODULE EntdbLossProofs --------------------------
(***************************************************************************)
(* The proof of Entdb's LossBounded, under the bounds of EntdbProofs and   *)
(* with its invariant DatabaseGood.                                        *)
(*                                                                         *)
(* A step that concerns one key has three parts of the pool to account     *)
(* for: the bytes of the other settled keys, which stay theirs (Rest); the *)
(* bytes that are free or the key's before it (what Put may allocate from, *)
(* once the key's extent is freed and the pool is grown: covered); and the *)
(* bytes that are free or the key's after it (kept).  All that a step can  *)
(* lose is what is covered and not kept, and the lemmas ...Covers of       *)
(* FreeListProofs say this is nothing or one extent.                       *)
(***************************************************************************)
EXTENDS EntdbProofs

-----------------------------------------------------------------------------
(* What is free or somebody's.                                             *)

\* The bytes that are free or a settled key's.
Uses == BytesOf(Ext(mem.fb)) \cup BytesOf(HeldBy(idx, SettledIn(idx, gone)))

\* Key's own bytes, as long as it is settled.
Own(x, lost, key) ==
  IF key \in SettledIn(x, lost) THEN Bytes(OffOf(x, key), SizeOf(x, key)) ELSE {}

\* The bytes that are free or key's.
Kept(key) == BytesOf(Ext(mem.fb)) \cup Own(idx, gone, key)

LEMMA LostUses == Lost = 0 .. mem.pool - 1 \ Uses
<1>1. FreeExtents \cup ExtentsOf(Settled) = Ext(mem.fb) \cup HeldBy(idx, SettledIn(idx, gone))
  BY DEF FreeExtents, ExtentsOf, HeldBy, ExtentOf, OffOf, SizeOf, Settled, SettledIn
<1>2. BytesOf(Ext(mem.fb) \cup HeldBy(idx, SettledIn(idx, gone))) = Uses
  BY BytesOfUnion DEF Uses
<1>3. QED BY <1>1, <1>2 DEF Lost

LEMMA HeldBytes ==
  ASSUME NEW x, NEW lost, NEW key
  PROVE  BytesOf(HeldBy(x, SettledIn(x, lost))) =
           Own(x, lost, key) \cup BytesOf(HeldBy(x, SettledIn(x, lost) \ {key}))
<1> DEFINE all == SettledIn(x, lost)
           e == <<OffOf(x, key), SizeOf(x, key)>>
<1>1. CASE key \in all
  <2>1. HeldBy(x, all) = {e} \cup HeldBy(x, all \ {key})
    BY <1>1 DEF HeldBy
  <2>2. e[1] = OffOf(x, key) /\ e[2] = SizeOf(x, key)
    OBVIOUS
  <2> HIDE DEF e, all
  <2>3. BytesOf({e}) = Bytes(OffOf(x, key), SizeOf(x, key))
    BY <2>2, BytesOfOne
  <2>4. BytesOf({e} \cup HeldBy(x, all \ {key})) = BytesOf({e}) \cup BytesOf(HeldBy(x, all \ {key}))
    BY BytesOfUnion
  <2>5. QED BY <1>1, <2>1, <2>3, <2>4 DEF Own, all
<1>2. CASE key \notin all
  <2>1. all \ {key} = all
    BY <1>2
  <2>2. QED BY <1>2, <2>1 DEF Own
<1>3. QED BY <1>1, <1>2

\* Before a step, and after one that concerns the key: the others have what they had.
LEMMA UsesBefore ==
  ASSUME NEW key
  PROVE  Uses = Kept(key) \cup BytesOf(Rest(key))
<1>1. BytesOf(HeldBy(idx, SettledIn(idx, gone))) =
        Own(idx, gone, key) \cup BytesOf(HeldBy(idx, SettledIn(idx, gone) \ {key}))
  BY HeldBytes
<1>2. QED BY <1>1 DEF Uses, Kept, Rest

LEMMA UsesAfter ==
  ASSUME NEW key, Keeps(idx, idx', {key, EmptyKey, TornKey}), gone \subseteq gone',
         gone' \subseteq gone \cup {key}
  PROVE  Uses' = Kept(key)' \cup BytesOf(Rest(key))
<1> DEFINE old == SettledIn(idx, gone) \ {key}
           new == SettledIn(idx', gone') \ {key}
<1>1. {EmptyKey, TornKey} \cap Keys = {}
  BY EntdbAssumption
<1>2. new = old
  BY <1>1 DEF SettledIn, Keeps
<1>3. \A k \in old : OffOf(idx', k) = OffOf(idx, k) /\ SizeOf(idx', k) = SizeOf(idx, k)
  BY DEF SettledIn, Keeps, OffOf, SizeOf
<1>4. HeldBy(idx', new) = HeldBy(idx, old)
  BY <1>2, <1>3 DEF HeldBy
<1>5. BytesOf(HeldBy(idx', SettledIn(idx', gone'))) = Own(idx', gone', key) \cup BytesOf(HeldBy(idx', new))
  BY HeldBytes
<1>6. QED BY <1>4, <1>5 DEF Uses, Kept, Rest

-----------------------------------------------------------------------------
(* What a step may lose.                                                   *)

\* Nothing, or bytes that lie together.
LosesNothing == Lost' \ Lost = {}
LosesLittle == \A low, high \in Lost' \ Lost : low .. high \subseteq Lost' \ Lost

LEMMA NothingIsLittle == LosesNothing => LosesLittle
BY DEF LosesNothing, LosesLittle

\* What is covered for the key in a pool of that size: all that is in use or that the
\* pool grew by, but what the others have.
Covers(key, covered, pool) ==
  /\ covered \cup BytesOf(Rest(key)) = Uses \cup mem.pool .. pool - 1
  /\ covered \cap BytesOf(Rest(key)) = {}
  /\ pool \in Nat /\ mem.pool \in Nat /\ mem.pool <= pool

LEMMA StepLoses ==
  ASSUME NEW key, NEW covered, Covers(key, covered, mem'.pool),
         Keeps(idx, idx', {key, EmptyKey, TornKey}), gone \subseteq gone', gone' \subseteq gone \cup {key},
         KeepsOrLosesOne(covered, Kept(key)', mem'.pool)
  PROVE  LosesLittle /\ (Kept(key)' = covered => LosesNothing)
<1> DEFINE rest == BytesOf(Rest(key))
           kept == Kept(key)'
           pool == mem'.pool
<1>1. Uses' = kept \cup rest
  BY UsesAfter
<1>2. /\ covered \cup rest = Uses \cup mem.pool .. pool - 1 /\ covered \cap rest = {}
      /\ pool \in Nat /\ mem.pool \in Nat /\ mem.pool <= pool
  BY DEF Covers
<1>3. Lost = 0 .. mem.pool - 1 \ Uses /\ Lost' = 0 .. pool - 1 \ Uses'
  <2>1. Lost = 0 .. mem.pool - 1 \ Uses
    BY LostUses
  <2>2. (Lost = 0 .. mem.pool - 1 \ Uses)'
    BY LostUses, PTL
  <2>3. Lost' = 0 .. pool - 1 \ Uses'
    BY <2>2
  <2>4. QED BY <2>1, <2>3
<1>4. KeepsOrLosesOne(covered, kept, pool)
  OBVIOUS
<1> HIDE DEF rest, kept, pool
<1>5. CASE kept = covered
  <2>1. LosesNothing
    BY <1>1, <1>2, <1>3, <1>5 DEF LosesNothing
  <2>2. QED BY <2>1, NothingIsLittle
<1>6. CASE kept # covered
  <2>1. PICK e : /\ IsExtent(e, pool) /\ Bytes(e[1], e[2]) \subseteq covered
                 /\ kept = covered \ Bytes(e[1], e[2])
    BY <1>4, <1>6 DEF KeepsOrLosesOne
  <2> DEFINE first == e[1]
             last == e[1] + e[2] - 1
  <2>2. first \in Nat /\ last \in Nat /\ last < pool /\ Bytes(e[1], e[2]) = first .. last
    BY <1>2, <2>1 DEF IsExtent, Bytes
  <2> HIDE DEF first, last
  <2>3. first .. last \subseteq covered /\ kept = covered \ first .. last
    BY <2>1, <2>2
  <2>4. Lost' \ Lost = first .. last
    <3>1. \A x \in first .. last : x \in 0 .. pool - 1 /\ x \notin Uses'
      BY <1>1, <1>2, <2>2, <2>3
    <3>2. \A x \in first .. last : x \notin Lost
      BY <1>2, <1>3, <2>2, <2>3
    <3>3. \A x \in 0 .. pool - 1 : x \notin Uses' /\ x \notin first .. last => x \in Lost
      BY <1>1, <1>2, <1>3, <2>3
    <3>4. QED BY <1>3, <3>1, <3>2, <3>3
  <2>5. ASSUME NEW low \in first .. last, NEW high \in first .. last
        PROVE  low .. high \subseteq first .. last
    BY <2>2
  <2>6. QED BY <1>6, <2>4, <2>5, Zenon DEF LosesLittle, kept
<1>7. QED BY <1>5, <1>6

\* A step that changes neither the blocks nor a record.
LEMMA SameLoses ==
  ASSUME Ext(mem'.fb) = Ext(mem.fb), mem'.pool = mem.pool, gone' = gone,
         DOMAIN idx'.index_ = DOMAIN idx.index_,
         \A k \in DOMAIN idx.index_ : idx'.index_[k] = idx.index_[k]
  PROVE  LosesNothing
<1>1. HeldBy(idx', SettledIn(idx', gone')) = HeldBy(idx, SettledIn(idx, gone))
  BY DEF HeldBy, SettledIn, OffOf, SizeOf
<1>2. Uses' = Uses
  BY <1>1 DEF Uses
<1>3. (Lost = 0 .. mem.pool - 1 \ Uses)'
  BY LostUses, PTL
<1>4. QED BY <1>2, <1>3, LostUses DEF LosesNothing

LEMMA ReopenedExt ==
  ASSUME NEW m, NEW L, MemOK(m, L)
  PROVE  Ext(OpenMemory(m.fb, m.pool).fb) = Ext(m.fb)
<1>1. F!FileOK(m.fb) /\ Ext(m.fb) = SlotExt(m.fb)
  BY GoodExt DEF MemOK
<1>2. QED BY <1>1, OpenExt DEF OpenMemory

\* A restart on the files as they are.
LEMMA RestartLoses ==
  ASSUME Before, Restart(mem.fb, mem.pool, idx), gone' = gone
  PROVE  LosesNothing
<1>1. mem' = OpenMemory(mem.fb, mem.pool) /\ idx' = I!OpenFile(idx)
  BY DEF Restart
<1>2. Ext(mem'.fb) = Ext(mem.fb) /\ mem'.pool = mem.pool
  BY <1>1, RestGood, ReopenedExt, OpenedPool
<1>3. DOMAIN idx'.index_ = DOMAIN idx.index_ /\ \A k \in DOMAIN idx.index_ : idx'.index_[k] = idx.index_[k]
  BY <1>1, IndexAsWas DEF Keeps
<1>4. QED BY <1>2, <1>3, SameLoses

-----------------------------------------------------------------------------
(* The managers of a Put or Delete.                                        *)

\* A manager next to the others' extents covers none of their bytes.
LEMMA MemApart ==
  ASSUME NEW m, NEW L, MemOK(m, L)
  PROVE  BytesOf(Ext(m.fb)) \cap BytesOf(L) = {}
<1>1. Sep(Ext(m.fb), L, m.pool)
  BY DEF MemOK
<1>2. QED BY <1>1, SepBytes

\* Once the key's extent is freed what was free or key's is free.
LEMMA ReleasedCovers ==
  ASSUME Before, NEW key \in Keys, MayUse(key), Known(key) => MayAdd(mem.fb), NEW m \in Released(key)
  PROVE  BytesOf(Ext(m.fb)) = Kept(key) /\ Covers(key, BytesOf(Ext(m.fb)), mem.pool)
<1>1. MemOK(m, Rest(key)) /\ m.pool = mem.pool /\ mem.pool \in Nat
  BY ReleasedGood, RestGood
<1>2. BytesOf(Ext(m.fb)) = Kept(key)
  <2>1. CASE Known(key)
    <3>1. PICK rp, rn : m = Free(mem, ExtentOf(key).off, ExtentOf(key).disk_size, rp, rn)
      BY <2>1 DEF Released
    <3>2. /\ key \in SettledIn(idx, gone)
          /\ Freeable(mem, Rest(key), ExtentOf(key).off, ExtentOf(key).disk_size)
      BY <2>1, HeldFreeable
    <3>3. BytesOf(Ext(m.fb)) = BytesOf(Ext(mem.fb)) \cup Bytes(ExtentOf(key).off, ExtentOf(key).disk_size)
      BY <3>1, <3>2, FreeCovers
    <3>4. QED BY <3>2, <3>3 DEF Kept, Own, OffOf, SizeOf, ExtentOf
  <2>2. CASE ~ Known(key)
    BY <2>2 DEF Released, Kept, Own, SettledIn, Known
  <2>3. QED BY <2>1, <2>2
<1>3. BytesOf(Ext(m.fb)) \cap BytesOf(Rest(key)) = {}
  BY <1>1, MemApart
<1>4. Uses = Kept(key) \cup BytesOf(Rest(key))
  BY UsesBefore
<1>5. mem.pool .. mem.pool - 1 = {}
  BY <1>1
<1>6. QED BY <1>1, <1>2, <1>3, <1>4, <1>5 DEF Covers

\* And once the pool is grown, what it grew by.
LEMMA GrownCovers ==
  ASSUME Before, NEW key \in Keys, MayUse(key), Known(key) => MayAdd(mem.fb), NEW m \in Released(key),
         MayAddTo(m.fb), NEW r \in Nat \ {0}
  PROVE  LET pool == PoolFor(m, r)
             covered == BytesOf(Ext(m.fb)) \cup Bytes(m.pool, pool - m.pool)
         IN  /\ Covers(key, covered, pool)
             /\ \A rp, rn : BytesOf(Ext(Grow(m, pool, rp, rn).fb)) = covered
             /\ \A file \in FreeCuts(m.fb, m.pool, pool - m.pool) :
                  /\ KeepsOrLosesOne(covered, BytesOf(SlotExt(file)), pool)
                  /\ F!FileOK(file)
<1> DEFINE pool == PoolFor(m, r)
           covered == BytesOf(Ext(m.fb)) \cup Bytes(m.pool, pool - m.pool)
           grown == [m EXCEPT !.pool = pool]
<1>1. MemOK(m, Rest(key)) /\ m.pool = mem.pool /\ mem.pool \in Nat \ {0}
  BY ReleasedGood, RestGood
<1>2. pool \in Nat /\ pool > m.pool
  BY <1>1, GrowGood
<1>3. grown.fb = m.fb /\ grown.pool = pool
  BY <1>1 DEF MemOK, IsMem
<1>4. \A rp, rn : Grow(m, pool, rp, rn) = Free(grown, m.pool, pool - m.pool, rp, rn)
  BY Zenon DEF Grow
<1> HIDE DEF pool
<1>5. Freeable(grown, Rest(key), m.pool, pool - m.pool)
  BY <1>1, <1>2, GrownFreeable
<1> HIDE DEF grown
<1>6. \A rp, rn : BytesOf(Ext(Grow(m, pool, rp, rn).fb)) = covered
  BY <1>3, <1>4, <1>5, FreeCovers
<1>7. ASSUME NEW file \in FreeCuts(m.fb, m.pool, pool - m.pool)
      PROVE  KeepsOrLosesOne(covered, BytesOf(SlotExt(file)), pool) /\ F!FileOK(file)
  BY <1>3, <1>5, FreeCutsCover, FreeCutsGood
<1>8. Bytes(m.pool, pool - m.pool) = mem.pool .. pool - 1
  BY <1>1, <1>2 DEF Bytes
<1>9. covered \cap BytesOf(Rest(key)) = {}
  BY <1>3, <1>5, FreeableBytes
<1>10. BytesOf(Ext(m.fb)) \cup BytesOf(Rest(key)) = Uses
  <2>1. mem.pool .. mem.pool - 1 = {}
    BY <1>1
  <2>2. QED BY <2>1, ReleasedCovers DEF Covers
<1>11. Covers(key, covered, pool)
  BY <1>1, <1>2, <1>8, <1>9, <1>10 DEF Covers
<1>12. QED BY <1>6, <1>7, <1>11 DEF pool

LEMMA OfferedCovers ==
  ASSUME Before, NEW key \in Keys, NEW value \in Values, NeedsExtent(key, value),
         NEW m \in Offers(key, value)
  PROVE  Covers(key, BytesOf(Ext(m.fb)), m.pool)
<1> DEFINE r == AlignedSize(value)
<1>1. r \in Nat \ {0}
  BY AlignedHolds
<1>2. PICK released \in Released(key) : m \in Offering(released, r)
  BY DEF Offers
<1> HIDE DEF r
<1>3. released.pool = mem.pool /\ MemOK(released, Rest(key)) /\ Covers(key, BytesOf(Ext(released.fb)), mem.pool)
  BY <1>2, ReleasedGood, ReleasedCovers DEF NeedsExtent
<1>4. CASE Fits(released, r) # {}
  BY <1>2, <1>3, <1>4 DEF Offering
<1>5. CASE Fits(released, r) = {}
  <2>1. MayAddTo(released.fb)
    BY <1>2, <1>5 DEF Offering, MayAddTo, Before, Bounded
  <2>2. PICK rp, rn : m = Grow(released, PoolFor(released, r), rp, rn)
    BY <1>2, <1>5 DEF Offering
  <2>3. m.pool = PoolFor(released, r)
    BY <1>1, <1>3, <2>1, <2>2, GrowGood
  <2>4. Covers(key, BytesOf(Ext(m.fb)), PoolFor(released, r))
    <3>1. MayUse(key) /\ (Known(key) => MayAdd(mem.fb))
      BY DEF NeedsExtent
    <3> DEFINE pool == PoolFor(released, r)
               covered == BytesOf(Ext(released.fb)) \cup Bytes(released.pool, pool - released.pool)
    <3>2. /\ Covers(key, covered, pool)
          /\ \A p, n : BytesOf(Ext(Grow(released, pool, p, n).fb)) = covered
      BY <1>1, <1>2, <2>1, <3>1, GrownCovers
    <3> HIDE DEF pool, covered
    <3>3. m = Grow(released, pool, rp, rn)
      BY <2>2 DEF pool
    <3>4. QED BY <3>2, <3>3 DEF pool
  <2>5. QED BY <2>3, <2>4
<1>6. QED BY <1>4, <1>5

\* The bytes of the extent x that is taken were covered, and a kill leaves its file with
\* all of them or none.
LEMMA TakenCovers ==
  ASSUME Before, NEW key \in Keys, NEW value \in Values, NEW m, NEW e, NEW x,
         Takes(key, value, m, e, x)
  PROVE  LET covered == BytesOf(Ext(m.fb))
             own == Bytes(x.off, x.disk_size)
             taken == TakeBlock(m, e, AlignedSize(value))
         IN  /\ Covers(key, covered, m.pool)
             /\ own \subseteq covered /\ BytesOf(Ext(taken.fb)) = covered \ own
             /\ IsExtent(<<x.off, x.disk_size>>, m.pool)
             /\ Ext(OpenMemory(taken.fb, m.pool).fb) = Ext(taken.fb)
             /\ taken.pool = m.pool
             /\ \A file \in TakeCuts(m, e, AlignedSize(value)) :
                  (file \in {m.fb, taken.fb} \/ ~ Splits(e, AlignedSize(value))) =>
                    /\ F!FileOK(file)
                    /\ KeepsOrLosesOne(covered, BytesOf(SlotExt(file)), m.pool)
<1> DEFINE r == AlignedSize(value)
           taken == TakeBlock(m, e, r)
           all == Rest(key) \cup {<<x.off, x.disk_size>>}
<1>1. /\ NeedsExtent(key, value) /\ m \in Offers(key, value) /\ e = BestFit(m, r) /\ IsBlock(m, e)
      /\ x.off = e.offset /\ x.disk_size = RspSize(e, r)
  BY TakesFacts
<1>2. r \in Nat \ {0}
  BY AlignedHolds
<1>3. MemOK(m, Rest(key)) /\ Fits(m, r) # {} /\ Covers(key, BytesOf(Ext(m.fb)), m.pool)
  BY <1>1, OfferedGood, OfferedCovers
<1>4. MemOK(taken, all) /\ taken.pool = m.pool
  BY TakenGood DEF TakenWell
<1> HIDE DEF r
<1>5. e \in EntriesOf(m.fb) /\ e.size >= r
  <2>1. e \in Fits(m, r)
    BY <1>1, <1>2, <1>3, BestFitFits DEF MemOK
  <2>2. QED BY <1>1, <2>1 DEF Fits, IsBlock
<1>6. /\ Bytes(x.off, x.disk_size) \subseteq BytesOf(Ext(m.fb))
      /\ BytesOf(Ext(taken.fb)) = BytesOf(Ext(m.fb)) \ Bytes(x.off, x.disk_size)
      /\ \A file \in TakeCuts(m, e, r) :
           (file \in {m.fb, taken.fb} \/ ~ Splits(e, r)) =>
              KeepsOrLosesOne(BytesOf(Ext(m.fb)), BytesOf(SlotExt(file)), m.pool)
  BY <1>1, <1>2, <1>3, <1>5, TakeCovers
<1>7. \A file \in TakeCuts(m, e, r) : (file \in {m.fb, taken.fb} \/ ~ Splits(e, r)) => F!FileOK(file)
  BY <1>2, <1>3, <1>5, TakeGood
<1> HIDE DEF taken
<1>8. Ext(OpenMemory(taken.fb, m.pool).fb) = Ext(taken.fb)
  BY <1>4, ReopenedExt
<1>9. IsExtent(<<x.off, x.disk_size>>, m.pool)
  BY <1>4 DEF MemOK, Sep
<1>10. QED BY <1>3, <1>4, <1>6, <1>7, <1>8, <1>9 DEF taken, r

-----------------------------------------------------------------------------
(* The steps.                                                              *)

\* A kill that leaves the blocks in file, and the key with no extent.
LEMMA KillLoses ==
  ASSUME NEW key, NEW covered, NEW pool, Covers(key, covered, pool),
         NEW file, F!FileOK(file), KeepsOrLosesOne(covered, BytesOf(SlotExt(file)), pool),
         mem' = OpenMemory(file, pool),
         Keeps(idx, idx', {key, EmptyKey, TornKey}), gone \subseteq gone', gone' \subseteq gone \cup {key},
         key \notin SettledIn(idx', gone')
  PROVE  LosesLittle
<1>1. mem'.pool = pool /\ mem'.fb = OpenFile(file)
  BY DEF OpenMemory
<1>2. Kept(key)' = BytesOf(SlotExt(file))
  BY <1>1, OpenExt DEF Kept, Own
<1>3. QED BY <1>1, <1>2, StepLoses

\* A step of a Put that took extent x, of which the key's record is if it has one.
LEMMA TookLoses ==
  ASSUME Before, NEW key \in Keys, NEW value \in Values, NEW m, NEW e, NEW x,
         Takes(key, value, m, e, x),
         Keeps(idx, idx', {key, EmptyKey, TornKey}), gone \subseteq gone', gone' \subseteq gone \cup {key},
         key \in SettledIn(idx', gone') => idx'.index_[key].extent = x,
         \/ mem' = TakeBlock(m, e, AlignedSize(value))
         \/ mem' = OpenMemory(TakeBlock(m, e, AlignedSize(value)).fb, m.pool)
  PROVE  LosesLittle /\ (key \in SettledIn(idx', gone') => LosesNothing)
<1> DEFINE covered == BytesOf(Ext(m.fb))
           own == Bytes(x.off, x.disk_size)
           taken == TakeBlock(m, e, AlignedSize(value))
           f == <<x.off, x.disk_size>>
<1>1. /\ Covers(key, covered, m.pool) /\ own \subseteq covered
      /\ BytesOf(Ext(taken.fb)) = covered \ own /\ IsExtent(f, m.pool)
      /\ Ext(OpenMemory(taken.fb, m.pool).fb) = Ext(taken.fb) /\ taken.pool = m.pool
  BY TakenCovers
<1>2. mem' = taken \/ mem' = OpenMemory(taken.fb, m.pool)
  OBVIOUS
<1>3. f[1] = x.off /\ f[2] = x.disk_size
  OBVIOUS
<1> HIDE DEF covered, own, taken, f
<1>4. BytesOf(Ext(mem'.fb)) = covered \ own /\ mem'.pool = m.pool
  BY <1>1, <1>2, OpenedPool
<1>5. CASE key \in SettledIn(idx', gone')
  <2>1. Own(idx', gone', key) = own
    BY <1>5 DEF Own, OffOf, SizeOf, own
  <2>2. Kept(key)' = covered
    BY <1>1, <1>4, <2>1 DEF Kept
  <2>3. KeepsOrLosesOne(covered, Kept(key)', mem'.pool)
    BY <2>2 DEF KeepsOrLosesOne
  <2>4. QED BY <1>1, <1>4, <2>2, <2>3, StepLoses
<1>6. CASE key \notin SettledIn(idx', gone')
  <2>1. Kept(key)' = covered \ own
    BY <1>4, <1>6 DEF Kept, Own
  <2>2. own = Bytes(f[1], f[2])
    BY <1>3 DEF own
  <2>3. KeepsOrLosesOne(covered, Kept(key)', mem'.pool)
    BY <1>1, <1>4, <2>1, <2>2 DEF KeepsOrLosesOne
  <2>4. QED BY <1>1, <1>4, <1>6, <2>3, StepLoses
<1>7. QED BY <1>5, <1>6

LEMMA PutInPlaceLoses ==
  ASSUME NEW key, NEW value, PutInPlace(key, value)
  PROVE  LosesNothing
<1>1. idx' = idx /\ mem' = mem /\ gone' = gone
  BY DEF PutInPlace
<1>2. QED BY <1>1, SameLoses

LEMMA DeleteLoses ==
  ASSUME Before, NEW key \in Keys, Delete(key)
  PROVE  LosesNothing
<1>1. /\ idx' = idx /\ gone' = gone \cup {key} /\ mem' \in Released(key)
      /\ MayUse(key) /\ Known(key) /\ MayAdd(mem.fb)
  BY DEF Delete
<1>2. mem'.pool = mem.pool
  BY <1>1, ReleasedGood
<1>3. BytesOf(Ext(mem'.fb)) = Kept(key) /\ Covers(key, BytesOf(Ext(mem'.fb)), mem.pool)
  BY <1>1, ReleasedCovers
<1>4. Kept(key)' = Kept(key)
  BY <1>1, <1>3 DEF Kept, Own, SettledIn
<1>5. KeepsOrLosesOne(Kept(key), Kept(key)', mem'.pool)
  BY <1>4 DEF KeepsOrLosesOne
<1>6. Keeps(idx, idx', {key, EmptyKey, TornKey}) /\ gone \subseteq gone' /\ gone' \subseteq gone \cup {key}
  BY <1>1, KeepsSelf
<1>7. QED BY <1>2, <1>3, <1>4, <1>5, <1>6, StepLoses

LEMMA CrashInFreeLoses ==
  ASSUME Before, NEW key \in Keys, CrashInFree(key)
  PROVE  LosesLittle
<1> DEFINE off == ExtentOf(key).off
           size == ExtentOf(key).disk_size
           covered == BytesOf(Ext(mem.fb)) \cup Bytes(off, size)
<1>1. PICK file \in FreeCuts(mem.fb, off, size) : Restart(file, mem.pool, idx)
  BY DEF CrashInFree
<1>2. /\ mem' = OpenMemory(file, mem.pool) /\ idx' = I!OpenFile(idx)
      /\ gone' = gone \cup {key} /\ MayUse(key) /\ Known(key) /\ MayAdd(mem.fb)
  BY <1>1 DEF CrashInFree, Restart
<1>3. Freeable(mem, Rest(key), off, size) /\ key \in SettledIn(idx, gone)
  BY <1>2, HeldFreeable
<1>4. Covers(key, covered, mem.pool)
  <2>1. PICK reuse \in HeapReuse : TRUE
    BY PoolAssumption
  <2>2. Free(mem, off, size, reuse, reuse) \in Released(key)
    BY <1>2, <2>1 DEF Released
  <2> DEFINE m == Free(mem, off, size, reuse, reuse)
  <2>3. BytesOf(Ext(m.fb)) = covered
    BY <1>3, FreeCovers
  <2> HIDE DEF m, covered
  <2>4. Covers(key, BytesOf(Ext(m.fb)), mem.pool)
    BY <1>2, <2>2, ReleasedCovers DEF m
  <2>5. QED BY <2>3, <2>4
<1>5. KeepsOrLosesOne(covered, BytesOf(SlotExt(file)), mem.pool) /\ F!FileOK(file)
  BY <1>1, <1>3, FreeCutsCover, FreeCutsGood
<1>6. Keeps(idx, idx', {key, EmptyKey, TornKey})
  BY <1>2, IndexAsWas
<1>7. key \notin SettledIn(idx', gone') /\ gone \subseteq gone' /\ gone' \subseteq gone \cup {key}
  BY <1>2 DEF SettledIn
<1> HIDE DEF covered
<1>8. QED BY <1>2, <1>4, <1>5, <1>6, <1>7, KillLoses

\* A key whose Put was abandoned on the index as it is has no extent.
LEMMA AbandonedKey ==
  ASSUME Before, NEW key \in Keys, Abandoned(key), idx' = I!OpenFile(idx)
  PROVE  /\ Keeps(idx, idx', {key, EmptyKey, TornKey}) /\ gone \subseteq gone'
         /\ gone' \subseteq gone \cup {key} /\ key \notin SettledIn(idx', gone')
<1>1. Keeps(idx, idx', {key, EmptyKey, TornKey}) /\ DOMAIN idx'.index_ = DOMAIN idx.index_
  BY IndexAsWas
<1>2. QED BY <1>1 DEF Abandoned, SettledIn, Known

LEMMA CrashInGrowLoses ==
  ASSUME Before, NEW key \in Keys, NEW value \in Values, CrashInGrow(key, value)
  PROVE  LosesLittle
<1> DEFINE r == AlignedSize(value)
<1>1. PICK m \in Released(key) :
        /\ MayAdd(m.fb)
        /\ \E blocks \in FreeCuts(m.fb, m.pool, PoolFor(m, r) - m.pool) : Restart(blocks, PoolFor(m, r), idx)
  BY DEF CrashInGrow
<1> DEFINE pool == PoolFor(m, r)
           covered == BytesOf(Ext(m.fb)) \cup Bytes(m.pool, pool - m.pool)
<1>2. PICK file \in FreeCuts(m.fb, m.pool, pool - m.pool) : Restart(file, pool, idx)
  BY <1>1
<1>3. /\ mem' = OpenMemory(file, pool) /\ idx' = I!OpenFile(idx) /\ Abandoned(key)
      /\ MayUse(key) /\ (Known(key) => MayAdd(mem.fb))
  BY <1>2 DEF CrashInGrow, Restart, NeedsExtent
<1>4. MayAddTo(m.fb) /\ r \in Nat \ {0}
  BY <1>1, AlignedHolds DEF MayAddTo, Before, Bounded
<1> HIDE DEF r
<1>5. /\ Covers(key, covered, pool)
      /\ KeepsOrLosesOne(covered, BytesOf(SlotExt(file)), pool) /\ F!FileOK(file)
  BY <1>2, <1>3, <1>4, GrownCovers
<1> HIDE DEF pool, covered
<1>6. QED BY <1>3, <1>5, AbandonedKey, KillLoses

LEMMA CrashInTakeLoses ==
  ASSUME Before, NEW key \in Keys, NEW value \in Values, CrashInTake(key, value), sound'
  PROVE  LosesLittle
<1> DEFINE r == AlignedSize(value)
<1>1. PICK m \in Offers(key, value) :
        LET e == BestFit(m, r)
        IN  \E blocks \in TakeCuts(m, e, r) :
              /\ Restart(blocks, m.pool, idx)
              /\ sound' = /\ sound
                          /\ IsBlock(m, e)
                          /\ blocks \in {m.fb, TakeBlock(m, e, r).fb} \/ ~ Splits(e, r)
  BY DEF CrashInTake
<1> DEFINE e == BestFit(m, r)
           x == NewExtent(value, e)
           covered == BytesOf(Ext(m.fb))
<1>2. PICK file \in TakeCuts(m, e, r) :
        /\ Restart(file, m.pool, idx) /\ IsBlock(m, e)
        /\ file \in {m.fb, TakeBlock(m, e, r).fb} \/ ~ Splits(e, r)
  BY <1>1
<1>3. /\ mem' = OpenMemory(file, m.pool) /\ idx' = I!OpenFile(idx) /\ Abandoned(key)
      /\ NeedsExtent(key, value)
  BY <1>2 DEF CrashInTake, Restart
<1>4. Takes(key, value, m, e, x)
  BY <1>2, <1>3 DEF Takes
<1> HIDE DEF e, x
<1>5. /\ Covers(key, covered, m.pool) /\ F!FileOK(file)
      /\ KeepsOrLosesOne(covered, BytesOf(SlotExt(file)), m.pool)
  BY <1>2, <1>4, TakenCovers
<1> HIDE DEF covered
<1>6. QED BY <1>3, <1>5, AbandonedKey, KillLoses

LEMMA PutUnallocatedLoses ==
  ASSUME Before, NEW key \in Keys, NEW value \in Values, PutUnallocated(key, value)
  PROVE  LosesLittle
<1> DEFINE Aimed(garbage) ==
             [off |-> garbage, value_size |-> Len(value), disk_size |-> AlignedSize(value)]
<1>1. PICK m \in Released(key), garbage \in Garbage :
        Restart(m.fb, m.pool, I!Put(idx, key, Aimed(garbage)))
  BY DEF PutUnallocated
<1> DEFINE x == Aimed(garbage)
           covered == BytesOf(Ext(m.fb))
<1>2. x \in ExtentType
  <2>1. garbage \in Nat /\ Len(value) \in Nat /\ AlignedSize(value) \in Nat
    BY ValueTyped, AlignedHolds, EntdbAssumption
  <2>2. QED BY <2>1 DEF ExtentType
<1>3. /\ mem' = OpenMemory(m.fb, m.pool) /\ idx' = I!OpenFile(I!Put(idx, key, x))
      /\ gone' = gone \cup {key} /\ I!PutDefined(idx, key)
      /\ MayUse(key) /\ (Known(key) => MayAdd(mem.fb))
  BY <1>1 DEF PutUnallocated, Restart, MayIndex, NeedsExtent
<1> HIDE DEF x
<1>4. Keeps(idx, idx', {key, EmptyKey, TornKey})
  BY <1>2, <1>3, RecordGood
<1>5. key \notin SettledIn(idx', gone') /\ gone \subseteq gone' /\ gone' \subseteq gone \cup {key}
  BY <1>3 DEF SettledIn
<1>6. MemOK(m, Rest(key)) /\ m.pool = mem.pool /\ Covers(key, covered, m.pool)
  BY <1>3, ReleasedGood, ReleasedCovers
<1>7. F!FileOK(m.fb) /\ BytesOf(SlotExt(m.fb)) = covered
  BY <1>6, GoodExt DEF MemOK
<1>8. KeepsOrLosesOne(covered, BytesOf(SlotExt(m.fb)), m.pool)
  BY <1>7 DEF KeepsOrLosesOne
<1> HIDE DEF covered
<1>9. QED BY <1>3, <1>4, <1>5, <1>6, <1>7, <1>8, KillLoses

\* A Put that records a new key loses nothing; one of a known key loses the extent it
\* took, which the index does not learn of.
LEMMA PutExtentLoses ==
  ASSUME Before, NEW key \in Keys, NEW value \in Values, PutExtent(key, value), sound'
  PROVE  LosesLittle /\ (~ Known(key) => LosesNothing)
<1> DEFINE r == AlignedSize(value)
<1>1. PICK m \in Offers(key, value) :
        LET e == BestFit(m, r)
        IN  /\ mem' = TakeBlock(m, e, r)
            /\ idx' = I!Put(idx, key, NewExtent(value, e))
            /\ sound' = (sound /\ IsBlock(m, e))
  BY DEF PutExtent
<1> DEFINE e == BestFit(m, r)
           x == NewExtent(value, e)
<1>2. /\ mem' = TakeBlock(m, e, AlignedSize(value)) /\ idx' = I!Put(idx, key, x) /\ IsBlock(m, e)
      /\ NeedsExtent(key, value) /\ I!PutDefined(idx, key)
      /\ gone' = IF Known(key) THEN gone \cup {key} ELSE gone
  BY <1>1 DEF PutExtent, MayIndex
<1>3. Takes(key, value, m, e, x)
  BY <1>2 DEF Takes
<1> HIDE DEF r, e, x
<1>4. x \in ExtentType
  BY <1>3, TakenGood DEF TakenWell, Beside
<1>5. /\ Keeps(idx, idx', {key, EmptyKey, TornKey}) /\ key \in DOMAIN idx'.index_
      /\ ~ Known(key) => idx'.index_[key].extent = x
  BY <1>2, <1>4, RecordGood
<1>6. /\ gone \subseteq gone' /\ gone' \subseteq gone \cup {key}
      /\ key \in SettledIn(idx', gone') => idx'.index_[key].extent = x
  BY <1>2, <1>5, GoneGood DEF SettledIn
<1>7. ~ Known(key) => key \in SettledIn(idx', gone')
  <2>1. gone \subseteq DOMAIN idx.index_
    BY DEF Before, DatabaseOK
  <2>2. QED BY <1>2, <1>5, <2>1 DEF SettledIn, Known
<1>8. LosesLittle /\ (key \in SettledIn(idx', gone') => LosesNothing)
  BY <1>2, <1>3, <1>5, <1>6, TookLoses
<1>9. QED BY <1>7, <1>8

LEMMA CrashInWriteLoses ==
  ASSUME Before, NEW key \in Keys, NEW value \in Values, CrashInWrite(key, value), sound'
  PROVE  LosesLittle
<1> DEFINE r == AlignedSize(value)
<1>1. PICK m \in Offers(key, value) :
        LET e == BestFit(m, r)
        IN  /\ Restart(TakeBlock(m, e, r).fb, m.pool, I!Put(idx, key, NewExtent(value, e)))
            /\ sound' = (sound /\ IsBlock(m, e))
  BY DEF CrashInWrite
<1> DEFINE e == BestFit(m, r)
           x == NewExtent(value, e)
<1>2. /\ mem' = OpenMemory(TakeBlock(m, e, AlignedSize(value)).fb, m.pool)
      /\ idx' = I!OpenFile(I!Put(idx, key, x)) /\ IsBlock(m, e)
      /\ NeedsExtent(key, value) /\ I!PutDefined(idx, key)
      /\ gone' = IF Known(key) THEN gone \cup {key} ELSE gone
  BY <1>1 DEF CrashInWrite, MayIndex, Restart, Abandoned
<1>3. Takes(key, value, m, e, x)
  BY <1>2 DEF Takes
<1> HIDE DEF r, e, x
<1>4. x \in ExtentType
  BY <1>3, TakenGood DEF TakenWell, Beside
<1>5. /\ Keeps(idx, idx', {key, EmptyKey, TornKey}) /\ key \in DOMAIN idx'.index_
      /\ ~ Known(key) => idx'.index_[key].extent = x
  BY <1>2, <1>4, RecordGood
<1>6. /\ gone \subseteq gone' /\ gone' \subseteq gone \cup {key}
      /\ key \in SettledIn(idx', gone') => idx'.index_[key].extent = x
  BY <1>2, <1>5, GoneGood DEF SettledIn
<1>7. QED BY <1>2, <1>3, <1>5, <1>6, TookLoses

LEMMA CrashInIndexLoses ==
  ASSUME Before, NEW key \in Keys, NEW value \in Values, CrashInIndex(key, value), sound'
  PROVE  LosesLittle
<1> DEFINE r == AlignedSize(value)
<1>1. PICK m \in Offers(key, value) :
        LET e == BestFit(m, r)
            x == NewExtent(value, e)
        IN  /\ \E index \in I!PutCuts(idx, key, x) :
                 /\ Restart(TakeBlock(m, e, r).fb, m.pool, index)
                 /\ gone' = IF key \in DOMAIN idx'.index_ /\ idx'.index_[key].extent # x
                            THEN gone \cup {key} ELSE gone
            /\ sound' = (sound /\ IsBlock(m, e))
  BY DEF CrashInIndex
<1> DEFINE e == BestFit(m, r)
           x == NewExtent(value, e)
<1>2. PICK index \in I!PutCuts(idx, key, x) :
        /\ Restart(TakeBlock(m, e, r).fb, m.pool, index)
        /\ gone' = IF key \in DOMAIN idx'.index_ /\ idx'.index_[key].extent # x
                   THEN gone \cup {key} ELSE gone
  BY <1>1
<1>3. /\ mem' = OpenMemory(TakeBlock(m, e, AlignedSize(value)).fb, m.pool)
      /\ idx' = I!OpenFile(index) /\ IsBlock(m, e)
      /\ NeedsExtent(key, value) /\ I!PutDefined(idx, key)
  BY <1>1, <1>2 DEF CrashInIndex, MayIndex, Restart
<1>4. Takes(key, value, m, e, x)
  BY <1>3 DEF Takes
<1> HIDE DEF r, e, x
<1>5. x \in ExtentType
  BY <1>4, TakenGood DEF TakenWell, Beside
<1>6. Keeps(idx, idx', {key, EmptyKey, TornKey})
  BY <1>2, <1>3, <1>5, IndexPut DEF Before, DatabaseOK
<1>7. /\ gone \subseteq gone' /\ gone' \subseteq gone \cup {key}
      /\ key \in SettledIn(idx', gone') => idx'.index_[key].extent = x
  BY <1>2 DEF SettledIn
<1>8. QED BY <1>3, <1>4, <1>6, <1>7, TookLoses

\* What a sound step follows is sound.
LEMMA SoundBefore ==
  ASSUME Bounded, DatabaseGood, Next, sound'
  PROVE  Before
<1>1. sound' => sound
  BY DEF Next, PutInPlace, PutExtent, Delete, Reopen, CrashInPlace, CrashInFree, CrashInGrow,
         PutUnallocated, CrashInTake, CrashInIndex, CrashInWrite
<1>2. QED BY <1>1 DEF DatabaseGood, Before

LEMMA NextLoses ==
  ASSUME Bounded, DatabaseGood, Next, sound'
  PROVE  LosesLittle /\ (ReturnsAll => LosesNothing)
<1>1. Before
  BY SoundBefore
<1>2. ASSUME Reopen PROVE LosesNothing
  BY <1>1, <1>2, RestartLoses DEF Reopen
<1>3. ASSUME NEW key \in Keys, NEW value \in Values,
             PutInPlace(key, value) \/ CrashInPlace(key, value)
      PROVE  LosesNothing
  BY <1>1, <1>3, PutInPlaceLoses, RestartLoses DEF CrashInPlace
<1>4. ReturnsAll => LosesNothing
  BY <1>1, <1>2, DeleteLoses, PutExtentLoses DEF ReturnsAll, Known
<1>5. LosesLittle
  BY <1>1, <1>2, <1>3, NothingIsLittle, PutExtentLoses, DeleteLoses, CrashInFreeLoses, CrashInGrowLoses,
     PutUnallocatedLoses, CrashInTakeLoses, CrashInIndexLoses, CrashInWriteLoses DEF Next
<1>6. QED BY <1>4, <1>5

-----------------------------------------------------------------------------
(* The theorem.                                                            *)

\* A call, completed or killed anywhere, loses at most one contiguous extent of the pool,
\* as long as no stale entry was handed out and no split torn; a Put of a new key, a
\* Delete or a restart loses none.
THEOREM LosesAtMostOneExtent == Bounded => (Spec => LossBounded)
<1> SUFFICES ASSUME Bounded PROVE Spec => LossBounded
  OBVIOUS
<1>1. Spec => []DatabaseGood
  BY AlwaysGood
<1>2. DatabaseGood /\ [Next]_vars =>
        [sound' =>
           LET more == Lost' \ Lost
           IN  /\ \A low, high \in more : low .. high \subseteq more
               /\ ReturnsAll => more = {}]_vars
  BY NextLoses DEF LosesLittle, LosesNothing
<1>3. QED BY <1>1, <1>2, PTL DEF Spec, LossBounded
=============================================================================
