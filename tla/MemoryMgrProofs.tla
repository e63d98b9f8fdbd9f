-------------------------- MODULE MemoryMgrProofs --------------------------
(***************************************************************************)
(* Proofs about MemoryMgr for every page, slot and alignment size, every   *)
(* set of requests and every outcome of the reads of erased nodes, and     *)
(* executions that expand the free-block file at most once.                *)
(*                                                                         *)
(* The inductive invariant ManagerGood says, as long as sound does: the    *)
(* free-block manager is good (Good of FMBMgrProofs, whose lemmas on its   *)
(* operations are used here), the extents of its blocks and those the      *)
(* client has lie apart inside the pool (Sep), and set_fm_ holds entries   *)
(* that start inside the pool (so the search for the best fit ends).  It   *)
(* says nothing else of set_fm_: what an entry that is no block does shows *)
(* when it is handed out, and then sound is false.                         *)
(*                                                                         *)
(* Beyond the invariant, LossBounded needs which bytes the free blocks and *)
(* the extents cover before and after a step (the lemmas ...Covers of      *)
(* FreeListProofs), and SetAgreesUnlessMerged what set_fm_ holds after     *)
(* each branch of Allocate and Free, stale entries included.               *)
(***************************************************************************)
EXTENDS MemoryMgr, FreeListProofs

-----------------------------------------------------------------------------
(* The client.                                                             *)

LiveOf(l) == {<<off, l[off]>> : off \in DOMAIN l}

LEMMA LiveBind ==
  ASSUME NEW l, NEW off, off \notin DOMAIN l, NEW size
  PROVE  LiveOf(Bind(l, off, size)) = LiveOf(l) \cup {<<off, size>>}
BY DEF LiveOf, Bind

LEMMA LiveUnbind ==
  ASSUME NEW l, NEW off \in DOMAIN l
  PROVE  LiveOf(Unbind(l, off)) = LiveOf(l) \ {<<off, l[off]>>}
BY DEF LiveOf, Unbind

LEMMA LiveBounds ==
  ASSUME NEW m, NEW l, MemOK(m, LiveOf(l)), NEW off \in DOMAIN l
  PROVE  /\ off \in Nat /\ l[off] \in Nat \ {0} /\ off + l[off] <= m.pool
         /\ <<off, l[off]>> \in LiveOf(l)
<1>1. <<off, l[off]>> \in LiveOf(l)
  BY DEF LiveOf
<1>2. IsExtent(<<off, l[off]>>, m.pool)
  BY <1>1 DEF MemOK, Sep
<1>3. QED BY <1>1, <1>2 DEF IsExtent

\* An extent of the client's may be freed once it is given up.
LEMMA HeldFreeable ==
  ASSUME NEW m, NEW l, MemOK(m, LiveOf(l)), MayAddTo(m.fb), NEW off \in DOMAIN l
  PROVE  Freeable(m, LiveOf(Unbind(l, off)), off, l[off])
<1> DEFINE e == <<off, l[off]>>
<1>1. e \in LiveOf(l) /\ LiveOf(Unbind(l, off)) = LiveOf(l) \ {e} /\ e[1] = off /\ e[2] = l[off]
  BY LiveUnbind DEF LiveOf
<1> HIDE DEF e
<1>2. QED BY <1>1, UsedFreeable

\* The extent handed out is apart from all the client has.
LEMMA TookGood ==
  ASSUME NEW m, NEW l, MemOK(m, LiveOf(l)), NEW req \in Requests,
         NEW r, r = align_size(req, ALIGNMENT_DATA), Fits(m, r) # {},
         NEW e, e = BestFit(m, r), IsBlock(m, e),
         NEW size, size = RspSize(e, r)
  PROVE  /\ e.offset \notin DOMAIN l /\ size >= req
         /\ MemOK(TakeBlock(m, e, r), LiveOf(Bind(l, e.offset, size)))
         /\ TakeBlock(m, e, r).pool = m.pool
         /\ A!Bytes(e.offset, size) \subseteq 0 .. m.pool - 1
         /\ \A off \in DOMAIN l : A!Bytes(e.offset, size) \cap A!Bytes(off, l[off]) = {}
         /\ \A file \in TakeCuts(m, e, r) :
              (file \in {m.fb, TakeBlock(m, e, r).fb} \/ ~ Splits(e, r)) =>
                 MemOK(OpenMemory(file, m.pool), LiveOf(l))
<1> DEFINE x == <<e.offset, size>>
<1>1. req \in Nat \ {0} /\ r \in Nat \ {0} /\ r >= req
  <2>1. req \in Nat \ {0} /\ ALIGNMENT_DATA \in Nat \ {0}
    BY MemoryAssumption, AlignAssumption
  <2>2. QED BY <2>1, AlignUp
<1>2. /\ e.offset \in Nat /\ size \in Nat \ {0} /\ size >= r
      /\ e.offset + size <= m.pool /\ TakeBlock(m, e, r).pool = m.pool
      /\ \A f \in LiveOf(l) : e.offset # f[1] /\ Disjoint(x, f)
      /\ MemOK(TakeBlock(m, e, r), LiveOf(l) \cup {x})
      /\ \A file \in TakeCuts(m, e, r) :
           (file \in {m.fb, TakeBlock(m, e, r).fb} \/ ~ Splits(e, r)) =>
              MemOK(OpenMemory(file, m.pool), LiveOf(l))
  <2>1. TakenFrom(m, LiveOf(l), r, e, size)
    BY <1>1, TakeMem
  <2>2. QED BY <2>1 DEF TakenFrom
<1>3. ASSUME NEW off \in DOMAIN l
      PROVE  e.offset # off /\ A!Bytes(e.offset, size) \cap A!Bytes(off, l[off]) = {}
  <2> DEFINE y == <<off, l[off]>>
  <2>1. /\ off \in Nat /\ l[off] \in Nat /\ y \in LiveOf(l) /\ y[1] = off /\ y[2] = l[off]
        /\ x[1] = e.offset /\ x[2] = size
    BY LiveBounds
  <2> HIDE DEF x, y
  <2>2. e.offset # off /\ (e.offset + size <= off \/ off + l[off] <= e.offset)
    BY <1>2, <2>1 DEF Disjoint
  <2>3. /\ A!Bytes(e.offset, size) = e.offset .. e.offset + size - 1
        /\ A!Bytes(off, l[off]) = off .. off + l[off] - 1
    BY DEF A!Bytes
  <2>4. QED BY <1>2, <2>1, <2>2, <2>3
<1>4. m.pool \in Nat
  BY DEF MemOK
<1>5. A!Bytes(e.offset, size) \subseteq 0 .. m.pool - 1
  BY <1>2, <1>4 DEF A!Bytes
<1>6. e.offset \notin DOMAIN l
  BY <1>3
<1>7. LiveOf(Bind(l, e.offset, size)) = LiveOf(l) \cup {x}
  BY <1>6, LiveBind
<1>8. size >= req
  BY <1>1, <1>2
<1>9. QED BY <1>2, <1>3, <1>5, <1>6, <1>7, <1>8

-----------------------------------------------------------------------------
(* The inductive invariant, and what every step does.                      *)

ManagerGood == sound => MemOK(mem, LiveOf(live))

StepGood == /\ MemOK(mem', LiveOf(live'))
            /\ A!Next
            /\ last'.status # "OutOfMemory"

LEMMA InitGood == MaxPages \in 1 .. 2 /\ Init => ManagerGood
<1> SUFFICES ASSUME MaxPages \in 1 .. 2, Init PROVE MemOK(mem, LiveOf(live))
  BY DEF ManagerGood
<1>1. mem = OpenMemory(CreateFile(SizeOfData, 0), SizeOfData) /\ LiveOf(live) = {}
  BY DEF Init, LiveOf
<1>2. QED BY <1>1, CreateMemGood

\* The client gets an extent of manager m: Allocate's last part.
LEMMA HandOutGood ==
  ASSUME NEW m, MemOK(m, LiveOf(live)), m.pool >= mem.pool, NEW req \in Requests, NEW reuse,
         Fits(m, align_size(req, ALIGNMENT_DATA)) # {},
         HandOut(m, req, BestFit(m, align_size(req, ALIGNMENT_DATA)), reuse), sound'
  PROVE  StepGood
<1> DEFINE r == align_size(req, ALIGNMENT_DATA)
           e == BestFit(m, r)
           off == e.offset
           size == RspSize(e, r)
<1>1. /\ mem' = TakeBlock(m, e, r) /\ live' = Bind(live, off, size)
      /\ last' = Returned("OK", req, reuse) /\ IsBlock(m, e)
  BY DEF HandOut
<1> HIDE DEF r, e, off, size
<1>2. /\ off \notin DOMAIN live /\ size >= req
      /\ MemOK(TakeBlock(m, e, r), LiveOf(Bind(live, off, size)))
      /\ TakeBlock(m, e, r).pool = m.pool
      /\ A!Bytes(off, size) \subseteq 0 .. m.pool - 1
      /\ \A x \in DOMAIN live : A!Bytes(off, size) \cap A!Bytes(x, live[x]) = {}
  <2>1. Fits(m, r) # {} /\ e = BestFit(m, r)
    BY DEF r, e
  <2>2. QED BY <1>1, <2>1, TookGood DEF off, size, r
<1>3. MemOK(mem', LiveOf(live'))
  BY <1>1, <1>2
<1>4. /\ mem'.pool = m.pool /\ last'.req = req /\ last'.status = "OK"
  BY <1>1, <1>2 DEF Returned
<1>5. A!Bytes(off, size) \cap A!Held = {}
  BY <1>2 DEF A!Held
<1>6. off \in DOMAIN live' \ DOMAIN live /\ live'[off] = size
      /\ live' = [x \in DOMAIN live \cup {off} |-> IF x = off THEN size ELSE live[x]]
  BY <1>1, <1>2 DEF Bind
<1>7. A!Allocate(off, size)
  BY <1>2, <1>4, <1>5, <1>6 DEF A!Allocate
<1>8. A!Next
  BY <1>6, <1>7 DEF A!Next
<1>9. QED BY <1>3, <1>4, <1>8 DEF StepGood

\* The client keeps what it has, or has given up one extent.
LEMMA KeepGood ==
  ASSUME MemOK(mem', LiveOf(live')), last'.status # "OutOfMemory",
         \/ live' = live /\ mem'.pool >= mem.pool
         \/ \E off \in DOMAIN live : live' = Unbind(live, off) /\ mem'.pool = mem.pool
  PROVE  StepGood
BY DEF StepGood, A!Next, A!Fail, A!Free, Unbind

LEMMA NextStepGood ==
  ASSUME MaxPages \in 1 .. 2, ManagerGood, Next, sound'
  PROVE  sound /\ StepGood
<1>1. sound /\ MemOK(mem, LiveOf(live))
  <2>1. sound
    BY Zenon DEF Next, AllocateFree, AllocateGrow, AllocateFail, FreeBlock, Reopen,
                 CrashInAllocate, CrashInGrow, CrashInFree, HandOut
  <2>2. QED BY <2>1 DEF ManagerGood
<1>2. mem.pool \in Nat \ {0}
  BY <1>1 DEF MemOK
<1>3. MayAdd(mem.fb) => MayAddTo(mem.fb)
  BY DEF MayAddTo
<1>4. ASSUME NEW req \in Requests
      PROVE  align_size(req, ALIGNMENT_DATA) \in Nat \ {0}
  <2>1. req \in Nat \ {0} /\ ALIGNMENT_DATA \in Nat \ {0}
    BY MemoryAssumption, AlignAssumption
  <2>2. QED BY <2>1, AlignUp
<1>5. ASSUME NEW req \in Requests, AllocateFree(req) PROVE StepGood
  BY <1>1, <1>2, <1>5, HandOutGood DEF AllocateFree
<1>6. ASSUME NEW req \in Requests, AllocateGrow(req) PROVE StepGood
  <2> DEFINE r == align_size(req, ALIGNMENT_DATA)
             new == PoolFor(mem, r)
  <2>1. PICK rp, rn : LET m == Grow(mem, new, rp, rn)
                      IN  IF Fits(m, r) # {} THEN HandOut(m, req, BestFit(m, r), rn)
                          ELSE mem' = m
    BY <1>6 DEF AllocateGrow
  <2> DEFINE m == Grow(mem, new, rp, rn)
  <2>2. MemOK(m, LiveOf(live)) /\ m.pool = new /\ new \in Nat /\ new > mem.pool /\ Fits(m, r) # {}
    BY <1>1, <1>3, <1>4, <1>6, GrowGood DEF AllocateGrow
  <2>3. HandOut(m, req, BestFit(m, r), rn)
    BY <2>1, <2>2
  <2> HIDE DEF r, new, m
  <2>4. m.pool >= mem.pool
    BY <1>2, <2>2
  <2>5. QED BY <2>2, <2>3, <2>4, HandOutGood DEF r
<1>7. ASSUME NEW req \in Requests, AllocateFail(req) PROVE StepGood
  <2>1. mem' = mem /\ live' = live /\ last'.status = "IOError"
    BY <1>7 DEF AllocateFail, Returned
  <2>2. QED BY <1>1, <1>2, <2>1, KeepGood
<1>8. ASSUME NEW off \in DOMAIN live, FreeBlock(off) PROVE StepGood
  <2>1. PICK rp, rn : mem' = Free(mem, off, live[off], rp, rn) /\ last'.status = "OK"
    BY <1>8 DEF FreeBlock, Returned
  <2>2. live' = Unbind(live, off) /\ MayAddTo(mem.fb)
    BY <1>3, <1>8 DEF FreeBlock
  <2>3. Freeable(mem, LiveOf(live'), off, live[off])
    BY <1>1, <2>2, HeldFreeable
  <2>4. MemOK(mem', LiveOf(live')) /\ mem'.pool = mem.pool
    BY <2>1, <2>3, FreeGood
  <2>5. QED BY <2>1, <2>2, <2>4, KeepGood
<1>9. ASSUME NEW file, NEW pool, RestartFrom(file, pool), MemOK(OpenMemory(file, pool), LiveOf(live'))
      PROVE  MemOK(mem', LiveOf(live')) /\ mem'.pool = pool /\ last'.status # "OutOfMemory"
  <2>1. mem' = OpenMemory(file, pool) /\ last'.status = "Restart"
    BY <1>9 DEF RestartFrom, Returned
  <2>2. mem'.pool = pool
    BY <2>1 DEF OpenMemory
  <2>3. QED BY <1>9, <2>1, <2>2
<1>10. ASSUME Reopen PROVE StepGood
  <2>1. RestartFrom(mem.fb, mem.pool) /\ live' = live
    BY <1>10 DEF Reopen
  <2>2. MemOK(OpenMemory(mem.fb, mem.pool), LiveOf(live'))
    BY <1>1, <2>1, ReopenGood
  <2>3. QED BY <1>2, <1>9, <2>1, <2>2, KeepGood
<1>11. ASSUME NEW req \in Requests, CrashInAllocate(req) PROVE StepGood
  <2> DEFINE r == align_size(req, ALIGNMENT_DATA)
             e == BestFit(mem, r)
  <2>1. PICK file \in TakeCuts(mem, e, r) :
               /\ RestartFrom(file, mem.pool) /\ IsBlock(mem, e)
               /\ file \in {mem.fb, TakeBlock(mem, e, r).fb} \/ ~ Splits(e, r)
    BY <1>11 DEF CrashInAllocate
  <2>2. Fits(mem, r) # {} /\ live' = live
    BY <1>11 DEF CrashInAllocate
  <2>3. MemOK(OpenMemory(file, mem.pool), LiveOf(live))
    BY <1>1, <2>1, <2>2, TookGood
  <2>4. MemOK(mem', LiveOf(live')) /\ mem'.pool = mem.pool /\ last'.status # "OutOfMemory"
    BY <1>9, <2>1, <2>2, <2>3
  <2>5. QED BY <1>2, <2>2, <2>4, KeepGood
<1>12. ASSUME NEW req \in Requests, CrashInGrow(req) PROVE StepGood
  <2> DEFINE r == align_size(req, ALIGNMENT_DATA)
             new == PoolFor(mem, r)
  <2>1. PICK file \in FreeCuts(mem.fb, mem.pool, new - mem.pool) : RestartFrom(file, new)
    BY <1>12 DEF CrashInGrow
  <2>2. live' = live /\ MayAddTo(mem.fb)
    BY <1>3, <1>12 DEF CrashInGrow
  <2>3. new \in Nat /\ new > mem.pool /\ MemOK(OpenMemory(file, new), LiveOf(live'))
    BY <1>1, <1>4, <2>1, <2>2, GrowGood
  <2> HIDE DEF new
  <2>4. MemOK(mem', LiveOf(live')) /\ mem'.pool = new /\ last'.status # "OutOfMemory"
    BY <1>9, <2>1, <2>3
  <2>5. QED BY <1>2, <2>2, <2>3, <2>4, KeepGood
<1>13. ASSUME NEW off \in DOMAIN live, CrashInFree(off) PROVE StepGood
  <2>1. PICK file \in FreeCuts(mem.fb, off, live[off]) : RestartFrom(file, mem.pool)
    BY <1>13 DEF CrashInFree
  <2>2. live' = Unbind(live, off) /\ MayAddTo(mem.fb)
    BY <1>3, <1>13 DEF CrashInFree
  <2>3. Freeable(mem, LiveOf(live'), off, live[off])
    BY <1>1, <2>2, HeldFreeable
  <2>4. MemOK(OpenMemory(file, mem.pool), LiveOf(live'))
    BY <2>1, <2>3, FreeCutsMem
  <2>5. MemOK(mem', LiveOf(live')) /\ mem'.pool = mem.pool /\ last'.status # "OutOfMemory"
    BY <1>9, <2>1, <2>4
  <2>6. QED BY <2>2, <2>5, KeepGood
<1>14. QED BY <1>1, <1>5, <1>6, <1>7, <1>8, <1>10, <1>11, <1>12, <1>13 DEF Next

LEMMA AlwaysGood == MaxPages \in 1 .. 2 => (Spec => []ManagerGood)
<1> SUFFICES ASSUME MaxPages \in 1 .. 2 PROVE Spec => []ManagerGood
  OBVIOUS
<1>1. Init => ManagerGood
  BY InitGood
<1>2. ManagerGood /\ [Next]_vars => ManagerGood'
  <2> SUFFICES ASSUME ManagerGood, [Next]_vars, sound'
               PROVE  MemOK(mem', LiveOf(live'))
    BY DEF ManagerGood
  <2>1. CASE Next
    BY <2>1, NextStepGood DEF StepGood
  <2>2. CASE UNCHANGED vars
    BY <2>2 DEF vars, ManagerGood
  <2>3. QED BY <2>1, <2>2
<1>3. QED BY <1>1, <1>2, PTL DEF Spec

-----------------------------------------------------------------------------
(* What set_fm_ holds.                                                     *)

EntrySet(E) == {Entry(e[1], e[2]) : e \in E}

LEMMA EntriesOfExt == \A f : EntriesOf(f) = EntrySet(Ext(f))
<1> SUFFICES ASSUME NEW f PROVE EntriesOf(f) = EntrySet(Ext(f))
  OBVIOUS
<1>1. ASSUME NEW off \in DOMAIN f.map_fm_
      PROVE  Entry(off, f.map_fm_[off].size) \in EntrySet(Ext(f))
  <2> DEFINE e == <<off, f.map_fm_[off].size>>
  <2>1. e \in Ext(f) /\ e[1] = off /\ e[2] = f.map_fm_[off].size
    BY DEF Ext
  <2> HIDE DEF e
  <2>2. QED BY <2>1 DEF EntrySet
<1>2. ASSUME NEW e \in Ext(f) PROVE Entry(e[1], e[2]) \in EntriesOf(f)
  <2>1. PICK off \in DOMAIN f.map_fm_ : e = <<off, f.map_fm_[off].size>>
    BY DEF Ext
  <2>2. e[1] = off /\ e[2] = f.map_fm_[off].size
    BY <2>1
  <2>3. QED BY <2>2 DEF EntriesOf
<1>3. QED BY <1>1, <1>2 DEF EntriesOf, EntrySet

LEMMA EntrySetAdd ==
  ASSUME NEW E, NEW x, NEW y
  PROVE  EntrySet(E \cup {<<x, y>>}) = EntrySet(E) \cup {Entry(x, y)}
<1> DEFINE z == <<x, y>>
<1>1. z[1] = x /\ z[2] = y
  OBVIOUS
<1> HIDE DEF z
<1>2. QED BY <1>1 DEF EntrySet, z

LEMMA EntrySetLess ==
  ASSUME NEW E, \A e \in E : e = <<e[1], e[2]>>, NEW x, NEW y
  PROVE  EntrySet(E \ {<<x, y>>}) = EntrySet(E) \ {Entry(x, y)}
<1>1. \A u, v : Entry(u, v) = Entry(x, y) => u = x /\ v = y
  BY DEF Entry
<1>2. \A e \in E : Entry(e[1], e[2]) = Entry(x, y) <=> e = <<x, y>>
  BY <1>1
<1>3. QED BY <1>2 DEF EntrySet

LEMMA ExtPairs == \A f : \A e \in Ext(f) : e = <<e[1], e[2]>>
BY DEF Ext

\* A Free that finds no block before the one freed, and none after it unless the
\* read of the erased node gives the updated one, keeps set_fm_ in step.
LEMMA FreeSetAgrees ==
  ASSUME NEW m, NEW L, NEW off, NEW size, Freeable(m, L, off, size), NEW rp, NEW rn,
         m.set_fm_ = EntriesOf(m.fb),
         \A p \in DOMAIN m.fb.map_fm_ : p + m.fb.map_fm_[p].size # off,
         rn = "updated" \/ off + size \notin DOMAIN m.fb.map_fm_
  PROVE  LET g == Free(m, off, size, rp, rn)
         IN  g.set_fm_ = EntriesOf(g.fb)
<1> DEFINE added == WithAdded(m, off, size)
           back == TryMergePrev(added, off, rp)
           g == TryMergeNext(back, BlockOf(back.fb, off), rn)
<1>1. Free(m, off, size, rp, rn) = g
  BY Zenon DEF Free, WithAdded
<1>2. /\ MemOK(added, L) /\ added.pool = m.pool /\ added.fb = AddBlock(m.fb, off, size)
      /\ off \in DOMAIN added.fb.map_fm_ /\ added.fb.map_fm_[off].size = size
  BY AddedGood
<1>3. added.set_fm_ = m.set_fm_ \cup {Entry(off, size)}
  BY DEF WithAdded, Freeable, IsMem
<1>4. Ext(added.fb) = Ext(m.fb) \cup {<<off, size>>}
  BY <1>2, AddCovers
<1>5. /\ DOMAIN added.fb.map_fm_ = DOMAIN m.fb.map_fm_ \cup {off}
      /\ \A x \in DOMAIN m.fb.map_fm_ : added.fb.map_fm_[x] = m.fb.map_fm_[x]
  <2>1. F!Good(m.fb) /\ MayAddTo(m.fb) /\ off \in Nat /\ size \in Nat \ {0}
    BY DEF Freeable
  <2>2. off \notin DOMAIN m.fb.map_fm_
    BY FreeableFresh
  <2>3. QED BY <1>2, <2>1, <2>2, AddExt
<1> HIDE DEF added
<1>6. added.set_fm_ = EntriesOf(added.fb)
  BY <1>3, <1>4, EntriesOfExt, EntrySetAdd
<1>7. back = added /\ BlockOf(back.fb, off) = off
  <2>1. ~ \E prev \in DOMAIN added.fb.map_fm_ : Touches(added.fb, prev, off)
    <3>1. SUFFICES ASSUME NEW prev, Touches(added.fb, prev, off) PROVE FALSE
      OBVIOUS
    <3>2. /\ prev \in DOMAIN added.fb.map_fm_ /\ prev < off
          /\ prev + added.fb.map_fm_[prev].size = off
      BY <3>1 DEF Touches
    <3>3. prev # off
      BY <1>2, <3>2 DEF Freeable
    <3>4. QED BY <1>5, <3>2, <3>3
  <2>2. back = added
    BY <2>1, Zenon DEF TryMergePrev
  <2>3. QED BY <1>2, <2>2 DEF BlockOf
<1>8. CASE ~ \E next \in DOMAIN added.fb.map_fm_ : Touches(added.fb, off, next)
  <2>1. g = added
    BY <1>7, <1>8, Zenon DEF TryMergeNext
  <2>2. QED BY <1>1, <1>6, <2>1
<1>9. CASE \E next \in DOMAIN added.fb.map_fm_ : Touches(added.fb, off, next)
  <2>1. PICK next : /\ next = CHOOSE n \in DOMAIN added.fb.map_fm_ : Touches(added.fb, off, n)
                    /\ Touches(added.fb, off, next)
    BY <1>9, Zenon
  <2>2. g = MergeNext(added, off, next, rn)
    BY <1>7, <1>9, <2>1, Zenon DEF TryMergeNext
  <2> DEFINE ns == added.fb.map_fm_[next].size
             merged == MergeBlocks(added.fb, off, next)
             entries == (added.set_fm_ \ {Entry(next, ns), Entry(off, size)})
                          \cup {Entry(off, size + ns)}
  <2>3. next \in DOMAIN added.fb.map_fm_ /\ off < next /\ off + size = next
    BY <1>2, <2>1 DEF Touches
  <2>4. rn = "updated"
    BY <1>5, <2>3 DEF Freeable
  <2>5. g = [added EXCEPT !.fb = merged, !.set_fm_ = entries]
    BY <1>2, <2>2, <2>4 DEF MergeNext
  <2>6. Ext(merged) = (Ext(added.fb) \ {<<off, size>>, <<next, ns>>}) \cup {<<off, size + ns>>}
    <3>1. Ext(merged) = Merged(added.fb, off, next)
      BY <1>2, <2>1, MergeExt DEF MemOK
    <3>2. QED BY <1>2, <3>1 DEF Merged
  <2> HIDE DEF merged, entries, ns, g
  <2>7. added = [fb |-> added.fb, set_fm_ |-> added.set_fm_, pool |-> added.pool]
    BY <1>2 DEF MemOK, IsMem
  <2>8. g.fb = merged /\ g.set_fm_ = entries
    BY <2>5, <2>7
  <2>9. EntriesOf(merged) = entries
    <3>1. EntrySet(Ext(added.fb) \ {<<off, size>>}) = added.set_fm_ \ {Entry(off, size)}
      BY <1>6, EntriesOfExt, ExtPairs, EntrySetLess
    <3>2. EntrySet((Ext(added.fb) \ {<<off, size>>}) \ {<<next, ns>>})
            = (added.set_fm_ \ {Entry(off, size)}) \ {Entry(next, ns)}
      BY <3>1, ExtPairs, EntrySetLess
    <3>3. EntrySet(Ext(merged))
            = ((added.set_fm_ \ {Entry(off, size)}) \ {Entry(next, ns)}) \cup {Entry(off, size + ns)}
      <4>1. Ext(merged) = ((Ext(added.fb) \ {<<off, size>>}) \ {<<next, ns>>})
                            \cup {<<off, size + ns>>}
        BY <2>6
      <4> DEFINE rest == (Ext(added.fb) \ {<<off, size>>}) \ {<<next, ns>>}
      <4>2. EntrySet(rest \cup {<<off, size + ns>>}) = EntrySet(rest) \cup {Entry(off, size + ns)}
        BY EntrySetAdd
      <4>3. QED BY <3>2, <4>1, <4>2
    <3>4. QED BY <3>3, EntriesOfExt DEF entries
  <2>10. QED BY <1>1, <2>8, <2>9
<1>10. QED BY <1>8, <1>9

LEMMA TakeSetAgrees ==
  ASSUME NEW m, NEW L, MemOK(m, L), NEW r \in Nat \ {0}, Fits(m, r) # {},
         m.set_fm_ = EntriesOf(m.fb)
  PROVE  LET g == TakeBlock(m, BestFit(m, r), r)
         IN  g.set_fm_ = EntriesOf(g.fb)
<1> DEFINE e == BestFit(m, r)
           g == TakeBlock(m, e, r)
           off == e.offset
<1>1. e \in EntriesOf(m.fb) /\ e.size >= r
  <2>1. SetOK(m) /\ m.pool \in Nat /\ r \in Nat
    BY DEF MemOK
  <2>2. e \in Fits(m, r)
    BY <2>1, BestFitFits
  <2>3. QED BY <2>2 DEF Fits
<1> HIDE DEF e
<1>2. e = Entry(off, e.size)
  BY <1>1, TakeExt
<1>3. EntrySet(Ext(m.fb) \ {<<off, e.size>>}) = m.set_fm_ \ {e}
  BY <1>2, EntriesOfExt, ExtPairs, EntrySetLess
<1>4. CASE Splits(e, r)
  <2>1. /\ Ext(g.fb) = (Ext(m.fb) \ {<<off, e.size>>}) \cup {<<off + r, e.size - r>>}
        /\ g.set_fm_ = (m.set_fm_ \ {e}) \cup {Entry(off + r, e.size - r)}
    <3>1. SplitTo(m, e, r)
      BY <1>1, <1>4, TakeExt
    <3>2. QED BY <3>1 DEF SplitTo
  <2> HIDE DEF g
  <2>2. EntriesOf(g.fb) = (m.set_fm_ \ {e}) \cup {Entry(off + r, e.size - r)}
    BY <1>3, <2>1, EntriesOfExt, EntrySetAdd
  <2>3. QED BY <2>1, <2>2 DEF g, e
<1>5. CASE ~ Splits(e, r)
  <2>1. Ext(g.fb) = Ext(m.fb) \ {<<off, e.size>>} /\ g.set_fm_ = m.set_fm_ \ {e}
    <3>1. TakenWhole(m, e, r)
      BY <1>1, <1>5, TakeExt
    <3>2. QED BY <3>1 DEF TakenWhole
  <2> HIDE DEF g
  <2>2. QED BY <1>3, <2>1, EntriesOfExt DEF g, e
<1>6. QED BY <1>4, <1>5

-----------------------------------------------------------------------------
(* What a step may lose.                                                   *)

Uses == BytesOf(Ext(mem.fb)) \cup BytesOf(LiveOf(live))

LossOK == LET gone == Lost' \ Lost
          IN  \/ gone = {}
              \/ last'.status = "Restart" /\ \E low, high \in gone : gone = low .. high

LEMMA LostUses == Lost = 0 .. mem.pool - 1 \ Uses
<1>1. FreeExtents = Ext(mem.fb) /\ LiveExtents = LiveOf(live)
  BY DEF FreeExtents, LiveExtents, LiveOf
<1>2. QED BY <1>1 DEF Lost, Uses

\* Every byte that was used, or that the pool grew by, is used.
LEMMA UsesKept ==
  ASSUME mem.pool \in Nat, mem'.pool \in Nat,
         Uses \cup mem.pool .. mem'.pool - 1 \subseteq Uses'
  PROVE  LossOK
<1>1. Lost = 0 .. mem.pool - 1 \ Uses /\ Lost' = 0 .. mem'.pool - 1 \ Uses'
  <2>1. Lost = 0 .. mem.pool - 1 \ Uses
    BY LostUses
  <2>2. (Lost = 0 .. mem.pool - 1 \ Uses)'
    BY LostUses, PTL
  <2>3. QED BY <2>1, <2>2
<1>2. Lost' \ Lost = {}
  BY <1>1
<1>3. QED BY <1>2 DEF LossOK

\* A kill left a file that kept all the free bytes covered, or lost one extent of them.
LEMMA KillLoses ==
  ASSUME mem.pool \in Nat, NEW pool \in Nat, NEW file, F!FileOK(file), NEW covered,
         RestartFrom(file, pool), KeepsOrLosesOne(covered, BytesOf(SlotExt(file)), pool),
         covered \cup BytesOf(LiveOf(live')) = Uses \cup mem.pool .. pool - 1,
         covered \cap BytesOf(LiveOf(live')) = {}
  PROVE  LossOK
<1>1. /\ mem'.pool = pool /\ mem'.fb = OpenFile(file) /\ last'.status = "Restart"
  BY DEF RestartFrom, OpenMemory, Returned
<1>2. Uses' = BytesOf(SlotExt(file)) \cup BytesOf(LiveOf(live'))
  BY <1>1, OpenExt DEF Uses
<1>3. CASE BytesOf(SlotExt(file)) = covered
  BY <1>1, <1>2, <1>3, UsesKept
<1>4. CASE BytesOf(SlotExt(file)) # covered
  <2>1. PICK e : /\ IsExtent(e, pool) /\ Bytes(e[1], e[2]) \subseteq covered
                 /\ BytesOf(SlotExt(file)) = covered \ Bytes(e[1], e[2])
    BY <1>4 DEF KeepsOrLosesOne
  <2> DEFINE low == e[1]
             high == e[1] + e[2] - 1
  <2>2. low \in Nat /\ high \in Nat /\ low <= high /\ high < pool /\ Bytes(e[1], e[2]) = low .. high
    BY <2>1 DEF IsExtent, Bytes
  <2> HIDE DEF low, high
  <2>3. Lost = 0 .. mem.pool - 1 \ Uses
    BY LostUses
  <2>4. Lost' = 0 .. pool - 1 \ Uses'
    <3>1. (Lost = 0 .. mem.pool - 1 \ Uses)'
      BY LostUses, PTL
    <3>2. QED BY <1>1, <3>1
  <2>5. Uses' = (covered \ low .. high) \cup BytesOf(LiveOf(live'))
    BY <1>2, <2>1, <2>2
  <2>6. Lost' \ Lost = low .. high
    <3>1. low .. high \subseteq covered
      BY <2>1, <2>2
    <3> HIDE DEF Uses
    <3>2. \A x \in low .. high : x \in 0 .. pool - 1 /\ x \notin Uses'
      BY <2>2, <2>5, <3>1
    <3>3. \A x \in low .. high : x \notin Lost
      BY <2>2, <2>3, <3>1
    <3>4. \A x \in 0 .. pool - 1 : x \notin Uses' /\ x \notin low .. high => x \in Lost
      BY <2>3, <2>5
    <3>5. QED BY <2>4, <3>2, <3>3, <3>4
  <2>7. low \in Lost' \ Lost /\ high \in Lost' \ Lost
    BY <2>2, <2>6
  <2>8. QED BY <1>1, <2>6, <2>7, Zenon DEF LossOK
<1>5. QED BY <1>3, <1>4

\* What is handed out of manager m was free, and is held.
LEMMA HandOutLoses ==
  ASSUME NEW m, MemOK(m, LiveOf(live)), mem.pool \in Nat, NEW req \in Requests, NEW reuse,
         BytesOf(Ext(m.fb)) = BytesOf(Ext(mem.fb)) \cup mem.pool .. m.pool - 1,
         Fits(m, align_size(req, ALIGNMENT_DATA)) # {},
         HandOut(m, req, BestFit(m, align_size(req, ALIGNMENT_DATA)), reuse), sound'
  PROVE  LossOK
<1> DEFINE r == align_size(req, ALIGNMENT_DATA)
           e == BestFit(m, r)
           off == e.offset
           size == RspSize(e, r)
<1>1. mem' = TakeBlock(m, e, r) /\ live' = Bind(live, off, size) /\ IsBlock(m, e)
  BY DEF HandOut
<1>2. r \in Nat \ {0}
  <2>1. req \in Nat \ {0} /\ ALIGNMENT_DATA \in Nat \ {0}
    BY MemoryAssumption, AlignAssumption
  <2>2. QED BY <2>1, AlignUp
<1>3. e \in Fits(m, r)
  BY <1>2, BestFitFits DEF MemOK
<1> HIDE DEF r, e, off, size
<1>4. off \notin DOMAIN live /\ TakeBlock(m, e, r).pool = m.pool
  <2>1. Fits(m, r) # {} /\ e = BestFit(m, r)
    BY DEF r, e
  <2>2. QED BY <1>1, <2>1, TookGood DEF off, size, r
<1>5. LiveOf(live') = LiveOf(live) \cup {<<off, size>>}
  BY <1>1, <1>4, LiveBind
<1>6. BytesOf(LiveOf(live')) = BytesOf(LiveOf(live)) \cup Bytes(off, size)
  <2> DEFINE x == <<off, size>>
  <2>1. x[1] = off /\ x[2] = size
    OBVIOUS
  <2> HIDE DEF x
  <2>2. BytesOf({x}) = Bytes(off, size)
    BY <2>1, BytesOfOne
  <2>3. BytesOf(LiveOf(live) \cup {x}) = BytesOf(LiveOf(live)) \cup BytesOf({x})
    BY BytesOfUnion
  <2>4. QED BY <1>5, <2>2, <2>3 DEF x
<1>7. BytesOf(Ext(mem'.fb)) = BytesOf(Ext(m.fb)) \ Bytes(off, size)
  <2>1. e \in EntriesOf(m.fb) /\ e.size >= r
    BY <1>1, <1>3 DEF Fits, IsBlock
  <2>2. QED BY <1>1, <1>2, <2>1, TakeCovers DEF off, size
<1>8. mem'.pool = m.pool /\ m.pool \in Nat
  BY <1>1, <1>4 DEF MemOK
<1>9. Uses' = BytesOf(Ext(mem'.fb)) \cup BytesOf(LiveOf(live'))
  BY DEF Uses
<1>10. Uses \cup mem.pool .. mem'.pool - 1 \subseteq Uses'
  BY <1>6, <1>7, <1>8, <1>9 DEF Uses
<1>11. QED BY <1>8, <1>10, UsesKept

\* The client gives up an extent, and its bytes.
LEMMA LiveBytes ==
  ASSUME NEW l, NEW off \in DOMAIN l
  PROVE  BytesOf(LiveOf(l)) = BytesOf(LiveOf(Unbind(l, off))) \cup Bytes(off, l[off])
<1> DEFINE e == <<off, l[off]>>
<1>1. e[1] = off /\ e[2] = l[off] /\ e \in LiveOf(l) /\ LiveOf(Unbind(l, off)) = LiveOf(l) \ {e}
  BY LiveUnbind DEF LiveOf
<1> HIDE DEF e
<1>2. BytesOf({e}) = Bytes(off, l[off])
  BY <1>1, BytesOfOne
<1>3. LiveOf(l) = LiveOf(Unbind(l, off)) \cup {e}
  BY <1>1
<1>4. BytesOf(LiveOf(Unbind(l, off)) \cup {e}) = BytesOf(LiveOf(Unbind(l, off))) \cup BytesOf({e})
  BY BytesOfUnion
<1>5. QED BY <1>2, <1>3, <1>4

LEMMA NextLoses ==
  ASSUME MaxPages \in 1 .. 2, ManagerGood, Next, sound'
  PROVE  LossOK
<1>1. sound /\ MemOK(mem, LiveOf(live))
  <2>1. sound
    BY NextStepGood
  <2>2. QED BY <2>1 DEF ManagerGood
<1>2. mem.pool \in Nat \ {0} /\ F!Good(mem.fb) /\ Sep(Ext(mem.fb), LiveOf(live), mem.pool)
  BY <1>1 DEF MemOK
<1>3. MayAdd(mem.fb) => MayAddTo(mem.fb)
  BY DEF MayAddTo
<1>4. ASSUME NEW req \in Requests
      PROVE  align_size(req, ALIGNMENT_DATA) \in Nat \ {0}
  <2>1. req \in Nat \ {0} /\ ALIGNMENT_DATA \in Nat \ {0}
    BY MemoryAssumption, AlignAssumption
  <2>2. QED BY <2>1, AlignUp
<1>5. mem.pool .. mem.pool - 1 = {}
  BY <1>2
<1>6. BytesOf(Ext(mem.fb)) \cap BytesOf(LiveOf(live)) = {}
  BY <1>2, SepBytes
<1>7. ASSUME NEW req \in Requests, AllocateFree(req) PROVE LossOK
  <2> DEFINE r == align_size(req, ALIGNMENT_DATA)
  <2>1. Fits(mem, r) # {} /\ HandOut(mem, req, BestFit(mem, r), "updated")
    BY <1>7 DEF AllocateFree
  <2>2. BytesOf(Ext(mem.fb)) = BytesOf(Ext(mem.fb)) \cup mem.pool .. mem.pool - 1
    BY <1>5
  <2>3. QED BY <1>1, <1>2, <2>1, <2>2, HandOutLoses
<1>8. ASSUME NEW req \in Requests, AllocateGrow(req) PROVE LossOK
  <2> DEFINE r == align_size(req, ALIGNMENT_DATA)
             new == PoolFor(mem, r)
             grown == [mem EXCEPT !.pool = new]
  <2>1. PICK rp, rn : LET m == Grow(mem, new, rp, rn)
                      IN  IF Fits(m, r) # {} THEN HandOut(m, req, BestFit(m, r), rn)
                          ELSE mem' = m
    BY <1>8 DEF AllocateGrow
  <2> DEFINE m == Grow(mem, new, rp, rn)
  <2>2. /\ MemOK(m, LiveOf(live)) /\ m.pool = new /\ new \in Nat /\ new > mem.pool
        /\ Fits(m, r) # {} /\ MayAddTo(mem.fb)
    BY <1>1, <1>3, <1>4, <1>8, GrowGood DEF AllocateGrow
  <2>3. HandOut(m, req, BestFit(m, r), rn)
    BY <2>1, <2>2
  <2>4. m = Free(grown, mem.pool, new - mem.pool, rp, rn)
    BY Zenon DEF Grow
  <2>5. grown.fb = mem.fb
    BY <1>1 DEF MemOK, IsMem
  <2> HIDE DEF new, m
  <2>6. Freeable(grown, LiveOf(live), mem.pool, new - mem.pool)
    BY <1>1, <1>2, <2>2, GrownFreeable
  <2> HIDE DEF grown
  <2>7. BytesOf(Ext(m.fb)) = BytesOf(Ext(mem.fb)) \cup Bytes(mem.pool, new - mem.pool)
    BY <2>4, <2>5, <2>6, FreeCovers
  <2>8. Bytes(mem.pool, new - mem.pool) = mem.pool .. m.pool - 1
    BY <1>2, <2>2 DEF Bytes
  <2>9. QED BY <1>1, <1>2, <2>2, <2>3, <2>7, <2>8, HandOutLoses DEF r
<1>9. ASSUME NEW req \in Requests, AllocateFail(req) PROVE LossOK
  <2>1. mem' = mem /\ live' = live
    BY <1>9 DEF AllocateFail
  <2>2. Uses' = Uses /\ mem'.pool = mem.pool
    BY <2>1 DEF Uses
  <2>3. QED BY <1>2, <1>5, <2>2, UsesKept
<1>10. ASSUME NEW off \in DOMAIN live, FreeBlock(off) PROVE LossOK
  <2>1. PICK rp, rn : mem' = Free(mem, off, live[off], rp, rn)
    BY <1>10 DEF FreeBlock
  <2>2. live' = Unbind(live, off) /\ MayAddTo(mem.fb)
    BY <1>3, <1>10 DEF FreeBlock
  <2>3. Freeable(mem, LiveOf(live'), off, live[off])
    BY <1>1, <2>2, HeldFreeable
  <2>4. mem'.pool = mem.pool
    BY <2>1, <2>3, FreeGood
  <2>5. BytesOf(Ext(mem'.fb)) = BytesOf(Ext(mem.fb)) \cup Bytes(off, live[off])
    BY <2>1, <2>3, FreeCovers
  <2>6. BytesOf(LiveOf(live)) = BytesOf(LiveOf(live')) \cup Bytes(off, live[off])
    BY <2>2, LiveBytes
  <2>7. Uses' = BytesOf(Ext(mem'.fb)) \cup BytesOf(LiveOf(live'))
    BY DEF Uses
  <2>8. Uses \cup mem.pool .. mem'.pool - 1 \subseteq Uses'
    BY <1>5, <2>4, <2>5, <2>6, <2>7 DEF Uses
  <2>9. QED BY <1>2, <2>4, <2>8, UsesKept
<1>11. ASSUME Reopen PROVE LossOK
  <2>1. RestartFrom(mem.fb, mem.pool) /\ live' = live
    BY <1>11 DEF Reopen
  <2>2. F!FileOK(mem.fb) /\ Ext(mem.fb) = SlotExt(mem.fb)
    BY <1>2, GoodExt
  <2>3. KeepsOrLosesOne(BytesOf(Ext(mem.fb)), BytesOf(SlotExt(mem.fb)), mem.pool)
    BY <2>2 DEF KeepsOrLosesOne
  <2>4. BytesOf(Ext(mem.fb)) \cup BytesOf(LiveOf(live')) = Uses \cup mem.pool .. mem.pool - 1
    BY <1>5, <2>1 DEF Uses
  <2>5. QED BY <1>2, <1>6, <2>1, <2>2, <2>3, <2>4, KillLoses
<1>12. ASSUME NEW req \in Requests, CrashInAllocate(req) PROVE LossOK
  <2> DEFINE r == align_size(req, ALIGNMENT_DATA)
             e == BestFit(mem, r)
  <2>1. PICK file \in TakeCuts(mem, e, r) :
               /\ RestartFrom(file, mem.pool) /\ IsBlock(mem, e)
               /\ file \in {mem.fb, TakeBlock(mem, e, r).fb} \/ ~ Splits(e, r)
    BY <1>12 DEF CrashInAllocate
  <2>2. Fits(mem, r) # {} /\ live' = live
    BY <1>12 DEF CrashInAllocate
  <2>3. e \in EntriesOf(mem.fb) /\ e.size >= r
    <3>1. e \in Fits(mem, r)
      BY <1>1, <1>4, <2>2, BestFitFits DEF MemOK
    <3>2. QED BY <2>1, <3>1 DEF Fits, IsBlock
  <2> HIDE DEF e
  <2>4. KeepsOrLosesOne(BytesOf(Ext(mem.fb)), BytesOf(SlotExt(file)), mem.pool)
    BY <1>1, <1>4, <2>1, <2>3, TakeCovers
  <2>5. F!FileOK(file)
    BY <1>1, <1>4, <2>1, <2>3, TakeGood
  <2>6. BytesOf(Ext(mem.fb)) \cup BytesOf(LiveOf(live')) = Uses \cup mem.pool .. mem.pool - 1
    BY <1>5, <2>2 DEF Uses
  <2>7. QED BY <1>2, <1>6, <2>1, <2>2, <2>4, <2>5, <2>6, KillLoses
<1>13. ASSUME NEW req \in Requests, CrashInGrow(req) PROVE LossOK
  <2> DEFINE r == align_size(req, ALIGNMENT_DATA)
             new == PoolFor(mem, r)
             grown == [mem EXCEPT !.pool = new]
  <2>1. PICK file \in FreeCuts(mem.fb, mem.pool, new - mem.pool) : RestartFrom(file, new)
    BY <1>13 DEF CrashInGrow
  <2>2. live' = live /\ MayAddTo(mem.fb)
    BY <1>3, <1>13 DEF CrashInGrow
  <2>3. new \in Nat /\ new > mem.pool
    BY <1>1, <1>4, <2>2, GrowGood
  <2>4. grown.fb = mem.fb /\ grown.pool = new
    BY <1>1 DEF MemOK, IsMem
  <2> HIDE DEF new
  <2>5. Freeable(grown, LiveOf(live), mem.pool, new - mem.pool)
    BY <1>1, <1>2, <2>2, <2>3, GrownFreeable
  <2> HIDE DEF grown
  <2> DEFINE covered == BytesOf(Ext(mem.fb)) \cup Bytes(mem.pool, new - mem.pool)
  <2>6. KeepsOrLosesOne(covered, BytesOf(SlotExt(file)), new)
    BY <2>1, <2>4, <2>5, FreeCutsCover
  <2>7. F!FileOK(file)
    BY <2>1, <2>4, <2>5, FreeCutsGood
  <2>8. covered \cap BytesOf(LiveOf(live')) = {}
    BY <2>2, <2>4, <2>5, FreeableBytes
  <2>9. Bytes(mem.pool, new - mem.pool) = mem.pool .. new - 1
    BY <1>2, <2>3 DEF Bytes
  <2>10. covered \cup BytesOf(LiveOf(live')) = Uses \cup mem.pool .. new - 1
    BY <2>2, <2>9 DEF Uses
  <2> HIDE DEF covered
  <2>11. QED BY <1>2, <2>1, <2>3, <2>6, <2>7, <2>8, <2>10, KillLoses
<1>14. ASSUME NEW off \in DOMAIN live, CrashInFree(off) PROVE LossOK
  <2>1. PICK file \in FreeCuts(mem.fb, off, live[off]) : RestartFrom(file, mem.pool)
    BY <1>14 DEF CrashInFree
  <2>2. live' = Unbind(live, off) /\ MayAddTo(mem.fb)
    BY <1>3, <1>14 DEF CrashInFree
  <2>3. Freeable(mem, LiveOf(live'), off, live[off])
    BY <1>1, <2>2, HeldFreeable
  <2> DEFINE covered == BytesOf(Ext(mem.fb)) \cup Bytes(off, live[off])
  <2>4. KeepsOrLosesOne(covered, BytesOf(SlotExt(file)), mem.pool)
    BY <2>1, <2>3, FreeCutsCover
  <2>5. F!FileOK(file)
    BY <2>1, <2>3, FreeCutsGood
  <2>6. covered \cap BytesOf(LiveOf(live')) = {}
    BY <2>3, FreeableBytes
  <2>7. BytesOf(LiveOf(live)) = BytesOf(LiveOf(live')) \cup Bytes(off, live[off])
    BY <2>2, LiveBytes
  <2>8. covered \cup BytesOf(LiveOf(live')) = Uses \cup mem.pool .. mem.pool - 1
    BY <1>5, <2>7 DEF Uses
  <2> HIDE DEF covered
  <2>9. QED BY <1>2, <2>1, <2>4, <2>5, <2>6, <2>8, KillLoses
<1>15. QED BY <1>7, <1>8, <1>9, <1>10, <1>11, <1>12, <1>13, <1>14 DEF Next

-----------------------------------------------------------------------------
(* set_fm_ and the file.                                                   *)

\* An extent freed by the step is merged with the block before it, or with the one
\* after it where the read of an erased node does not give the updated one.
Merges(off, size) ==
  \/ \E p \in DOMAIN mem.fb.map_fm_ : p + mem.fb.map_fm_[p].size = off
  \/ last'.reuse # "updated" /\ off + size \in DOMAIN mem.fb.map_fm_

LEMMA NextAgrees ==
  ASSUME MaxPages \in 1 .. 2, ManagerGood, Next, sound, SetAgrees, ~ SetAgrees'
  PROVE  \/ \E off \in DOMAIN live \ DOMAIN live' : Merges(off, live[off])
         \/ mem'.pool # mem.pool /\ Merges(mem.pool, mem'.pool - mem.pool)
<1>1. MemOK(mem, LiveOf(live)) /\ mem.set_fm_ = EntriesOf(mem.fb)
  BY DEF ManagerGood, SetAgrees
<1>2. MayAdd(mem.fb) => MayAddTo(mem.fb)
  BY DEF MayAddTo
<1>3. ASSUME NEW req \in Requests
      PROVE  align_size(req, ALIGNMENT_DATA) \in Nat \ {0}
  <2>1. req \in Nat \ {0} /\ ALIGNMENT_DATA \in Nat \ {0}
    BY MemoryAssumption, AlignAssumption
  <2>2. QED BY <2>1, AlignUp
<1>4. mem'.set_fm_ # EntriesOf(mem'.fb)
  BY DEF SetAgrees
<1>5. \A file, pool : ~ RestartFrom(file, pool)
  BY <1>4 DEF RestartFrom, OpenMemory
<1>6. ~ (Reopen \/ (\E req \in Requests : CrashInAllocate(req) \/ CrashInGrow(req))
                \/ \E off \in DOMAIN live : CrashInFree(off))
  BY <1>5, Zenon DEF Reopen, CrashInAllocate, CrashInGrow, CrashInFree
<1>7. ASSUME NEW req \in Requests, AllocateFree(req) PROVE FALSE
  <2> DEFINE r == align_size(req, ALIGNMENT_DATA)
  <2>1. Fits(mem, r) # {} /\ mem' = TakeBlock(mem, BestFit(mem, r), r)
    BY <1>7 DEF AllocateFree, HandOut
  <2>2. QED BY <1>1, <1>3, <1>4, <2>1, TakeSetAgrees
<1>8. ASSUME NEW req \in Requests, AllocateFail(req) PROVE FALSE
  BY <1>1, <1>4, <1>8 DEF AllocateFail
<1>9. ASSUME NEW req \in Requests, AllocateGrow(req)
      PROVE  mem'.pool # mem.pool /\ Merges(mem.pool, mem'.pool - mem.pool)
  <2> DEFINE r == align_size(req, ALIGNMENT_DATA)
             new == PoolFor(mem, r)
             grown == [mem EXCEPT !.pool = new]
  <2>1. PICK rp, rn : /\ LET m == Grow(mem, new, rp, rn)
                         IN  IF Fits(m, r) # {} THEN HandOut(m, req, BestFit(m, r), rn)
                             ELSE mem' = m /\ last' = Returned("OutOfMemory", req, rn)
                      /\ MayAddTo(mem.fb)
    BY <1>2, <1>9 DEF AllocateGrow
  <2> DEFINE m == Grow(mem, new, rp, rn)
  <2>2. /\ MemOK(m, LiveOf(live)) /\ m.pool = new /\ new \in Nat /\ new > mem.pool
        /\ Fits(m, r) # {}
    BY <1>1, <1>3, <2>1, GrowGood
  <2>3. mem' = TakeBlock(m, BestFit(m, r), r) /\ last'.reuse = rn
    BY <2>1, <2>2 DEF HandOut, Returned
  <2>4. m = Free(grown, mem.pool, new - mem.pool, rp, rn)
    BY Zenon DEF Grow
  <2>5. grown.fb = mem.fb /\ grown.set_fm_ = mem.set_fm_ /\ mem.pool \in Nat
    BY <1>1 DEF MemOK, IsMem
  <2> HIDE DEF new, m
  <2>6. Freeable(grown, LiveOf(live), mem.pool, new - mem.pool)
    BY <1>1, <2>1, <2>2, GrownFreeable
  <2> HIDE DEF grown
  <2>7. m.set_fm_ # EntriesOf(m.fb)
    BY <1>3, <1>4, <2>2, <2>3, TakeSetAgrees
  <2>8. \/ \E p \in DOMAIN mem.fb.map_fm_ : p + mem.fb.map_fm_[p].size = mem.pool
        \/ rn # "updated" /\ mem.pool + (new - mem.pool) \in DOMAIN mem.fb.map_fm_
    BY <1>1, <2>4, <2>5, <2>6, <2>7, FreeSetAgrees
  <2>9. mem'.pool = new
    <3>1. TakeBlock(m, BestFit(m, r), r).pool = m.pool
      BY <2>2 DEF TakeBlock, MemOK, IsMem
    <3>2. QED BY <2>2, <2>3, <3>1
  <2>10. QED BY <2>2, <2>3, <2>5, <2>8, <2>9 DEF Merges
<1>10. ASSUME NEW off \in DOMAIN live, FreeBlock(off)
       PROVE  off \in DOMAIN live \ DOMAIN live' /\ Merges(off, live[off])
  <2>1. PICK rp, rn : mem' = Free(mem, off, live[off], rp, rn) /\ last'.reuse = rn
    BY <1>10 DEF FreeBlock, Returned
  <2>2. live' = Unbind(live, off) /\ MayAddTo(mem.fb)
    BY <1>2, <1>10 DEF FreeBlock
  <2>3. Freeable(mem, LiveOf(live'), off, live[off])
    BY <1>1, <2>2, HeldFreeable
  <2>4. Merges(off, live[off])
    BY <1>1, <1>4, <2>1, <2>3, FreeSetAgrees DEF Merges
  <2>5. off \notin DOMAIN live'
    BY <2>2 DEF Unbind
  <2>6. QED BY <2>4, <2>5
<1>11. QED BY <1>6, <1>7, <1>8, <1>9, <1>10 DEF Next

-----------------------------------------------------------------------------
(* The theorems.                                                           *)

\* While no stale entry was handed out and no split torn, values do not overlap
\* each other or free space, and stay inside the pool.
THEOREM ValuesApart == MaxPages \in 1 .. 2 => (Spec => []NoOverlap)
<1>1. ManagerGood => NoOverlap
  <2> SUFFICES ASSUME ManagerGood, sound
               PROVE  /\ DOMAIN live \cap DOMAIN mem.fb.map_fm_ = {}
                      /\ \A e, f \in FreeExtents \cup LiveExtents : e = f \/ Disjoint(e, f)
                      /\ \A e \in FreeExtents \cup LiveExtents : e[1] + e[2] <= mem.pool
    BY DEF NoOverlap
  <2>1. Sep(Ext(mem.fb), LiveOf(live), mem.pool)
    BY DEF ManagerGood, MemOK
  <2>2. FreeExtents = Ext(mem.fb) /\ LiveExtents = LiveOf(live)
    BY DEF FreeExtents, Ext, LiveExtents, LiveOf
  <2>3. ASSUME NEW off \in DOMAIN live, off \in DOMAIN mem.fb.map_fm_ PROVE FALSE
    <3> DEFINE a == <<off, live[off]>>
               b == <<off, mem.fb.map_fm_[off].size>>
    <3>1. a \in LiveOf(live) /\ b \in Ext(mem.fb) /\ a[1] = b[1]
      BY <2>3 DEF LiveOf, Ext
    <3> HIDE DEF a, b
    <3>2. a = b
      BY <2>1, <3>1, SepStarts
    <3>3. QED BY <2>1, <3>1, <3>2 DEF Sep
  <2>4. QED BY <2>1, <2>2, <2>3 DEF Sep, IsExtent
<1>2. QED BY <1>1, AlwaysGood, PTL

\* A grown pool always has room for the request it was grown for.
THEOREM GrownPoolSuffices == MaxPages \in 1 .. 2 => (Spec => NeverOutOfMemory)
<1> SUFFICES ASSUME MaxPages \in 1 .. 2 PROVE Spec => NeverOutOfMemory
  OBVIOUS
<1>1. Spec => []ManagerGood
  BY AlwaysGood
<1>2. ManagerGood /\ [Next]_vars => [sound' => last'.status # "OutOfMemory"]_vars
  BY NextStepGood DEF StepGood
<1>3. QED BY <1>1, <1>2, PTL DEF Spec, NeverOutOfMemory

\* What the client sees is the abstract allocator, as long as sound holds: what
\* it is given is large enough, apart from all it has and inside the pool, and
\* stays its own until it frees it, through kills and restarts.
THEOREM Implements == MaxPages \in 1 .. 2 => (Spec => ImplementsAllocator)
<1> SUFFICES ASSUME MaxPages \in 1 .. 2 PROVE Spec => ImplementsAllocator
  OBVIOUS
<1>1. Spec => []ManagerGood
  BY AlwaysGood
<1>2. ManagerGood /\ [Next]_vars => [sound' => A!Next]_vars
  BY NextStepGood DEF StepGood
<1>3. QED BY <1>1, <1>2, PTL DEF Spec, ImplementsAllocator

\* A call loses no byte of the pool, and a kill at most one extent.
THEOREM LosesAtMostOneExtent == MaxPages \in 1 .. 2 => (Spec => LossBounded)
<1> SUFFICES ASSUME MaxPages \in 1 .. 2 PROVE Spec => LossBounded
  OBVIOUS
<1>1. Spec => []ManagerGood
  BY AlwaysGood
<1>2. ManagerGood /\ [Next]_vars =>
        [sound' => LET gone == Lost' \ Lost
                   IN  \/ gone = {}
                       \/ last'.status = "Restart" /\ \E low, high \in gone : gone = low .. high]_vars
  BY NextLoses DEF LossOK
<1>3. QED BY <1>1, <1>2, PTL DEF Spec, LossBounded

\* Only a Free that merges puts set_fm_ and the file out of step.
THEOREM OnlyMergesDisagree == MaxPages \in 1 .. 2 => (Spec => SetAgreesUnlessMerged)
<1> SUFFICES ASSUME MaxPages \in 1 .. 2 PROVE Spec => SetAgreesUnlessMerged
  OBVIOUS
<1> DEFINE Explained ==
      sound /\ SetAgrees /\ ~ SetAgrees' =>
       \E off \in FreedOffsets :
         \/ \E p \in DOMAIN mem.fb.map_fm_ : p + mem.fb.map_fm_[p].size = off
         \/ last'.reuse # "updated"
              /\ \E n \in DOMAIN mem.fb.map_fm_ :
                   n = off + (IF off = mem.pool THEN mem'.pool - mem.pool
                              ELSE live[off])
<1>1. Spec => []ManagerGood
  BY AlwaysGood
<1>2. ASSUME ManagerGood, Next PROVE Explained
  <2> SUFFICES ASSUME sound, SetAgrees, ~ SetAgrees'
               PROVE  \E off \in FreedOffsets :
                        \/ \E p \in DOMAIN mem.fb.map_fm_ : p + mem.fb.map_fm_[p].size = off
                        \/ last'.reuse # "updated"
                             /\ \E n \in DOMAIN mem.fb.map_fm_ :
                                  n = off + (IF off = mem.pool THEN mem'.pool - mem.pool
                                             ELSE live[off])
    OBVIOUS
  <2>1. MemOK(mem, LiveOf(live))
    BY <1>2 DEF ManagerGood
  <2>2. \A off \in DOMAIN live : off # mem.pool
    <3>1. SUFFICES ASSUME NEW off \in DOMAIN live PROVE off # mem.pool
      OBVIOUS
    <3>2. off \in Nat /\ live[off] \in Nat \ {0} /\ off + live[off] <= mem.pool
      BY <2>1, LiveBounds
    <3>3. mem.pool \in Nat
      BY <2>1 DEF MemOK
    <3>4. QED BY <3>2, <3>3
  <2>3. CASE \E off \in DOMAIN live \ DOMAIN live' : Merges(off, live[off])
    <3>1. PICK off \in DOMAIN live \ DOMAIN live' : Merges(off, live[off])
      BY <2>3
    <3>2. off + live[off] = off + (IF off = mem.pool THEN mem'.pool - mem.pool ELSE live[off])
      BY <2>2
    <3>3. off \in FreedOffsets
      BY DEF FreedOffsets
    <3>4. QED BY <3>1, <3>2, <3>3, Zenon DEF Merges
  <2>4. CASE mem'.pool # mem.pool /\ Merges(mem.pool, mem'.pool - mem.pool)
    BY <2>4, Zenon DEF Merges, FreedOffsets
  <2>5. QED BY <1>2, <2>3, <2>4, NextAgrees
<1>3. ManagerGood /\ [Next]_vars => [Explained]_vars
  BY <1>2
<1>4. QED BY <1>1, <1>3, PTL DEF Spec, SetAgreesUnlessMerged

LEMMA AlwaysLast ==
  Spec => [](last \in [status : {"OK", "IOError", "OutOfMemory", "Restart"},
                       req : Requests \cup {0}, reuse : HeapReuse \cup {"updated"}]
             /\ sound \in BOOLEAN)
<1> DEFINE LastType == [status : {"OK", "IOError", "OutOfMemory", "Restart"},
                        req : Requests \cup {0}, reuse : HeapReuse \cup {"updated"}]
           Inv == last \in LastType /\ sound \in BOOLEAN
<1>1. Init => Inv
  BY DEF Init, Returned
<1>2. ASSUME NEW status \in {"OK", "IOError", "OutOfMemory", "Restart"},
             NEW req \in Requests \cup {0}, NEW reuse \in HeapReuse \cup {"updated"}
      PROVE  Returned(status, req, reuse) \in LastType
  BY DEF Returned
<1> HIDE DEF LastType
<1>3. ASSUME Inv, Next PROVE Inv'
  <2>1. ASSUME NEW req \in Requests, NEW m, NEW e, NEW reuse \in HeapReuse \cup {"updated"},
               HandOut(m, req, e, reuse)
        PROVE  Inv'
    BY <1>2, <1>3, <2>1 DEF HandOut
  <2>2. ASSUME NEW req \in Requests, AllocateFree(req) PROVE Inv'
    BY <2>1, <2>2 DEF AllocateFree
  <2>3. ASSUME NEW req \in Requests, AllocateGrow(req) PROVE Inv'
    <3>1. PICK rp \in HeapReuse, rn \in HeapReuse :
            LET r == align_size(req, ALIGNMENT_DATA)
                m == Grow(mem, PoolFor(mem, r), rp, rn)
            IN  IF Fits(m, r) # {} THEN HandOut(m, req, BestFit(m, r), rn)
                ELSE last' = Returned("OutOfMemory", req, rn) /\ UNCHANGED sound
      BY <2>3 DEF AllocateGrow
    <3>2. QED BY <1>2, <1>3, <2>1, <3>1
  <2>4. ASSUME NEW req \in Requests, AllocateFail(req) PROVE Inv'
    BY <1>2, <1>3, <2>4 DEF AllocateFail
  <2>5. ASSUME NEW off \in DOMAIN live, FreeBlock(off) PROVE Inv'
    BY <1>2, <1>3, <2>5 DEF FreeBlock
  <2>6. ASSUME NEW file, NEW pool, RestartFrom(file, pool) PROVE last' \in LastType
    BY <1>2, <2>6 DEF RestartFrom
  <2>7. CASE Reopen
    BY <1>3, <2>6, <2>7 DEF Reopen
  <2>8. ASSUME NEW req \in Requests, CrashInAllocate(req) PROVE Inv'
    BY <1>3, <2>6, <2>8 DEF CrashInAllocate
  <2>9. ASSUME NEW req \in Requests, CrashInGrow(req) PROVE Inv'
    BY <1>3, <2>6, <2>9 DEF CrashInGrow
  <2>10. ASSUME NEW off \in DOMAIN live, CrashInFree(off) PROVE Inv'
    BY <1>3, <2>6, <2>10 DEF CrashInFree
  <2>11. QED BY <1>3, <2>2, <2>3, <2>4, <2>5, <2>7, <2>8, <2>9, <2>10 DEF Next
<1>4. Inv /\ UNCHANGED vars => Inv'
  BY DEF vars
<1>5. QED BY <1>1, <1>3, <1>4, PTL DEF Spec, LastType

\* Offsets and sizes are numbers and no block, entry or extent held is empty.
THEOREM TypeCorrect == MaxPages \in 1 .. 2 => (Spec => []TypeOK)
<1> SUFFICES ASSUME MaxPages \in 1 .. 2 PROVE Spec => []TypeOK
  OBVIOUS
<1> DEFINE LastOK == last \in [status : {"OK", "IOError", "OutOfMemory", "Restart"},
                               req : Requests \cup {0}, reuse : HeapReuse \cup {"updated"}]
                     /\ sound \in BOOLEAN
<1>1. LastOK /\ ManagerGood => TypeOK
  <2> SUFFICES ASSUME ManagerGood, sound
               PROVE  /\ mem.set_fm_ \subseteq [offset : Nat, size : Nat \ {0}]
                      /\ mem.pool \in Nat
                      /\ \A off \in DOMAIN mem.fb.map_fm_ :
                           off \in Nat /\ mem.fb.map_fm_[off].size > 0
                      /\ \A off \in DOMAIN live : off \in Nat /\ live[off] > 0
    BY DEF TypeOK
  <2>1. MemOK(mem, LiveOf(live))
    BY DEF ManagerGood
  <2>2. mem.set_fm_ \subseteq [offset : Nat, size : Nat \ {0}] /\ mem.pool \in Nat
    BY <2>1 DEF MemOK, SetOK
  <2>3. \A off \in DOMAIN mem.fb.map_fm_ : off \in Nat /\ mem.fb.map_fm_[off].size \in Nat \ {0}
    BY <2>1, GoodExt DEF MemOK
  <2>4. \A off \in DOMAIN live : off \in Nat /\ live[off] \in Nat \ {0}
    BY <2>1, LiveBounds
  <2>5. QED BY <2>2, <2>3, <2>4
<1>2. Spec => []ManagerGood
  BY AlwaysGood
<1>3. QED BY <1>1, <1>2, AlwaysLast, PTL
=============================================================================
