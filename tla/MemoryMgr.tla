----------------------------- MODULE MemoryMgr -----------------------------
(***************************************************************************)
(* The memory manager (memory_mgr.cc) with a client that frees what it     *)
(* was given, once; restarts; and a process killed inside Allocate or Free.*)
(*                                                                         *)
(* Allocate trusts set_fm_, and a Free that merges with the block before   *)
(* leaves entries in set_fm_ that are no blocks.  sound says that nothing  *)
(* has come of it yet: it turns false when Allocate hands out such an      *)
(* entry, and when the process is killed between the two stores of a split *)
(* (UpdateBlockCuts).  Most properties hold while sound does; a restart    *)
(* rebuilds set_fm_, so a divergence need not end it.                      *)
(***************************************************************************)
EXTENDS FreeList

CONSTANT Requests  \* the sizes clients ask for

ASSUME MemoryAssumption == Requests \subseteq Nat \ {0}

VARIABLES
  mem,     \* the open manager and the size of the data pool, see FreeList
  live,    \* what the client holds: offset -> size
  last,    \* the last call: how it ended, the size it asked for and, if it was a
           \* Free, what the forward merge's reads of erased nodes gave
  sound    \* every block handed out was one, and no split was torn

vars == <<mem, live, last, sound>>

-----------------------------------------------------------------------------

Returned(status, req, reuse) == [status |-> status, req |-> req, reuse |-> reuse]

Init ==
  /\ mem = OpenMemory(CreateFile(SizeOfData, 0), SizeOfData)
  /\ live = <<>>
  /\ last = Returned("OK", 0, "updated")
  /\ sound = TRUE

\* Entry e of manager m becomes the client's.
HandOut(m, req, e, reuse) ==
  LET rsp_size == align_size(req, ALIGNMENT_DATA)
  IN  /\ mem' = TakeBlock(m, e, rsp_size)
      /\ live' = Bind(live, e.offset, RspSize(e, rsp_size))
      /\ last' = Returned("OK", req, reuse)
      /\ sound' = (sound /\ IsBlock(m, e))

\* A free block fits.
AllocateFree(req) ==
  LET rsp_size == align_size(req, ALIGNMENT_DATA)
  IN  /\ Fits(mem, rsp_size) # {}
      /\ HandOut(mem, req, BestFit(mem, rsp_size), "updated")

\* None fits: the pool is grown and its new part freed before the second look.
AllocateGrow(req) ==
  LET rsp_size == align_size(req, ALIGNMENT_DATA)
      size_data_new == PoolFor(mem, rsp_size)
  IN  /\ Fits(mem, rsp_size) = {}
      /\ size_data_new <= MaxPool
      /\ MayAdd(mem.fb)
      /\ \E reusePrev, reuseNext \in HeapReuse :
           LET m == Grow(mem, size_data_new, reusePrev, reuseNext)
           IN  IF Fits(m, rsp_size) # {}
               THEN HandOut(m, req, BestFit(m, rsp_size), reuseNext)
               ELSE /\ mem' = m
                    /\ last' = Returned("OutOfMemory", req, reuseNext)
                    /\ UNCHANGED <<live, sound>>

\* None fits and ExpandMemory fails.
AllocateFail(req) ==
  LET rsp_size == align_size(req, ALIGNMENT_DATA)
  IN  /\ Fits(mem, rsp_size) = {}
      /\ PoolFor(mem, rsp_size) > MaxPool
      /\ last' = Returned("IOError", req, "updated")
      /\ UNCHANGED <<mem, live, sound>>

FreeBlock(off) ==
  /\ off \in DOMAIN live
  /\ MayAdd(mem.fb)
  /\ \E reusePrev, reuseNext \in HeapReuse :
       /\ mem' = Free(mem, off, live[off], reusePrev, reuseNext)
       /\ last' = Returned("OK", 0, reuseNext)
  /\ live' = Unbind(live, off)
  /\ UNCHANGED sound

-----------------------------------------------------------------------------
(* Restarts.  The client's index has its extents; it has given up the one  *)
(* it was freeing and has not recorded the one it was being given.         *)

RestartFrom(file, pool) ==
  /\ mem' = OpenMemory(file, pool)
  /\ last' = Returned("Restart", 0, "updated")

Reopen == RestartFrom(mem.fb, mem.pool) /\ UNCHANGED <<live, sound>>

CrashInAllocate(req) ==
  LET rsp_size == align_size(req, ALIGNMENT_DATA)
      e == BestFit(mem, rsp_size)
  IN  /\ Fits(mem, rsp_size) # {}
      /\ \E file \in TakeCuts(mem, e, rsp_size) :
           /\ RestartFrom(file, mem.pool)
           /\ sound' = /\ sound
                       /\ IsBlock(mem, e)
                       /\ file \in {mem.fb, TakeBlock(mem, e, rsp_size).fb} \/ ~ Splits(e, rsp_size)
      /\ UNCHANGED live

\* Killed after ExpandMemory and before the second look: the new part may have
\* been freed in part, or not at all.
CrashInGrow(req) ==
  LET rsp_size == align_size(req, ALIGNMENT_DATA)
      size_data_new == PoolFor(mem, rsp_size)
  IN  /\ Fits(mem, rsp_size) = {}
      /\ size_data_new <= MaxPool
      /\ MayAdd(mem.fb)
      /\ \E file \in FreeCuts(mem.fb, mem.pool, size_data_new - mem.pool) :
           RestartFrom(file, size_data_new)
      /\ UNCHANGED <<live, sound>>

CrashInFree(off) ==
  /\ off \in DOMAIN live
  /\ MayAdd(mem.fb)
  /\ \E file \in FreeCuts(mem.fb, off, live[off]) : RestartFrom(file, mem.pool)
  /\ live' = Unbind(live, off)
  /\ UNCHANGED sound

Next ==
  \/ \E req \in Requests : AllocateFree(req)
  \/ \E req \in Requests : AllocateGrow(req)
  \/ \E req \in Requests : AllocateFail(req)
  \/ \E off \in DOMAIN live : FreeBlock(off)
  \/ Reopen
  \/ \E req \in Requests : CrashInAllocate(req)
  \/ \E req \in Requests : CrashInGrow(req)
  \/ \E off \in DOMAIN live : CrashInFree(off)

Spec == Init /\ [][Next]_vars

-----------------------------------------------------------------------------
(* Properties.                                                             *)

TypeOK ==
  /\ last \in [status : {"OK", "IOError", "OutOfMemory", "Restart"}, req : Requests \cup {0},
              reuse : HeapReuse \cup {"updated"}]
  /\ sound \in BOOLEAN
  /\ sound =>
       /\ mem.set_fm_ \subseteq [offset : Nat, size : Nat \ {0}]
       /\ mem.pool \in Nat
       /\ \A off \in DOMAIN mem.fb.map_fm_ : off \in Nat /\ mem.fb.map_fm_[off].size > 0
       /\ \A off \in DOMAIN live : off \in Nat /\ live[off] > 0

\* The extents of the free blocks and of the blocks the client holds.
FreeExtents == Ext(mem.fb)
LiveExtents == {<<off, live[off]>> : off \in DOMAIN live}

\* As long as no stale entry was handed out and no split torn, no two extents
\* overlap, of those the client holds and those the file says are free, and
\* all are inside the pool: no value is overwritten by another.
NoOverlap ==
  sound =>
    /\ DOMAIN live \cap DOMAIN mem.fb.map_fm_ = {}
    /\ \A e, f \in FreeExtents \cup LiveExtents : e = f \/ Disjoint(e, f)
    /\ \A e \in FreeExtents \cup LiveExtents : e[1] + e[2] <= mem.pool

\* After growing the pool Allocate always finds room: "Out of Memory"
\* (memory_mgr.cc:109) is never returned, whatever the request.
NeverOutOfMemory == [][sound' => last'.status # "OutOfMemory"]_vars

\* Bytes of the pool that are neither free nor held.
Lost == 0 .. mem.pool - 1 \ (BytesOf(FreeExtents) \cup BytesOf(LiveExtents))

\* A call that returns loses no byte of the pool; one that is killed loses at
\* most one contiguous extent; a restart alone loses nothing.
LossBounded ==
  [][sound' =>
       LET gone == Lost' \ Lost
       IN  \/ gone = {}
           \/ last'.status = "Restart" /\ \E low, high \in gone : gone = low .. high]_vars

\* set_fm_ lists exactly the blocks of the file.
SetAgrees == mem.set_fm_ = EntriesOf(mem.fb)

\* Free "merges free blocks" (memory_mgr.cc:151): blocks merged into one leave
\* set_fm_, so no two of its entries overlap.
MergedBlocksLeaveTheSet ==
  sound => \A e, f \in mem.set_fm_ :
             e = f \/ Disjoint(<<e.offset, e.size>>, <<f.offset, f.size>>)

\* The extents the last step freed: the client's, or what the pool grew by.
FreedOffsets == (DOMAIN live \ DOMAIN live') \cup (IF mem'.pool # mem.pool THEN {mem.pool} ELSE {})

\* Only a Free that merges puts set_fm_ and the file out of step: backwards, or
\* forwards on a heap that does not give back the node erased last.  Allocate,
\* the free of a block without free neighbours, and every restart keep them.
SetAgreesUnlessMerged ==
  [][sound /\ SetAgrees /\ ~ SetAgrees' =>
       \E off \in FreedOffsets :
         \/ \E p \in DOMAIN mem.fb.map_fm_ : p + mem.fb.map_fm_[p].size = off
         \/ last'.reuse # "updated"
              /\ \E n \in DOMAIN mem.fb.map_fm_ :
                   n = off + (IF off = mem.pool THEN mem'.pool - mem.pool
                              ELSE live[off])]_vars

\* What the client sees is the abstract allocator, while sound.
A == INSTANCE Allocator WITH pool <- mem.pool, asked <- last.req
ImplementsAllocator == [][sound' => A!Next]_vars
=============================================================================
