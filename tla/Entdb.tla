------------------------------- MODULE Entdb -------------------------------
(***************************************************************************)
(* The database (entdb.cc): Put, Get and Delete over the index (IndexFile),*)
(* the memory manager (FreeList) and the bytes of the data pool, with      *)
(* restarts and a process killed between any two stores of any of them.    *)
(*                                                                         *)
(* A key is one symbol of KeySize bytes, a value a sequence of one-byte    *)
(* symbols; the key's bytes in the pool are never read and hold the key.   *)
(*                                                                         *)
(* Delete frees a key's extent and leaves its index record, and a Put that *)
(* needs a longer extent frees the old one and leaves the old record: from *)
(* then on the record points at bytes that may become another key's.  gone *)
(* is the set of keys this has happened to.                                *)
(***************************************************************************)
EXTENDS FreeList, Sequences

CONSTANTS
  Keys, Values,
  KeySize,            \* bytes of a key
  EmptyKey, TornKey,  \* what a kill leaves of a key, see IndexFile
  NumEntries,         \* entries of the index when it is created
  MaxEntries,         \* bound: the index is not expanded beyond
  Garbage,            \* what the uninitialised off of Put may hold
  ReuseGone           \* bound unless TRUE: a key of gone is not used again

ASSUME EntdbAssumption ==
  /\ {EmptyKey, TornKey} \cap Keys = {}
  /\ KeySize \in Nat \ {0}
  /\ Values \subseteq Seq(Nat) \ {<<>>}
  /\ NumEntries \in Nat \ {0}
  /\ Garbage \subseteq Nat
  /\ ReuseGone \in BOOLEAN

VARIABLES
  idx,    \* index_, see IndexFile
  mem,    \* m_mgr_ with the size of the pool, see FreeList
  data,   \* dp_->data_, the bytes of the pool
  said,   \* key -> the value its last Put was given, if that returned and no
          \* Delete came after it
  gone,   \* the keys whose record is not of an extent of theirs
  sound   \* see MemoryMgr: set_fm_ and torn splits have done no harm yet

vars == <<idx, mem, data, said, gone, sound>>

I == INSTANCE IndexFile

Zero == 0

-----------------------------------------------------------------------------
(* The data pool.                                                          *)

\* Seeded bug: one byte too many is mapped.
Resized_Long(bytes, size) ==
  [i \in 0 .. size |-> IF i \in DOMAIN bytes THEN bytes[i] ELSE Zero]

\* The pool after ExpandMemory: what ftruncate adds is zero.
Resized(bytes, size) ==
  [i \in 0 .. size - 1 |-> IF i \in DOMAIN bytes THEN bytes[i] ELSE Zero]

Write(bytes, off, value) ==
  [i \in DOMAIN bytes |->
     IF i \in off .. off + Len(value) - 1 THEN value[i - off + 1] ELSE bytes[i]]

Read(bytes, off, size) == [i \in 1 .. size |-> bytes[off + i - 1]]

KeyBytes(key) == [i \in 1 .. KeySize |-> key]

-----------------------------------------------------------------------------
(* Get.                                                                    *)

Known(key) == key \in DOMAIN idx.index_
ExtentOf(key) == idx.index_[key].extent

\* What Get of a key the index knows returns.
Got(key) == Read(data, ExtentOf(key).off + KeySize, ExtentOf(key).value_size)

-----------------------------------------------------------------------------
(* Put and Delete.                                                         *)

Init ==
  /\ idx = I!OpenFile(I!CreateFile(NumEntries))
  /\ mem = OpenMemory(CreateFile(SizeOfData, 0), SizeOfData)
  /\ data = [i \in 0 .. SizeOfData - 1 |-> Zero]
  /\ said = <<>>
  /\ gone = {}
  /\ sound = TRUE

\* The bytes a Put of the value needs.
AlignedSize(value) == align_size(KeySize + Len(value), ALIGNMENT_DATA)

\* Bound.
MayUse(key) == ReuseGone \/ key \notin gone

\* Bound on the index, and begin() of its free entries exists.
MayIndex(key) ==
  /\ idx.num_free_entries = 0 => idx.num_entries * 2 <= MaxEntries
  /\ I!PutDefined(idx, key)

FitsInPlace(key, value) == Known(key) /\ ExtentOf(key).disk_size >= AlignedSize(value)

\* Of a key that is known and has room: the value is written over the old one,
\* and its length is not recorded.
PutInPlace(key, value) ==
  /\ MayUse(key)
  /\ FitsInPlace(key, value)
  /\ data' = Write(data, ExtentOf(key).off + KeySize, value)
  /\ said' = Bind(said, key, value)
  /\ UNCHANGED <<idx, mem, gone, sound>>

\* Seeded bug: nothing is given back.
Released_Kept(key) == {mem}

\* The managers Put may allocate from: a key that is known gives its extent back.
Released(key) ==
  IF Known(key)
  THEN {Free(mem, ExtentOf(key).off, ExtentOf(key).disk_size, reusePrev, reuseNext) :
          reusePrev, reuseNext \in HeapReuse}
  ELSE {mem}

\* The managers Allocate may take a block for rsp_size bytes from: the pool is
\* grown if nothing fits.
Offering(m, rsp_size) ==
  IF Fits(m, rsp_size) # {} THEN {m}
  ELSE IF PoolFor(m, rsp_size) <= MaxPool /\ MayAdd(m.fb)
       THEN {Grow(m, PoolFor(m, rsp_size), reusePrev, reuseNext) :
               reusePrev, reuseNext \in HeapReuse}
       ELSE {}

\* The managers a Put that needs an extent may take it from.
Offers(key, value) ==
  UNION {Offering(released, AlignedSize(value)) : released \in Released(key)}

NeedsExtent(key, value) ==
  /\ MayUse(key)
  /\ ~ FitsInPlace(key, value)
  /\ Known(key) => MayAdd(mem.fb)

\* What the index is told of entry e.
NewExtent(value, e) ==
  [off |-> e.offset, value_size |-> Len(value),
   disk_size |-> RspSize(e, AlignedSize(value))]

\* Seeded bug: the value is written where the key is.
WriteBoth_NoOffset(bytes, off, key, value) == Write(bytes, off, value)

WriteBoth(bytes, off, key, value) ==
  Write(Write(bytes, off, KeyBytes(key)), off + KeySize, value)

\* Of a key that is new or needs a longer extent.
PutExtent(key, value) ==
  /\ NeedsExtent(key, value)
  /\ MayIndex(key)
  /\ \E m \in Offers(key, value) :
       LET e == BestFit(m, AlignedSize(value))
       IN  /\ mem' = TakeBlock(m, e, AlignedSize(value))
           /\ idx' = I!Put(idx, key, NewExtent(value, e))
           /\ data' = WriteBoth(Resized(data, m.pool), e.offset, key, value)
           /\ sound' = (sound /\ IsBlock(m, e))
  /\ said' = Bind(said, key, value)
  /\ gone' = IF Known(key) THEN gone \cup {key} ELSE gone

\* The extent is freed and the index left alone.
Delete(key) ==
  /\ MayUse(key)
  /\ Known(key)
  /\ MayAdd(mem.fb)
  /\ mem' \in Released(key)
  /\ said' = Unbind(said, key)
  /\ gone' = gone \cup {key}
  /\ UNCHANGED <<idx, data, sound>>

-----------------------------------------------------------------------------
(* Restarts and kills.                                                     *)

Restart(blocks, pool, index) ==
  /\ mem' = OpenMemory(blocks, pool)
  /\ idx' = I!OpenFile(index)

Reopen == Restart(mem.fb, mem.pool, idx) /\ UNCHANGED <<data, said, gone, sound>>

\* In the Write of an update: some of the value's bytes are there.
CrashInPlace(key, value) ==
  /\ MayUse(key)
  /\ FitsInPlace(key, value)
  /\ \E n \in 0 .. Len(value) :
       data' = Write(data, ExtentOf(key).off + KeySize, SubSeq(value, 1, n))
  /\ Restart(mem.fb, mem.pool, idx)
  /\ said' = Unbind(said, key)
  /\ UNCHANGED <<gone, sound>>

\* In the Free of Delete, or of a Put that needs a longer extent.
CrashInFree(key) ==
  /\ MayUse(key)
  /\ Known(key)
  /\ MayAdd(mem.fb)
  /\ \E blocks \in FreeCuts(mem.fb, ExtentOf(key).off, ExtentOf(key).disk_size) :
       Restart(blocks, mem.pool, idx)
  /\ said' = Unbind(said, key)
  /\ gone' = gone \cup {key}
  /\ UNCHANGED <<data, sound>>

\* A Put that needs an extent and does not get as far as its record: the key has
\* no value, and if it had an extent that is free.
Abandoned(key) ==
  /\ said' = Unbind(said, key)
  /\ gone' = IF Known(key) THEN gone \cup {key} ELSE gone

\* In ExpandMemory or the Free that follows it.
CrashInGrow(key, value) ==
  /\ NeedsExtent(key, value)
  /\ \E m \in Released(key) :
       LET pool == PoolFor(m, AlignedSize(value))
       IN  /\ Fits(m, AlignedSize(value)) = {}
           /\ pool <= MaxPool /\ MayAdd(m.fb)
           /\ \E blocks \in FreeCuts(m.fb, m.pool, pool - m.pool) : Restart(blocks, pool, idx)
           /\ data' = Resized(data, pool)
  /\ Abandoned(key)
  /\ UNCHANGED sound

\* ExpandMemory fails.  Put does not look at the status and records an extent it
\* does not have: off is what it was, the size the one Allocate aimed at.  The
\* pool is no longer mapped, so the Write kills the process.
PutUnallocated(key, value) ==
  /\ NeedsExtent(key, value)
  /\ MayIndex(key)
  /\ \E m \in Released(key), garbage \in Garbage :
       /\ Fits(m, AlignedSize(value)) = {}
       /\ PoolFor(m, AlignedSize(value)) > MaxPool
       /\ Restart(m.fb, m.pool,
                  I!Put(idx, key, [off |-> garbage, value_size |-> Len(value),
                                   disk_size |-> AlignedSize(value)]))
  /\ said' = Unbind(said, key)
  /\ gone' = gone \cup {key}
  /\ UNCHANGED <<data, sound>>

\* In Allocate, once there is a block to take.
CrashInTake(key, value) ==
  LET rsp_size == AlignedSize(value)
  IN  /\ NeedsExtent(key, value)
      /\ \E m \in Offers(key, value) :
           LET e == BestFit(m, rsp_size)
           IN  /\ \E blocks \in TakeCuts(m, e, rsp_size) :
                    /\ Restart(blocks, m.pool, idx)
                    /\ sound' = /\ sound
                                /\ IsBlock(m, e)
                                /\ \/ blocks \in {m.fb, TakeBlock(m, e, rsp_size).fb}
                                   \/ ~ Splits(e, rsp_size)
               /\ data' = Resized(data, m.pool)
      /\ Abandoned(key)

\* In SKIndex::Put.  A record that lacks its extent or part of it is as bad as one
\* of an extent that was freed.
CrashInIndex(key, value) ==
  /\ NeedsExtent(key, value)
  /\ MayIndex(key)
  /\ \E m \in Offers(key, value) :
       LET e == BestFit(m, AlignedSize(value))
           extent == NewExtent(value, e)
       IN  /\ \E index \in I!PutCuts(idx, key, extent) :
                /\ Restart(TakeBlock(m, e, AlignedSize(value)).fb, m.pool, index)
                /\ gone' = IF key \in DOMAIN idx'.index_ /\ idx'.index_[key].extent # extent
                           THEN gone \cup {key} ELSE gone
           /\ data' = Resized(data, m.pool)
           /\ sound' = (sound /\ IsBlock(m, e))
  /\ said' = Unbind(said, key)

\* In the two Writes of Put: some of the bytes of key and value are there.
CrashInWrite(key, value) ==
  /\ NeedsExtent(key, value)
  /\ MayIndex(key)
  /\ \E m \in Offers(key, value) :
       LET e == BestFit(m, AlignedSize(value))
           bytes == KeyBytes(key) \o value
       IN  /\ Restart(TakeBlock(m, e, AlignedSize(value)).fb, m.pool,
                      I!Put(idx, key, NewExtent(value, e)))
           /\ \E n \in 0 .. Len(bytes) :
                data' = Write(Resized(data, m.pool), e.offset, SubSeq(bytes, 1, n))
           /\ sound' = (sound /\ IsBlock(m, e))
  /\ Abandoned(key)

Next ==
  \/ \E key \in Keys, value \in Values : PutInPlace(key, value)
  \/ \E key \in Keys, value \in Values : PutExtent(key, value)
  \/ \E key \in Keys : Delete(key)
  \/ Reopen
  \/ \E key \in Keys, value \in Values : CrashInPlace(key, value)
  \/ \E key \in Keys : CrashInFree(key)
  \/ \E key \in Keys, value \in Values : CrashInGrow(key, value)
  \/ \E key \in Keys, value \in Values : PutUnallocated(key, value)
  \/ \E key \in Keys, value \in Values : CrashInTake(key, value)
  \/ \E key \in Keys, value \in Values : CrashInIndex(key, value)
  \/ \E key \in Keys, value \in Values : CrashInWrite(key, value)

Spec == Init /\ [][Next]_vars

-----------------------------------------------------------------------------
(* Properties.                                                             *)

TypeOK ==
  /\ sound \in BOOLEAN
  /\ DOMAIN said \subseteq Keys /\ gone \subseteq Keys
  /\ \A key \in DOMAIN said : said[key] \in Values
  /\ sound => /\ DOMAIN data = 0 .. mem.pool - 1
              /\ gone \subseteq DOMAIN idx.index_
              /\ DOMAIN idx.index_ \subseteq Keys \cup {EmptyKey, TornKey}
              /\ \A key \in DOMAIN idx.index_ :
                   ExtentOf(key) \in [off : Nat, value_size : Nat, disk_size : Nat]

\* The keys whose record is of an extent of theirs.
Settled == (DOMAIN idx.index_ \cap Keys) \ gone

ExtentsOf(keys) == {<<ExtentOf(key).off, ExtentOf(key).disk_size>> : key \in keys}
FreeExtents == Ext(mem.fb)

\* Index and free-block file agree on who owns the pool: the extents of any two
\* settled keys are apart, none is free, each is inside the pool and has room for
\* its key and value; kills between the allocation and the index record included.
ExtentsApart ==
  sound =>
    /\ \A j, k \in Settled : j = k \/ \A e \in ExtentsOf({j}), f \in ExtentsOf({k}) : Disjoint(e, f)
    /\ \A e \in ExtentsOf(Settled) : /\ e[1] + e[2] <= mem.pool
                                     /\ \A f \in FreeExtents : Disjoint(e, f)
    /\ \A k \in Settled : KeySize + ExtentOf(k).value_size <= ExtentOf(k).disk_size

\* Get of a settled key returns the value of its last Put, up to the length that
\* was recorded by its first Put, whatever was done to other keys in between:
\* puts, deletes and reuse of their bytes, growth of the pool, restarts, kills.
ReadsBackToLength ==
  sound =>
    \A key \in DOMAIN said \ gone :
      /\ Known(key)
      /\ \A i \in 1 .. Min({Len(said[key]), ExtentOf(key).value_size}) :
           Got(key)[i] = said[key][i]

\* Bytes of the pool that are neither free nor a settled key's.
Lost == 0 .. mem.pool - 1 \ BytesOf(FreeExtents \cup ExtentsOf(Settled))

\* The calls that lose nothing when they return.
ReturnsAll ==
  \/ Reopen
  \/ \E key \in Keys : Delete(key)
  \/ \E key \in Keys \ DOMAIN idx.index_, value \in Values : PutExtent(key, value)

\* The pool leaks slowly: a call, completed or killed anywhere, loses at most one
\* contiguous extent, and a Put of a new key, a Delete or a restart loses none.
\* (A Put of a known key that needs a longer extent does, see gone.)
LossBounded ==
  [][sound' =>
       LET more == Lost' \ Lost
       IN  /\ \A low, high \in more : low .. high \subseteq more
           /\ ReturnsAll => more = {}]_vars

\* A value that was put is what Get returns (README.md:27-32).
ReadsBack == sound => \A key \in DOMAIN said : Known(key) /\ Got(key) = said[key]

\* Delete removes the index record (entdb.cc:106): afterwards the key is not known.
DeleteForgets == [][\A key \in Keys : Delete(key) => key \notin DOMAIN idx'.index_]_vars
=============================================================================
