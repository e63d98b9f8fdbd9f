---------------------------- MODULE EntdbProofs ----------------------------
(***************************************************************************)
(* Proofs about Entdb for every set of keys and values, every size, every  *)
(* outcome of the reads of erased nodes and of the uninitialised offset,   *)
(* and executions that expand the free-block file at most once and do not  *)
(* use a key of gone again.                                                *)
(*                                                                         *)
(* The inductive invariant DatabaseGood says, as long as sound does: the   *)
(* index is good and no entry of it lies beyond its file (Good and Fits of *)
(* SKIndexProofs); the memory manager is good next to the extents of the   *)
(* settled keys (MemOK of FreeListProofs), which start at different bytes  *)
(* and have room for key and value; and the bytes of every key that was    *)
(* put and is not gone are those of its value, as far as the length in its *)
(* record goes.  The properties need all of it: that an extent handed out  *)
(* is apart from the others rests on the manager's, that records survive   *)
(* rests on the index's, that bytes do on both.                            *)
(*                                                                         *)
(* StepGood gathers what every step has in common: it concerns one key,    *)
(* keeps the records and the bytes of the others, and either leaves that   *)
(* key unsettled or gives it an extent apart from theirs.                  *)
(***************************************************************************)
EXTENDS Entdb, FreeListProofs

ExtentType == [off : Nat, value_size : Nat, disk_size : Nat]

X == INSTANCE SKIndexProofs WITH
       Extents <- ExtentType, idx <- 0, up <- TRUE, refused <- FALSE

-----------------------------------------------------------------------------
(* The index: IndexFile's operators are those SKIndexProofs speaks of.     *)

LEMMA IndexAssumed == X!IndexAssumption
BY EntdbAssumption DEF X!IndexAssumption, ExtentType

LEMMA SameMin == \A T : X!Min(T) = I!Min(T)
BY Zenon DEF X!Min, I!Min

LEMMA SameEntry ==
  /\ X!ZeroEntry = I!ZeroEntry
  /\ \A e : X!Extent(e) = I!Extent(e)
  /\ \A d : X!UsedIn(d) = I!UsedIn(d)
  /\ \A key, extent : X!Written(key, extent) = I!Written(key, extent)
BY Zenon DEF X!ZeroEntry, I!ZeroEntry, X!Extent, I!Extent, X!UsedIn, I!UsedIn, X!UsedFlag, I!UsedFlag,
             X!FreeFlag, I!FreeFlag, X!Written, I!Written

LEMMA SameIndexed == \A d : X!Indexed(d) = I!Indexed(d)
BY SameEntry, Zenon DEF X!Indexed, I!Indexed

LEMMA SameScanned == \A f : X!Scanned(f) = I!Scanned(f)
BY Zenon DEF X!Scanned, I!Scanned

LEMMA SameIndexOpen == \A f : X!OpenFile(f) = I!OpenFile(f)
BY SameEntry, SameIndexed, SameScanned, SameMin, Zenon DEF X!OpenFile, I!OpenFile

LEMMA SameIndexCreate == \A n : X!CreateFile(n) = I!CreateFile(n)
BY SameEntry, Zenon DEF X!CreateFile, I!CreateFile

LEMMA SameLengthened == \A x : X!Lengthened(x) = I!Lengthened(x)
BY SameEntry, Zenon DEF X!Lengthened, I!Lengthened

LEMMA SameDoubled == /\ \A x : X!Doubled(x) = I!Doubled(x)
                     /\ \A x : X!DoubledCuts(x) = I!DoubledCuts(x)
<1>1. \A x : X!Doubled(x) = I!Doubled(x)
  BY Zenon DEF X!Doubled, I!Doubled
<1>2. QED BY <1>1, Zenon DEF X!DoubledCuts, I!DoubledCuts

LEMMA SameIndexExpand == /\ \A x : X!ExpandFile(x) = I!ExpandFile(x)
                         /\ \A x : X!ExpandFileCuts(x) = I!ExpandFileCuts(x)
BY SameLengthened, SameDoubled, Zenon DEF X!ExpandFile, I!ExpandFile, X!ExpandFileCuts, I!ExpandFileCuts

LEMMA SameIndexRoom == \A x : X!WithRoom(x) = I!WithRoom(x)
BY SameIndexExpand, Zenon DEF X!WithRoom, I!WithRoom

LEMMA SamePut == \A x, key, extent : X!Put(x, key, extent) = I!Put(x, key, extent)
<1>1. \A y, key : X!Rewrite(y, key) = I!Rewrite(y, key)
  BY SameEntry, Zenon DEF X!Rewrite, I!Rewrite
<1>2. \A y, key, extent : X!AddEntry(y, key, extent) = I!AddEntry(y, key, extent)
  <2>1. SUFFICES ASSUME NEW y, NEW key, NEW extent
                 PROVE  X!AddEntry(y, key, extent) = I!AddEntry(y, key, extent)
    OBVIOUS
  <2>2. X!Min(y.free_entry_solts) = I!Min(y.free_entry_solts)
        /\ X!Written(key, extent) = I!Written(key, extent)
    BY SameEntry, SameMin, Zenon
  <2>3. QED BY <2>2, Zenon DEF X!AddEntry, I!AddEntry
<1>3. QED BY <1>1, <1>2, SameIndexRoom, Zenon DEF X!Put, I!Put

LEMMA SamePutDefined == \A x, key : X!PutDefined(x, key) <=> I!PutDefined(x, key)
BY SameIndexRoom, Zenon DEF X!PutDefined, I!PutDefined

LEMMA SamePutCuts == \A x, key, extent : X!PutCuts(x, key, extent) = I!PutCuts(x, key, extent)
<1>1. \A entry, key, extent : X!WrittenCuts(entry, key, extent) = I!WrittenCuts(entry, key, extent)
  <2>1. SUFFICES ASSUME NEW entry, NEW key, NEW extent
                 PROVE  X!WrittenCuts(entry, key, extent) = I!WrittenCuts(entry, key, extent)
    OBVIOUS
  <2>2. X!Written(key, extent) = I!Written(key, extent) /\ X!UsedFlag = I!UsedFlag
    BY SameEntry, Zenon DEF X!UsedFlag, I!UsedFlag
  <2>3. QED BY <2>2, Zenon DEF X!WrittenCuts, I!WrittenCuts
<1>2. SUFFICES ASSUME NEW x, NEW key, NEW extent
               PROVE  X!PutCuts(x, key, extent) = I!PutCuts(x, key, extent)
  OBVIOUS
<1> DEFINE y == I!WithRoom(x)
           pos == I!Min(y.free_entry_solts)
           CutsFrom(room, first, grown, cuts, put) ==
             (IF x.num_free_entries = 0 THEN grown ELSE {x})
               \cup (IF key \in DOMAIN room.index_ THEN {}
                     ELSE {[room EXCEPT !.data_[first] = entry] : entry \in cuts})
               \cup {put}
<1>3. X!WithRoom(x) = y /\ X!Min(y.free_entry_solts) = pos
  BY SameIndexRoom, SameMin, Zenon
<1>4. X!ExpandFileCuts(x) = I!ExpandFileCuts(x)
  BY SameIndexExpand, Zenon
<1>5. X!Put(x, key, extent) = I!Put(x, key, extent)
  BY SamePut, Zenon
<1>6. X!WrittenCuts(y.data_[pos], key, extent) = I!WrittenCuts(y.data_[pos], key, extent)
  BY <1>1, Zenon
<1>7. X!PutCuts(x, key, extent) =
        CutsFrom(X!WithRoom(x), X!Min(X!WithRoom(x).free_entry_solts), X!ExpandFileCuts(x),
                 X!WrittenCuts(X!WithRoom(x).data_[X!Min(X!WithRoom(x).free_entry_solts)], key, extent),
                 X!Put(x, key, extent))
  BY Zenon DEF X!PutCuts
<1>8. I!PutCuts(x, key, extent) =
        CutsFrom(y, pos, I!ExpandFileCuts(x), I!WrittenCuts(y.data_[pos], key, extent),
                 I!Put(x, key, extent))
  BY Zenon DEF I!PutCuts
<1> HIDE DEF y, pos, CutsFrom
<1>9. QED BY <1>3, <1>4, <1>5, <1>6, <1>7, <1>8, Zenon

-----------------------------------------------------------------------------
(* What a Put does to the index.                                           *)

\* Good, and none of its entries beyond the end of the file: here no expansion of the
\* index fails.
IndexOK(x) == X!Good(x) /\ X!Fits(x)

\* The records of x are in z, and z has no others but of these keys.
Keeps(x, z, names) ==
  /\ DOMAIN x.index_ \subseteq DOMAIN z.index_
  /\ DOMAIN z.index_ \subseteq DOMAIN x.index_ \cup names
  /\ \A other \in DOMAIN x.index_ : z.index_[other] = x.index_[other]

LEMMA IndexCreated ==
  IndexOK(I!OpenFile(I!CreateFile(NumEntries)))
    /\ DOMAIN I!OpenFile(I!CreateFile(NumEntries)).index_ = {}
BY X!CreateGood, IndexAssumed, SameIndexOpen, SameIndexCreate, Zenon DEF IndexOK

LEMMA IndexReopened ==
  ASSUME NEW x, IndexOK(x)
  PROVE  IndexOK(I!OpenFile(x)) /\ Keeps(x, I!OpenFile(x), {})
<1>1. X!FileOK(x) /\ X!IndexOf(x.data_) = x.index_ /\ X!Fits(x)
  BY Zenon DEF IndexOK, X!Good
<1>2. /\ X!Good(X!OpenFile(x)) /\ X!OpenFile(x).index_ = X!IndexOf(x.data_)
      /\ X!Fits(x) = X!Fits(X!OpenFile(x))
  BY <1>1, X!OpenFinds, IndexAssumed, Zenon
<1>3. I!OpenFile(x).index_ = x.index_ /\ IndexOK(I!OpenFile(x))
  BY <1>1, <1>2, SameIndexOpen DEF IndexOK
<1>4. QED BY <1>3 DEF Keeps

LEMMA IndexTyped ==
  ASSUME NEW x, IndexOK(x), NEW key \in DOMAIN x.index_
  PROVE  x.index_[key].extent \in ExtentType /\ key \in Keys \cup {EmptyKey, TornKey}
<1>1. x.index_[key].extent \in X!ExtentType /\ key \in X!AnyKey
  BY X!IndexFinds, IndexAssumed, Zenon DEF IndexOK
<1>2. QED BY <1>1 DEF X!ExtentType, X!AnyKey, ExtentType

LEMMA IndexPut ==
  ASSUME NEW x, IndexOK(x), NEW key \in Keys, NEW extent \in ExtentType, I!PutDefined(x, key)
  PROVE  LET z == I!Put(x, key, extent)
         IN  /\ IndexOK(z) /\ Keeps(x, z, {key}) /\ key \in DOMAIN z.index_
             /\ key \notin DOMAIN x.index_ => z.index_[key].extent = extent
             /\ \A file \in I!PutCuts(x, key, extent) :
                  /\ IndexOK(I!OpenFile(file))
                  /\ Keeps(x, I!OpenFile(file), {key, EmptyKey, TornKey})
<1> DEFINE z == I!Put(x, key, extent)
<1>1. /\ X!Good(x) /\ X!Fits(x) /\ X!PutDefined(x, key)
  BY SamePutDefined DEF IndexOK
<1>2. X!WritesInFile(X!WithRoom(x), key)
  BY <1>1, X!FitsWrites, IndexAssumed, Zenon
<1>3. /\ X!Good(z) /\ X!Fits(z)
      /\ key \in DOMAIN x.index_ => z.index_ = x.index_
      /\ key \notin DOMAIN x.index_ =>
           \E k \in Nat : z.index_ = X!Joined(x.index_, key, k, X!Written(key, extent))
      /\ \A f \in I!PutCuts(x, key, extent) :
           /\ X!FileOK(f) /\ X!GrownBy(x.index_, key, extent, X!IndexOf(f.data_))
           /\ X!Fits(f)
  <2>1. X!Put(x, key, extent) = z /\ X!PutCuts(x, key, extent) = I!PutCuts(x, key, extent)
    BY SamePut, SamePutCuts, Zenon
  <2> DEFINE w == X!Put(x, key, extent)
  <2>2. /\ X!Good(w) /\ X!Fits(w)
        /\ key \in DOMAIN x.index_ => w.index_ = x.index_
        /\ key \notin DOMAIN x.index_ =>
             \E k \in Nat : w.index_ = X!Joined(x.index_, key, k, X!Written(key, extent))
        /\ \A f \in X!PutCuts(x, key, extent) :
             /\ X!FileOK(f) /\ X!GrownBy(x.index_, key, extent, X!IndexOf(f.data_))
             /\ X!Fits(f)
    BY <1>1, <1>2, X!PutGood, IndexAssumed
  <2> HIDE DEF w
  <2>3. w = z
    BY <2>1 DEF w
  <2> HIDE DEF z
  <2>4. QED BY <2>1, <2>2, <2>3
<1> HIDE DEF z
<1>4. /\ Keeps(x, z, {key}) /\ key \in DOMAIN z.index_
      /\ key \notin DOMAIN x.index_ => z.index_[key].extent = extent
  <2>1. CASE key \in DOMAIN x.index_
    BY <1>3, <2>1 DEF Keeps
  <2>2. CASE key \notin DOMAIN x.index_
    <3>1. PICK k \in Nat : z.index_ = X!Joined(x.index_, key, k, X!Written(key, extent))
      BY <1>3, <2>2
    <3>2. X!Extent(X!Written(key, extent)) = extent
      BY DEF X!Extent, X!Written, ExtentType
    <3>3. QED BY <2>2, <3>1, <3>2 DEF Keeps, X!Joined
  <2>3. QED BY <2>1, <2>2
<1>5. ASSUME NEW file \in I!PutCuts(x, key, extent)
      PROVE  IndexOK(I!OpenFile(file)) /\ Keeps(x, I!OpenFile(file), {key, EmptyKey, TornKey})
  <2> DEFINE o == X!OpenFile(file)
  <2>1. X!Good(o) /\ o.index_ = X!IndexOf(file.data_) /\ X!Fits(file) = X!Fits(o)
    BY <1>3, X!OpenFinds, IndexAssumed, Zenon
  <2>2. X!GrownBy(x.index_, key, extent, o.index_) /\ X!Fits(o)
    BY <1>3, <2>1
  <2> HIDE DEF o
  <2>3. /\ DOMAIN x.index_ \subseteq DOMAIN o.index_
        /\ DOMAIN o.index_ \subseteq DOMAIN x.index_ \cup {key, EmptyKey, TornKey}
        /\ \A other \in DOMAIN x.index_ : o.index_[other] = x.index_[other]
    BY <2>2, X!GrownKeeps, IndexAssumed, Zenon
  <2>4. o = I!OpenFile(file)
    BY SameIndexOpen DEF o
  <2>5. QED BY <2>1, <2>2, <2>3, <2>4 DEF Keeps, IndexOK
<1>6. z = I!Put(x, key, extent)
  BY DEF z
<1>7. IndexOK(z)
  BY <1>3 DEF IndexOK
<1>8. QED BY <1>4, <1>5, <1>6, <1>7

-----------------------------------------------------------------------------
(* A good database.                                                        *)

SettledIn(x, lost) == (DOMAIN x.index_ \cap Keys) \ lost
OffOf(x, key) == x.index_[key].extent.off
SizeOf(x, key) == x.index_[key].extent.disk_size
LengthOf(x, key) == x.index_[key].extent.value_size
HeldBy(x, keys) == {<<OffOf(x, key), SizeOf(x, key)>> : key \in keys}

\* Key's record has room for it, and starts where no other of keys starts.
Roomy(x, key) == KeySize + LengthOf(x, key) <= SizeOf(x, key)
ReadsAs(x, bytes, key, value) ==
  \A i \in 1 .. Len(value) :
    i <= LengthOf(x, key) => bytes[OffOf(x, key) + KeySize + i - 1] = value[i]

\* The index x, the manager m, the pool's bytes, the values put and the keys lost.
DatabaseOK(x, m, bytes, puts, lost) ==
  /\ IndexOK(x)
  /\ MemOK(m, HeldBy(x, SettledIn(x, lost)))
  /\ \A j, k \in SettledIn(x, lost) : OffOf(x, j) = OffOf(x, k) => j = k
  /\ \A k \in SettledIn(x, lost) : Roomy(x, k)
  /\ lost \subseteq DOMAIN x.index_
  /\ DOMAIN bytes = 0 .. m.pool - 1
  /\ \A key \in DOMAIN puts \ lost : key \in DOMAIN x.index_ /\ ReadsAs(x, bytes, key, puts[key])

\* What a settled key's record holds, as numbers.
LEMMA SettledBounds ==
  ASSUME NEW x, NEW lost, NEW m, IndexOK(x), NEW keys \in SUBSET SettledIn(x, lost),
         MemOK(m, HeldBy(x, keys)), NEW key \in keys
  PROVE  /\ OffOf(x, key) \in Nat /\ SizeOf(x, key) \in Nat \ {0} /\ LengthOf(x, key) \in Nat
         /\ OffOf(x, key) + SizeOf(x, key) <= m.pool
         /\ <<OffOf(x, key), SizeOf(x, key)>> \in HeldBy(x, keys)
<1> DEFINE e == <<OffOf(x, key), SizeOf(x, key)>>
<1>1. e \in HeldBy(x, keys) /\ e[1] = OffOf(x, key) /\ e[2] = SizeOf(x, key)
  BY DEF HeldBy
<1>2. x.index_[key].extent \in ExtentType
  BY IndexTyped DEF SettledIn
<1>3. LengthOf(x, key) \in Nat
  BY <1>2 DEF ExtentType, LengthOf
<1>4. IsExtent(e, m.pool)
  BY <1>1 DEF MemOK, Sep
<1>5. QED BY <1>1, <1>3, <1>4 DEF IsExtent

-----------------------------------------------------------------------------
(* The bytes of the pool.                                                  *)

LEMMA ValueTyped ==
  ASSUME NEW value \in Values
  PROVE  value \in Seq(Nat) /\ Len(value) \in Nat \ {0}
<1>1. value \in Seq(Nat) /\ value # <<>>
  BY EntdbAssumption
<1>2. QED BY <1>1

\* A value and its key fit in what Allocate is asked for.
LEMMA AlignedHolds ==
  ASSUME NEW value \in Values
  PROVE  AlignedSize(value) \in Nat \ {0} /\ AlignedSize(value) >= KeySize + Len(value)
<1>1. KeySize + Len(value) \in Nat \ {0} /\ ALIGNMENT_DATA \in Nat \ {0}
  BY ValueTyped, EntdbAssumption, AlignAssumption
<1>2. QED BY <1>1, AlignUp DEF AlignedSize

LEMMA ResizedKeeps ==
  ASSUME NEW bytes, NEW size \in Nat, NEW larger \in Nat, size <= larger, DOMAIN bytes = 0 .. size - 1
  PROVE  /\ DOMAIN Resized(bytes, larger) = 0 .. larger - 1
         /\ \A p \in DOMAIN bytes : Resized(bytes, larger)[p] = bytes[p]
BY DEF Resized

\* The bytes new are old except for n bytes from off on.
KeepsOutside(old, off, n, new) ==
  /\ DOMAIN new = DOMAIN old
  /\ \A p \in DOMAIN old : p < off \/ off + n <= p => new[p] = old[p]

\* A write changes no byte outside an extent that holds it.
LEMMA WriteKeeps ==
  ASSUME NEW bytes, DOMAIN bytes \subseteq Nat, NEW off \in Nat, NEW value,
         NEW n \in Nat, Len(value) = n
  PROVE  /\ DOMAIN Write(bytes, off, value) = DOMAIN bytes
         /\ \A p \in DOMAIN bytes : p < off \/ off + n <= p =>
              Write(bytes, off, value)[p] = bytes[p]
         /\ \A i \in 1 .. n : off + i - 1 \in DOMAIN bytes =>
              Write(bytes, off, value)[off + i - 1] = value[i]
<1> DEFINE after == Write(bytes, off, value)
<1>1. /\ DOMAIN after = DOMAIN bytes
      /\ \A p \in DOMAIN bytes :
           after[p] = IF p \in off .. off + n - 1 THEN value[p - off + 1] ELSE bytes[p]
  BY DEF Write
<1> HIDE DEF after
<1>2. ASSUME NEW p \in DOMAIN bytes, p < off \/ off + n <= p PROVE after[p] = bytes[p]
  <2>1. p \in Nat /\ p \notin off .. off + n - 1
    BY <1>2
  <2>2. QED BY <1>1, <2>1
<1>3. ASSUME NEW i \in 1 .. n, off + i - 1 \in DOMAIN bytes PROVE after[off + i - 1] = value[i]
  <2>1. off + i - 1 \in off .. off + n - 1 /\ (off + i - 1) - off + 1 = i
    OBVIOUS
  <2>2. QED BY <1>1, <1>3, <2>1
<1>4. QED BY <1>1, <1>2, <1>3 DEF after

\* What WriteKeeps says of the bytes around a write.
LEMMA WriteKeepsRest ==
  ASSUME NEW bytes, DOMAIN bytes \subseteq Nat, NEW off \in Nat, NEW value,
         NEW n \in Nat, Len(value) = n, NEW new, new = Write(bytes, off, value)
  PROVE  KeepsOutside(bytes, off, n, new)
BY WriteKeeps DEF KeepsOutside

LEMMA KeyBytesTyped ==
  ASSUME NEW key
  PROVE  KeyBytes(key) \in Seq({key}) /\ Len(KeyBytes(key)) = KeySize
BY EntdbAssumption DEF KeyBytes

\* The two writes of a Put change no byte outside its extent, and the value reads back.
LEMMA WriteBothKeeps ==
  ASSUME NEW bytes, DOMAIN bytes \subseteq Nat, NEW off \in Nat, NEW key, NEW value \in Values,
         off .. off + KeySize + Len(value) - 1 \subseteq DOMAIN bytes
  PROVE  LET after == WriteBoth(bytes, off, key, value)
         IN  /\ DOMAIN after = DOMAIN bytes
             /\ \A p \in DOMAIN bytes :
                  p < off \/ off + KeySize + Len(value) <= p => after[p] = bytes[p]
             /\ \A i \in 1 .. Len(value) : after[off + KeySize + i - 1] = value[i]
<1> DEFINE n == Len(value)
           named == Write(bytes, off, KeyBytes(key))
           after == Write(named, off + KeySize, value)
<1>1. Len(KeyBytes(key)) = KeySize /\ KeySize \in Nat \ {0} /\ n \in Nat \ {0}
  BY KeyBytesTyped, ValueTyped, EntdbAssumption
<1>2. /\ DOMAIN named = DOMAIN bytes
      /\ \A p \in DOMAIN bytes : p < off \/ off + KeySize <= p => named[p] = bytes[p]
  <2>1. KeySize \in Nat
    BY <1>1
  <2>2. QED BY <1>1, <2>1, WriteKeeps
<1> HIDE DEF named
<1>3. /\ DOMAIN after = DOMAIN named
      /\ \A p \in DOMAIN named : p < off + KeySize \/ off + KeySize + n <= p =>
           after[p] = named[p]
      /\ \A i \in 1 .. n : off + KeySize + i - 1 \in DOMAIN named =>
           after[off + KeySize + i - 1] = value[i]
  <2> DEFINE from == off + KeySize
  <2>1. from \in Nat /\ DOMAIN named \subseteq Nat /\ n \in Nat /\ Len(value) = n
    BY <1>1, <1>2
  <2> HIDE DEF from, n
  <2>2. /\ DOMAIN Write(named, from, value) = DOMAIN named
        /\ \A p \in DOMAIN named : p < from \/ from + n <= p =>
             Write(named, from, value)[p] = named[p]
        /\ \A i \in 1 .. n : from + i - 1 \in DOMAIN named =>
             Write(named, from, value)[from + i - 1] = value[i]
    BY <2>1, WriteKeeps
  <2>3. QED BY <2>2 DEF from
<1> HIDE DEF after
<1>4. \A p \in DOMAIN bytes : p < off \/ off + KeySize + n <= p => after[p] = bytes[p]
  BY <1>1, <1>2, <1>3
<1>5. \A i \in 1 .. n : after[off + KeySize + i - 1] = value[i]
  BY <1>1, <1>2, <1>3
<1>6. WriteBoth(bytes, off, key, value) = after
  BY DEF WriteBoth, after, named
<1>7. QED BY <1>2, <1>3, <1>4, <1>5, <1>6

\* The first part of a write is no longer than the whole.
LEMMA PartOf ==
  ASSUME NEW S, NEW s \in Seq(S), NEW n \in 0 .. Len(s)
  PROVE  Len(SubSeq(s, 1, n)) = n /\ n \in Nat /\ n <= Len(s)
OBVIOUS

LEMMA BothLength ==
  ASSUME NEW key, NEW value \in Values
  PROVE  /\ KeyBytes(key) \o value \in Seq({key} \cup Nat)
         /\ Len(KeyBytes(key) \o value) = KeySize + Len(value)
<1> DEFINE S == {key} \cup Nat
<1>1. value \in Seq(Nat) /\ KeyBytes(key) \in Seq({key}) /\ Len(KeyBytes(key)) = KeySize
  BY KeyBytesTyped, ValueTyped
<1>2. {key} \subseteq S /\ Nat \subseteq S
  OBVIOUS
<1> HIDE DEF S
<1>3. value \in Seq(S) /\ KeyBytes(key) \in Seq(S)
  BY <1>1, <1>2
<1>4. /\ KeyBytes(key) \o value \in Seq(S)
      /\ Len(KeyBytes(key) \o value) = Len(KeyBytes(key)) + Len(value)
  BY <1>3
<1>5. QED BY <1>1, <1>4 DEF S

-----------------------------------------------------------------------------
(* What Put and Delete do to the manager.                                  *)

\* The bounds: the free-block file is expanded once, and no key of gone is used again.
Bounded == MaxPages \in 1 .. 2 /\ ~ ReuseGone

\* The state in which a step is taken.
Before == Bounded /\ DatabaseOK(idx, mem, data, said, gone)

\* The extents in use but key's.
Rest(key) == HeldBy(idx, SettledIn(idx, gone) \ {key})

LEMMA RestGood ==
  ASSUME Before, NEW key
  PROVE  MemOK(mem, Rest(key)) /\ mem.pool \in Nat \ {0} /\ DOMAIN data = 0 .. mem.pool - 1
<1>1. Rest(key) \subseteq HeldBy(idx, SettledIn(idx, gone))
  BY DEF Rest, HeldBy
<1>2. MemOK(mem, HeldBy(idx, SettledIn(idx, gone))) /\ DOMAIN data = 0 .. mem.pool - 1
  BY DEF Before, DatabaseOK
<1>3. MemOK(mem, Rest(key))
  BY <1>1, <1>2, MemSub
<1>4. QED BY <1>2, <1>3 DEF MemOK

\* A key whose extent may be given back is settled, and the extent may be freed.
LEMMA HeldFreeable ==
  ASSUME Before, NEW key \in Keys, MayUse(key), Known(key), MayAdd(mem.fb)
  PROVE  /\ key \in SettledIn(idx, gone)
         /\ Freeable(mem, Rest(key), ExtentOf(key).off, ExtentOf(key).disk_size)
<1> DEFINE e == <<OffOf(idx, key), SizeOf(idx, key)>>
<1>1. key \in SettledIn(idx, gone) /\ MayAddTo(mem.fb)
  BY DEF MayUse, Known, Before, Bounded, SettledIn, MayAddTo
<1>2. MemOK(mem, HeldBy(idx, SettledIn(idx, gone))) /\ e \in HeldBy(idx, SettledIn(idx, gone))
  BY <1>1 DEF Before, DatabaseOK, HeldBy
<1>3. HeldBy(idx, SettledIn(idx, gone)) \ {e} = Rest(key)
  <2>1. \A k \in SettledIn(idx, gone) : OffOf(idx, k) = OffOf(idx, key) => k = key
    BY <1>1 DEF Before, DatabaseOK
  <2>2. QED BY <1>1, <2>1 DEF HeldBy, Rest
<1>4. e[1] = ExtentOf(key).off /\ e[2] = ExtentOf(key).disk_size
  BY DEF OffOf, SizeOf, ExtentOf
<1> HIDE DEF e
<1>5. Freeable(mem, HeldBy(idx, SettledIn(idx, gone)) \ {e}, e[1], e[2])
  BY <1>1, <1>2, UsedFreeable
<1>6. QED BY <1>1, <1>3, <1>4, <1>5

LEMMA ReleasedGood ==
  ASSUME Before, NEW key \in Keys, MayUse(key), Known(key) => MayAdd(mem.fb), NEW m \in Released(key)
  PROVE  MemOK(m, Rest(key)) /\ m.pool = mem.pool
<1>1. CASE Known(key)
  <2>1. PICK rp, rn : m = Free(mem, ExtentOf(key).off, ExtentOf(key).disk_size, rp, rn)
    BY <1>1 DEF Released
  <2>2. Freeable(mem, Rest(key), ExtentOf(key).off, ExtentOf(key).disk_size)
    BY <1>1, HeldFreeable
  <2>3. QED BY <2>1, <2>2, FreeGood
<1>2. CASE ~ Known(key)
  BY <1>2, RestGood DEF Released
<1>3. QED BY <1>1, <1>2

LEMMA OfferedGood ==
  ASSUME Before, NEW key \in Keys, NEW value \in Values, NeedsExtent(key, value),
         NEW m \in Offers(key, value)
  PROVE  /\ MemOK(m, Rest(key)) /\ Fits(m, AlignedSize(value)) # {}
         /\ m.pool \in Nat /\ mem.pool <= m.pool
<1> DEFINE r == AlignedSize(value)
<1>1. r \in Nat \ {0}
  BY AlignedHolds
<1>2. PICK released \in Released(key) : m \in Offering(released, r)
  BY DEF Offers
<1> HIDE DEF r
<1>3. MemOK(released, Rest(key)) /\ released.pool = mem.pool /\ mem.pool \in Nat \ {0}
  BY <1>2, ReleasedGood, RestGood DEF NeedsExtent
<1>4. CASE Fits(released, r) # {}
  BY <1>2, <1>3, <1>4 DEF Offering, r
<1>5. CASE Fits(released, r) = {}
  <2>1. MayAddTo(released.fb)
    BY <1>2, <1>5 DEF Offering, MayAddTo, Before, Bounded
  <2>2. PICK rp, rn : m = Grow(released, PoolFor(released, r), rp, rn)
    BY <1>2, <1>5 DEF Offering
  <2>3. /\ PoolFor(released, r) \in Nat /\ PoolFor(released, r) > released.pool
        /\ MemOK(m, Rest(key)) /\ m.pool = PoolFor(released, r) /\ Fits(m, r) # {}
    BY <1>1, <1>3, <2>1, <2>2, GrowGood
  <2>4. QED BY <1>3, <2>3 DEF r
<1>6. QED BY <1>4, <1>5

\* A Put of value to key takes block e of manager m, as extent x.
Takes(key, value, m, e, x) ==
  /\ NeedsExtent(key, value) /\ m \in Offers(key, value)
  /\ e = BestFit(m, AlignedSize(value)) /\ IsBlock(m, e)
  /\ x = NewExtent(value, e)

\* Extent x is inside the pool and apart from the extents of the settled keys but key.
Beside(key, x, pool) ==
  /\ x \in ExtentType
  /\ x.off + x.disk_size <= pool
  /\ \A k \in SettledIn(idx, gone) \ {key} :
       /\ OffOf(idx, k) # x.off
       /\ OffOf(idx, k) + SizeOf(idx, k) <= x.off \/ x.off + x.disk_size <= OffOf(idx, k)

LEMMA TakesFacts ==
  ASSUME NEW key, NEW value, NEW m, NEW e, NEW x, Takes(key, value, m, e, x)
  PROVE  /\ NeedsExtent(key, value) /\ m \in Offers(key, value)
         /\ e = BestFit(m, AlignedSize(value)) /\ IsBlock(m, e)
         /\ x = [off |-> e.offset, value_size |-> Len(value),
                 disk_size |-> RspSize(e, AlignedSize(value))]
         /\ x.off = e.offset /\ x.value_size = Len(value)
BY DEF Takes, NewExtent

\* The extent x a Put gets: inside the pool, long enough, and apart from the others;
\* and what the manager is once it is taken, or opens as after a kill.
TakenWell(key, value, m, e, x) ==
  LET taken == TakeBlock(m, e, AlignedSize(value))
      all == Rest(key) \cup {<<x.off, x.disk_size>>}
  IN  /\ Beside(key, x, m.pool) /\ x.off = e.offset /\ x.value_size = Len(value)
      /\ KeySize + Len(value) <= x.disk_size
      /\ MemOK(taken, all) /\ taken.pool = m.pool
      /\ MemOK(OpenMemory(taken.fb, m.pool), all)
      /\ \A file \in TakeCuts(m, e, AlignedSize(value)) :
           (file \in {m.fb, taken.fb} \/ ~ Splits(e, AlignedSize(value))) =>
              MemOK(OpenMemory(file, m.pool), Rest(key))

LEMMA TakenGood ==
  ASSUME Before, NEW key \in Keys, NEW value \in Values, NEW m, NEW e, NEW x,
         Takes(key, value, m, e, x)
  PROVE  TakenWell(key, value, m, e, x)
<1> DEFINE r == AlignedSize(value)
           size == RspSize(e, r)
           taken == TakeBlock(m, e, r)
<1>1. r \in Nat \ {0} /\ r >= KeySize + Len(value) /\ Len(value) \in Nat /\ KeySize \in Nat
  BY AlignedHolds, ValueTyped, EntdbAssumption
<1>2. MemOK(m, Rest(key)) /\ Fits(m, r) # {} /\ m.pool \in Nat
  BY OfferedGood, TakesFacts
<1>3. e = BestFit(m, r) /\ IsBlock(m, e)
  BY TakesFacts
<1>4. x = [off |-> e.offset, value_size |-> Len(value), disk_size |-> size]
  BY TakesFacts
<1> HIDE DEF r
<1>5. /\ e.offset \in Nat /\ size \in Nat \ {0} /\ size >= r
      /\ e.offset + size <= m.pool /\ taken.pool = m.pool
      /\ \A f \in Rest(key) : e.offset # f[1] /\ Disjoint(<<e.offset, size>>, f)
      /\ MemOK(taken, Rest(key) \cup {<<e.offset, size>>})
      /\ MemOK(OpenMemory(taken.fb, m.pool), Rest(key) \cup {<<e.offset, size>>})
      /\ \A file \in TakeCuts(m, e, r) :
           (file \in {m.fb, taken.fb} \/ ~ Splits(e, r)) => MemOK(OpenMemory(file, m.pool), Rest(key))
  <2>1. size = RspSize(e, r)
    OBVIOUS
  <2> HIDE DEF size
  <2>2. TakenFrom(m, Rest(key), r, e, size)
    BY <1>1, <1>2, <1>3, <2>1, TakeMem
  <2>3. QED BY <2>2 DEF TakenFrom
<1> HIDE DEF size, taken
<1>6. /\ x.off = e.offset /\ x.disk_size = size /\ x.value_size = Len(value)
      /\ x \in ExtentType
  BY <1>1, <1>4, <1>5 DEF ExtentType
<1>7. ASSUME NEW k \in SettledIn(idx, gone) \ {key}
      PROVE  /\ OffOf(idx, k) # x.off
             /\ \/ OffOf(idx, k) + SizeOf(idx, k) <= x.off
                \/ x.off + x.disk_size <= OffOf(idx, k)
  <2> DEFINE f == <<OffOf(idx, k), SizeOf(idx, k)>>
  <2>1. f \in Rest(key) /\ f[1] = OffOf(idx, k) /\ f[2] = SizeOf(idx, k)
    BY DEF Rest, HeldBy
  <2> HIDE DEF f
  <2>2. QED BY <1>5, <1>6, <2>1 DEF Disjoint
<1>8. KeySize + Len(value) <= x.disk_size /\ Beside(key, x, m.pool)
  BY <1>1, <1>5, <1>6, <1>7 DEF Beside
<1>9. QED BY <1>5, <1>6, <1>8 DEF TakenWell, taken, r

-----------------------------------------------------------------------------
(* What every step does.                                                   *)

\* The bytes of the other settled keys are in the pool.
LEMMA RestBytes ==
  ASSUME Before, NEW key, NEW k \in SettledIn(idx, gone) \ {key},
         NEW p \in OffOf(idx, k) .. OffOf(idx, k) + SizeOf(idx, k) - 1
  PROVE  p \in DOMAIN data
<1>1. /\ IndexOK(idx) /\ MemOK(mem, HeldBy(idx, SettledIn(idx, gone)))
      /\ k \in SettledIn(idx, gone) /\ DOMAIN data = 0 .. mem.pool - 1 /\ mem.pool \in Nat
  BY RestGood DEF Before, DatabaseOK
<1>2. /\ OffOf(idx, k) \in Nat /\ SizeOf(idx, k) \in Nat \ {0}
      /\ OffOf(idx, k) + SizeOf(idx, k) <= mem.pool
  BY <1>1, SettledBounds
<1>3. QED BY <1>1, <1>2

\* Bytes of the other settled keys that are in bytes what they are in the pool.
KeepsBytes(key, bytes) ==
  \A k \in SettledIn(idx, gone) \ {key} :
    \A p \in OffOf(idx, k) .. OffOf(idx, k) + SizeOf(idx, k) - 1 : bytes[p] = data[p]

LEMMA ResizedGood ==
  ASSUME Before, NEW key, NEW larger \in Nat, mem.pool <= larger
  PROVE  /\ DOMAIN Resized(data, larger) = 0 .. larger - 1
         /\ KeepsBytes(key, Resized(data, larger))
<1>1. mem.pool \in Nat /\ DOMAIN data = 0 .. mem.pool - 1
  BY RestGood
<1>2. QED BY <1>1, ResizedKeeps, RestBytes DEF KeepsBytes

\* What is written inside an extent apart from theirs leaves them alone.
LEMMA WrittenApart ==
  ASSUME Before, NEW key, NEW bytes, KeepsBytes(key, bytes), NEW after, DOMAIN data \subseteq DOMAIN bytes,
         NEW off \in Nat, NEW size \in Nat,
         \A k \in SettledIn(idx, gone) \ {key} :
           OffOf(idx, k) + SizeOf(idx, k) <= off \/ off + size <= OffOf(idx, k),
         NEW n \in Nat, NEW from \in Nat, off <= from, from + n <= off + size,
         \A p \in DOMAIN bytes : p < from \/ from + n <= p => after[p] = bytes[p]
  PROVE  KeepsBytes(key, after)
<1>1. SUFFICES ASSUME NEW k \in SettledIn(idx, gone) \ {key},
                      NEW p \in OffOf(idx, k) .. OffOf(idx, k) + SizeOf(idx, k) - 1
               PROVE  after[p] = data[p]
  BY DEF KeepsBytes
<1>2. p \in DOMAIN bytes /\ bytes[p] = data[p]
  BY <1>1, RestBytes DEF KeepsBytes
<1>3. OffOf(idx, k) \in Nat /\ SizeOf(idx, k) \in Nat
  <2>1. IndexOK(idx) /\ MemOK(mem, HeldBy(idx, SettledIn(idx, gone))) /\ k \in SettledIn(idx, gone)
    BY <1>1 DEF Before, DatabaseOK
  <2>2. QED BY <2>1, SettledBounds
<1>4. OffOf(idx, k) + SizeOf(idx, k) <= off \/ off + size <= OffOf(idx, k)
  BY <1>1
<1>5. p < from \/ from + n <= p
  BY <1>1, <1>3, <1>4
<1>6. QED BY <1>2, <1>5

\* A step that concerns one key leaves a good database: it keeps the records of the
\* others and their bytes, and either the key is not settled afterwards or its extent
\* is one more that is in use.
LEMMA StepGood ==
  ASSUME Before, DOMAIN said \subseteq Keys, NEW key,
         IndexOK(idx'), Keeps(idx, idx', {key, EmptyKey, TornKey}),
         gone \subseteq gone', gone' \subseteq gone \cup {key}, gone' \subseteq DOMAIN idx'.index_,
         MemOK(mem', Rest(key)),
         key \in SettledIn(idx', gone') =>
           /\ MemOK(mem', Rest(key) \cup {<<OffOf(idx', key), SizeOf(idx', key)>>})
           /\ \A k \in SettledIn(idx, gone) \ {key} : OffOf(idx, k) # OffOf(idx', key)
           /\ Roomy(idx', key),
         DOMAIN data' = 0 .. mem'.pool - 1, KeepsBytes(key, data'),
         \A k \in DOMAIN said' \ {key} : k \in DOMAIN said /\ said'[k] = said[k],
         key \in DOMAIN said' \ gone' =>
           key \in DOMAIN idx'.index_ /\ ReadsAs(idx', data', key, said'[key])
  PROVE  DatabaseOK(idx', mem', data', said', gone')
<1> DEFINE old == SettledIn(idx, gone)
           new == SettledIn(idx', gone')
           rest == old \ {key}
<1>0. /\ IndexOK(idx) /\ MemOK(mem, HeldBy(idx, old))
      /\ \A j, k \in old : OffOf(idx, j) = OffOf(idx, k) => j = k
      /\ \A k \in old : Roomy(idx, k)
      /\ \A k \in DOMAIN said \ gone : k \in DOMAIN idx.index_ /\ ReadsAs(idx, data, k, said[k])
  BY DEF Before, DatabaseOK
<1>1. /\ {EmptyKey, TornKey} \cap Keys = {} /\ KeySize \in Nat \ {0}
  BY EntdbAssumption
<1>2. new \ {key} = rest
  BY <1>1 DEF SettledIn, Keeps, DatabaseOK
<1>3. ASSUME NEW k \in rest
      PROVE  OffOf(idx', k) = OffOf(idx, k) /\ SizeOf(idx', k) = SizeOf(idx, k)
             /\ LengthOf(idx', k) = LengthOf(idx, k)
  <2>1. idx'.index_[k] = idx.index_[k]
    BY DEF SettledIn, Keeps
  <2>2. QED BY <2>1 DEF OffOf, SizeOf, LengthOf
<1>4. HeldBy(idx', rest) = HeldBy(idx, rest)
  BY <1>3 DEF HeldBy
<1>5. MemOK(mem', HeldBy(idx', new))
  <2>1. CASE key \in new
    <3>1. HeldBy(idx', new) = HeldBy(idx', rest) \cup {<<OffOf(idx', key), SizeOf(idx', key)>>}
      BY <1>2, <2>1 DEF HeldBy
    <3>2. QED BY <1>4, <2>1, <3>1 DEF Rest
  <2>2. CASE key \notin new
    BY <1>2, <1>4, <2>2 DEF Rest
  <2>3. QED BY <2>1, <2>2
<1>6. \A j, k \in new : OffOf(idx', j) = OffOf(idx', k) => j = k
  <2>1. \A j, k \in rest : OffOf(idx, j) = OffOf(idx, k) => j = k
    BY <1>0
  <2>2. QED BY <1>2, <1>3, <2>1
<1>7. \A k \in new : Roomy(idx', k)
  <2>1. \A k \in rest : Roomy(idx, k)
    BY <1>0
  <2>2. QED BY <1>2, <1>3, <2>1 DEF Roomy
<1>8. ASSUME NEW k \in DOMAIN said' \ gone'
      PROVE  k \in DOMAIN idx'.index_ /\ ReadsAs(idx', data', k, said'[k])
  <2>1. CASE k = key
    BY <2>1
  <2>2. CASE k # key
    <3>1. k \in DOMAIN said \ gone /\ said'[k] = said[k]
      BY <2>2
    <3>2. k \in DOMAIN idx.index_ /\ ReadsAs(idx, data, k, said'[k])
      BY <1>0, <3>1
    <3>3. k \in rest
      BY <2>2, <3>1, <3>2 DEF SettledIn
    <3>4. /\ OffOf(idx, k) \in Nat /\ SizeOf(idx, k) \in Nat /\ LengthOf(idx, k) \in Nat
          /\ Roomy(idx, k)
      BY <1>0, <3>3, SettledBounds
    <3>5. ReadsAs(idx, data', k, said'[k])
      <4>1. SUFFICES ASSUME NEW i \in 1 .. Len(said'[k]), i <= LengthOf(idx, k)
                     PROVE  data'[OffOf(idx, k) + KeySize + i - 1] = said'[k][i]
        BY DEF ReadsAs
      <4>2. data[OffOf(idx, k) + KeySize + i - 1] = said'[k][i]
        BY <3>2, <4>1 DEF ReadsAs
      <4> DEFINE p == OffOf(idx, k) + KeySize + i - 1
      <4>3. p \in OffOf(idx, k) .. OffOf(idx, k) + SizeOf(idx, k) - 1
        BY <1>1, <3>4, <4>1 DEF Roomy
      <4>4. QED BY <3>3, <4>2, <4>3 DEF KeepsBytes
    <3>6. k \in DOMAIN idx'.index_
      BY <3>2 DEF Keeps
    <3>7. QED BY <1>3, <3>3, <3>5, <3>6 DEF ReadsAs
  <2>3. QED BY <2>1, <2>2
<1>9. QED BY <1>5, <1>6, <1>7, <1>8 DEF DatabaseOK

LEMMA KeepsMore ==
  ASSUME NEW x, NEW z, NEW key, Keeps(x, z, {key}) \/ Keeps(x, z, {})
  PROVE  Keeps(x, z, {key, EmptyKey, TornKey})
BY DEF Keeps

LEMMA KeepsSelf == \A x, names : Keeps(x, x, names)
BY DEF Keeps

LEMMA Unsaid ==
  ASSUME NEW key
  PROVE  /\ DOMAIN Unbind(said, key) = DOMAIN said \ {key}
         /\ \A k \in DOMAIN Unbind(said, key) : Unbind(said, key)[k] = said[k]
BY DEF Unbind

After == DatabaseOK(idx', mem', data', said', gone')

\* The key of a step that writes a value over the old one, or stops while it does.
LEMMA InPlaceGood ==
  ASSUME Before, DOMAIN said \subseteq Keys, NEW key \in Keys, NEW value \in Values,
         MayUse(key), FitsInPlace(key, value)
  PROVE  /\ key \in SettledIn(idx, gone)
         /\ MemOK(mem, Rest(key) \cup {<<OffOf(idx, key), SizeOf(idx, key)>>})
         /\ \A k \in SettledIn(idx, gone) \ {key} :
              /\ OffOf(idx, k) # OffOf(idx, key)
              /\ \/ OffOf(idx, k) + SizeOf(idx, k) <= OffOf(idx, key)
                 \/ OffOf(idx, key) + SizeOf(idx, key) <= OffOf(idx, k)
         /\ Roomy(idx, key)
         /\ OffOf(idx, key) \in Nat /\ SizeOf(idx, key) \in Nat
         /\ KeySize + Len(value) <= SizeOf(idx, key)
         /\ OffOf(idx, key) + SizeOf(idx, key) <= mem.pool
<1> DEFINE old == SettledIn(idx, gone)
           e == <<OffOf(idx, key), SizeOf(idx, key)>>
<1>1. key \in old
  BY DEF MayUse, FitsInPlace, Known, Before, Bounded, SettledIn
<1>2. /\ IndexOK(idx) /\ MemOK(mem, HeldBy(idx, old)) /\ Roomy(idx, key)
      /\ \A k \in old : OffOf(idx, key) = OffOf(idx, k) => key = k
  BY <1>1 DEF Before, DatabaseOK
<1>3. HeldBy(idx, old) = Rest(key) \cup {e}
  BY <1>1 DEF HeldBy, Rest
<1>4. /\ OffOf(idx, key) \in Nat /\ SizeOf(idx, key) \in Nat
      /\ OffOf(idx, key) + SizeOf(idx, key) <= mem.pool
  BY <1>1, <1>2, SettledBounds
<1>5. ASSUME NEW k \in old \ {key}
      PROVE  /\ OffOf(idx, k) # OffOf(idx, key)
             /\ \/ OffOf(idx, k) + SizeOf(idx, k) <= OffOf(idx, key)
                \/ OffOf(idx, key) + SizeOf(idx, key) <= OffOf(idx, k)
  <2> DEFINE f == <<OffOf(idx, k), SizeOf(idx, k)>>
  <2>1. OffOf(idx, k) # OffOf(idx, key)
    BY <1>2
  <2>2. e \in HeldBy(idx, old) /\ f \in HeldBy(idx, old) /\ e # f
    BY <1>1, <2>1 DEF HeldBy
  <2>3. Disjoint(e, f)
    BY <1>2, <2>2 DEF MemOK, Sep
  <2>4. QED BY <2>1, <2>3 DEF Disjoint
<1>6. SizeOf(idx, key) >= AlignedSize(value) /\ AlignedSize(value) >= KeySize + Len(value)
      /\ AlignedSize(value) \in Nat /\ KeySize + Len(value) \in Nat
  BY AlignedHolds, ValueTyped, EntdbAssumption DEF FitsInPlace, ExtentOf, SizeOf
<1>7. KeySize + Len(value) <= SizeOf(idx, key)
  BY <1>4, <1>6
<1>8. QED BY <1>1, <1>2, <1>3, <1>4, <1>5, <1>7

LEMMA PutInPlaceGood ==
  ASSUME Before, DOMAIN said \subseteq Keys, NEW key \in Keys, NEW value \in Values,
         PutInPlace(key, value)
  PROVE  After
<1> DEFINE off == OffOf(idx, key)
           size == SizeOf(idx, key)
           from == off + KeySize
           n == Len(value)
<1>1. /\ idx' = idx /\ mem' = mem /\ gone' = gone /\ said' = Bind(said, key, value)
      /\ data' = Write(data, from, value)
  BY DEF PutInPlace, ExtentOf, OffOf
<1>2. /\ key \in SettledIn(idx, gone)
      /\ MemOK(mem, Rest(key) \cup {<<off, size>>})
      /\ \A k \in SettledIn(idx, gone) \ {key} :
           /\ OffOf(idx, k) # off
           /\ OffOf(idx, k) + SizeOf(idx, k) <= off \/ off + size <= OffOf(idx, k)
      /\ Roomy(idx, key)
      /\ off \in Nat /\ size \in Nat /\ KeySize + n <= size /\ off + size <= mem.pool
  BY InPlaceGood DEF PutInPlace
<1>3. n \in Nat /\ KeySize \in Nat
  BY ValueTyped, EntdbAssumption
<1>4. from \in Nat /\ off <= from /\ from + n <= off + size
  BY <1>2, <1>3
<1>5. DOMAIN data = 0 .. mem.pool - 1 /\ mem.pool \in Nat
  BY RestGood
<1> HIDE DEF off, size, from, n
<1>6. /\ DOMAIN data' = DOMAIN data
      /\ \A p \in DOMAIN data : p < from \/ from + n <= p => data'[p] = data[p]
      /\ \A i \in 1 .. n : from + i - 1 \in DOMAIN data => data'[from + i - 1] = value[i]
  <2>1. DOMAIN data \subseteq Nat /\ Len(value) = n
    BY <1>5 DEF n
  <2>2. from \in Nat /\ n \in Nat /\ data' = Write(data, from, value)
    BY <1>1, <1>3, <1>4
  <2>3. QED BY <2>1, <2>2, WriteKeeps
<1>7. KeepsBytes(key, data')
  <2>1. KeepsBytes(key, data)
    BY DEF KeepsBytes
  <2>2. QED BY <1>2, <1>3, <1>4, <1>6, <2>1, WrittenApart
<1>8. ReadsAs(idx', data', key, said'[key])
  <2>1. said'[key] = value
    BY <1>1 DEF Bind
  <2>2. \A i \in 1 .. n : from + i - 1 \in DOMAIN data
    BY <1>2, <1>3, <1>4, <1>5
  <2>3. QED BY <1>1, <1>6, <2>1, <2>2 DEF ReadsAs, n, from, off
<1>9. \A k \in DOMAIN said' \ {key} : k \in DOMAIN said /\ said'[k] = said[k]
  BY <1>1 DEF Bind
<1>10. /\ IndexOK(idx') /\ gone \subseteq gone' /\ gone' \subseteq gone \cup {key}
       /\ gone' \subseteq DOMAIN idx'.index_ /\ key \in DOMAIN idx'.index_
  BY <1>1, <1>2 DEF Before, DatabaseOK, SettledIn
<1>11. Keeps(idx, idx', {key, EmptyKey, TornKey})
  BY <1>1, KeepsSelf
<1>12. MemOK(mem', Rest(key)) /\ DOMAIN data' = 0 .. mem'.pool - 1
  BY <1>1, <1>5, <1>6, RestGood
<1>13. QED BY <1>1, <1>2, <1>7, <1>8, <1>9, <1>10, <1>11, <1>12, StepGood DEF After, off, size

\* A step after which the key has no value and its extent, if it had one, is free.
LEMMA LostGood ==
  ASSUME Before, DOMAIN said \subseteq Keys, NEW key,
         IndexOK(idx'), Keeps(idx, idx', {key, EmptyKey, TornKey}),
         gone' = (IF key \in DOMAIN idx'.index_ THEN gone \cup {key} ELSE gone),
         MemOK(mem', Rest(key)),
         DOMAIN data' = 0 .. mem'.pool - 1, KeepsBytes(key, data'),
         said' = Unbind(said, key)
  PROVE  After
<1>1. gone \subseteq gone' /\ gone' \subseteq gone \cup {key} /\ key \notin SettledIn(idx', gone')
  BY DEF SettledIn
<1>2. gone' \subseteq DOMAIN idx'.index_
  <2>1. gone \subseteq DOMAIN idx.index_
    BY DEF Before, DatabaseOK
  <2>2. QED BY <2>1 DEF Keeps
<1>3. key \notin DOMAIN said' /\ \A k \in DOMAIN said' \ {key} : k \in DOMAIN said /\ said'[k] = said[k]
  BY Unsaid
<1>4. QED BY <1>1, <1>2, <1>3, StepGood DEF After

\* A restart on the index as it is.
LEMMA IndexAsWas ==
  ASSUME Before, NEW key
  PROVE  LET x == I!OpenFile(idx)
         IN  IndexOK(x) /\ Keeps(idx, x, {key, EmptyKey, TornKey}) /\ DOMAIN x.index_ = DOMAIN idx.index_
<1>1. IndexOK(idx)
  BY DEF Before, DatabaseOK
<1>2. IndexOK(I!OpenFile(idx)) /\ Keeps(idx, I!OpenFile(idx), {})
  BY <1>1, IndexReopened
<1>3. QED BY <1>2 DEF Keeps

LEMMA DataAsWas ==
  ASSUME Before, NEW key
  PROVE  KeepsBytes(key, data) /\ DOMAIN data = 0 .. mem.pool - 1 /\ mem.pool \in Nat \ {0}
BY RestGood DEF KeepsBytes

LEMMA OpenedPool == \A file, pool : OpenMemory(file, pool).pool = pool
BY DEF OpenMemory

LEMMA DeleteGood ==
  ASSUME Before, DOMAIN said \subseteq Keys, NEW key \in Keys, Delete(key)
  PROVE  After
<1>1. MemOK(mem', Rest(key)) /\ mem'.pool = mem.pool
  BY ReleasedGood DEF Delete
<1>2. /\ idx' = idx /\ data' = data /\ said' = Unbind(said, key)
      /\ gone' = gone \cup {key} /\ key \in DOMAIN idx.index_
  BY DEF Delete, Known
<1>3. IndexOK(idx') /\ Keeps(idx, idx', {key, EmptyKey, TornKey})
  BY <1>2, KeepsSelf DEF Before, DatabaseOK
<1>4. DOMAIN data' = 0 .. mem'.pool - 1 /\ KeepsBytes(key, data')
  BY <1>1, <1>2, DataAsWas
<1>5. QED BY <1>1, <1>2, <1>3, <1>4, LostGood

LEMMA ReopenKeeps ==
  ASSUME Before, DOMAIN said \subseteq Keys, Reopen
  PROVE  After
<1>1. /\ mem' = OpenMemory(mem.fb, mem.pool) /\ idx' = I!OpenFile(idx)
      /\ data' = data /\ said' = said /\ gone' = gone
  BY DEF Reopen, Restart
<1>2. EmptyKey \notin Keys
  BY EntdbAssumption
<1>3. /\ IndexOK(idx') /\ Keeps(idx, idx', {EmptyKey, EmptyKey, TornKey})
      /\ DOMAIN idx'.index_ = DOMAIN idx.index_
  BY <1>1, IndexAsWas
<1>4. MemOK(mem', Rest(EmptyKey)) /\ mem'.pool = mem.pool
  BY <1>1, RestGood, ReopenGood, OpenedPool
<1>5. DOMAIN data' = 0 .. mem'.pool - 1 /\ KeepsBytes(EmptyKey, data')
  BY <1>1, <1>4, DataAsWas
<1>6. gone' \subseteq DOMAIN idx'.index_
  BY <1>1, <1>3 DEF Before, DatabaseOK
<1>7. EmptyKey \notin SettledIn(idx', gone') /\ EmptyKey \notin DOMAIN said'
  BY <1>1, <1>2 DEF SettledIn
<1>8. QED BY <1>1, <1>3, <1>4, <1>5, <1>6, <1>7, StepGood DEF After

LEMMA CrashInPlaceGood ==
  ASSUME Before, DOMAIN said \subseteq Keys, NEW key \in Keys, NEW value \in Values,
         CrashInPlace(key, value)
  PROVE  After
<1> DEFINE off == OffOf(idx, key)
           size == SizeOf(idx, key)
           from == off + KeySize
<1>1. /\ mem' = OpenMemory(mem.fb, mem.pool) /\ idx' = I!OpenFile(idx)
      /\ gone' = gone /\ said' = Unbind(said, key)
  BY DEF CrashInPlace, Restart
<1>2. PICK n \in 0 .. Len(value) : data' = Write(data, from, SubSeq(value, 1, n))
  BY DEF CrashInPlace, ExtentOf, OffOf
<1>3. /\ key \in SettledIn(idx, gone)
      /\ MemOK(mem, Rest(key) \cup {<<off, size>>})
      /\ \A k \in SettledIn(idx, gone) \ {key} :
           /\ OffOf(idx, k) # off
           /\ OffOf(idx, k) + SizeOf(idx, k) <= off \/ off + size <= OffOf(idx, k)
      /\ Roomy(idx, key)
      /\ off \in Nat /\ size \in Nat /\ KeySize + Len(value) <= size
  BY InPlaceGood DEF CrashInPlace
<1>4. n \in Nat /\ n <= Len(value) /\ KeySize \in Nat /\ Len(SubSeq(value, 1, n)) = n
      /\ Len(value) \in Nat
  BY ValueTyped, PartOf, EntdbAssumption
<1>5. from \in Nat /\ off <= from /\ from + n <= off + size
  BY <1>3, <1>4
<1>6. DOMAIN data \subseteq Nat /\ KeepsBytes(key, data) /\ DOMAIN data = 0 .. mem.pool - 1
  BY DataAsWas
<1> HIDE DEF off, size, from
<1>7. /\ DOMAIN data' = DOMAIN data
      /\ \A p \in DOMAIN data : p < from \/ from + n <= p => data'[p] = data[p]
  <2> DEFINE part == SubSeq(value, 1, n)
  <2>1. Len(part) = n /\ data' = Write(data, from, part)
    BY <1>2, <1>4
  <2>2. n \in Nat /\ from \in Nat /\ DOMAIN data \subseteq Nat
    BY <1>4, <1>5, <1>6
  <2> HIDE DEF part
  <2>3. QED BY <2>1, <2>2, WriteKeeps
<1>8. KeepsBytes(key, data')
  BY <1>3, <1>4, <1>5, <1>6, <1>7, WrittenApart
<1>9. /\ IndexOK(idx') /\ Keeps(idx, idx', {key, EmptyKey, TornKey})
      /\ DOMAIN idx'.index_ = DOMAIN idx.index_ /\ idx'.index_[key] = idx.index_[key]
  BY <1>1, <1>3, IndexAsWas DEF Keeps, SettledIn
<1>10. /\ MemOK(mem', Rest(key)) /\ MemOK(mem', Rest(key) \cup {<<off, size>>})
       /\ DOMAIN data' = 0 .. mem'.pool - 1
  BY <1>1, <1>3, <1>6, <1>7, RestGood, ReopenGood, OpenedPool
<1>11. OffOf(idx', key) = off /\ SizeOf(idx', key) = size /\ Roomy(idx', key)
  BY <1>3, <1>9 DEF Roomy, LengthOf, OffOf, SizeOf, off, size
<1>12. gone' \subseteq DOMAIN idx'.index_
  BY <1>1, <1>9 DEF Before, DatabaseOK
<1>13. key \notin DOMAIN said' /\ \A k \in DOMAIN said' \ {key} : k \in DOMAIN said /\ said'[k] = said[k]
  BY <1>1, Unsaid
<1>14. QED BY <1>1, <1>3, <1>8, <1>9, <1>10, <1>11, <1>12, <1>13, StepGood DEF After

LEMMA CrashInFreeGood ==
  ASSUME Before, DOMAIN said \subseteq Keys, NEW key \in Keys, CrashInFree(key)
  PROVE  After
<1>1. PICK blocks \in FreeCuts(mem.fb, ExtentOf(key).off, ExtentOf(key).disk_size) :
             mem' = OpenMemory(blocks, mem.pool)
  BY DEF CrashInFree, Restart
<1>2. /\ idx' = I!OpenFile(idx) /\ data' = data /\ said' = Unbind(said, key)
      /\ gone' = gone \cup {key} /\ key \in DOMAIN idx.index_
  BY DEF CrashInFree, Restart, Known
<1>3. Freeable(mem, Rest(key), ExtentOf(key).off, ExtentOf(key).disk_size)
  BY HeldFreeable DEF CrashInFree
<1>4. MemOK(mem', Rest(key)) /\ mem'.pool = mem.pool
  BY <1>1, <1>3, FreeCutsMem, OpenedPool
<1>5. /\ IndexOK(idx') /\ Keeps(idx, idx', {key, EmptyKey, TornKey})
      /\ DOMAIN idx'.index_ = DOMAIN idx.index_
  BY <1>2, IndexAsWas
<1>6. DOMAIN data' = 0 .. mem'.pool - 1 /\ KeepsBytes(key, data')
  BY <1>2, <1>4, DataAsWas
<1>7. QED BY <1>2, <1>4, <1>5, <1>6, LostGood

LEMMA CrashInGrowGood ==
  ASSUME Before, DOMAIN said \subseteq Keys, NEW key \in Keys, NEW value \in Values,
         CrashInGrow(key, value)
  PROVE  After
<1> DEFINE r == AlignedSize(value)
<1>1. PICK m \in Released(key) :
        LET pool == PoolFor(m, r)
        IN  /\ Fits(m, r) = {} /\ pool <= MaxPool /\ MayAdd(m.fb)
            /\ \E blocks \in FreeCuts(m.fb, m.pool, pool - m.pool) : Restart(blocks, pool, idx)
            /\ data' = Resized(data, pool)
  BY DEF CrashInGrow
<1> DEFINE pool == PoolFor(m, r)
<1>2. PICK blocks \in FreeCuts(m.fb, m.pool, pool - m.pool) : Restart(blocks, pool, idx)
  BY <1>1
<1>3. /\ mem' = OpenMemory(blocks, pool) /\ idx' = I!OpenFile(idx)
      /\ data' = Resized(data, pool) /\ said' = Unbind(said, key)
      /\ gone' = IF Known(key) THEN gone \cup {key} ELSE gone
  BY <1>1, <1>2 DEF CrashInGrow, Restart, Abandoned
<1>4. MemOK(m, Rest(key)) /\ m.pool = mem.pool /\ mem.pool \in Nat \ {0}
  BY ReleasedGood, RestGood DEF CrashInGrow, NeedsExtent
<1>5. MayAddTo(m.fb) /\ r \in Nat \ {0}
  BY <1>1, AlignedHolds DEF MayAddTo, Before, Bounded
<1> HIDE DEF r
<1>6. pool \in Nat /\ pool > m.pool /\ MemOK(OpenMemory(blocks, pool), Rest(key))
  BY <1>2, <1>4, <1>5, GrowGood
<1> HIDE DEF pool
<1>7. MemOK(mem', Rest(key)) /\ mem'.pool = pool
  BY <1>3, <1>6, OpenedPool
<1>8. mem.pool <= pool
  BY <1>4, <1>6
<1>9. DOMAIN data' = 0 .. mem'.pool - 1 /\ KeepsBytes(key, data')
  BY <1>3, <1>6, <1>7, <1>8, ResizedGood
<1>10. /\ IndexOK(idx') /\ Keeps(idx, idx', {key, EmptyKey, TornKey})
       /\ DOMAIN idx'.index_ = DOMAIN idx.index_
  BY <1>3, IndexAsWas
<1>11. QED BY <1>3, <1>7, <1>9, <1>10, LostGood DEF Known

LEMMA CrashInTakeGood ==
  ASSUME Before, DOMAIN said \subseteq Keys, NEW key \in Keys, NEW value \in Values,
         CrashInTake(key, value), sound'
  PROVE  After
<1> DEFINE r == AlignedSize(value)
<1>1. PICK m \in Offers(key, value) :
        LET e == BestFit(m, r)
        IN  /\ \E blocks \in TakeCuts(m, e, r) :
                 /\ Restart(blocks, m.pool, idx)
                 /\ sound' = /\ sound
                             /\ IsBlock(m, e)
                             /\ blocks \in {m.fb, TakeBlock(m, e, r).fb} \/ ~ Splits(e, r)
            /\ data' = Resized(data, m.pool)
  BY DEF CrashInTake
<1> DEFINE e == BestFit(m, r)
           x == NewExtent(value, e)
<1>2. PICK blocks \in TakeCuts(m, e, r) :
        /\ Restart(blocks, m.pool, idx) /\ IsBlock(m, e)
        /\ blocks \in {m.fb, TakeBlock(m, e, r).fb} \/ ~ Splits(e, r)
  BY <1>1
<1>3. /\ mem' = OpenMemory(blocks, m.pool) /\ idx' = I!OpenFile(idx)
      /\ data' = Resized(data, m.pool) /\ said' = Unbind(said, key)
      /\ gone' = IF Known(key) THEN gone \cup {key} ELSE gone
  BY <1>1, <1>2 DEF CrashInTake, Restart, Abandoned
<1>4. NeedsExtent(key, value)
  BY DEF CrashInTake
<1>5. m.pool \in Nat /\ mem.pool <= m.pool
  BY <1>4, OfferedGood
<1>6. MemOK(OpenMemory(blocks, m.pool), Rest(key))
  <2>1. Takes(key, value, m, e, x)
    BY <1>2, <1>4 DEF Takes
  <2> HIDE DEF e, x
  <2>2. TakenWell(key, value, m, e, x)
    BY <2>1, TakenGood
  <2>3. QED BY <1>2, <2>2 DEF TakenWell, r
<1>7. MemOK(mem', Rest(key)) /\ mem'.pool = m.pool
  BY <1>3, <1>6, OpenedPool
<1>8. DOMAIN data' = 0 .. mem'.pool - 1 /\ KeepsBytes(key, data')
  BY <1>3, <1>5, <1>7, ResizedGood
<1>9. /\ IndexOK(idx') /\ Keeps(idx, idx', {key, EmptyKey, TornKey})
      /\ DOMAIN idx'.index_ = DOMAIN idx.index_
  BY <1>3, IndexAsWas
<1>10. QED BY <1>3, <1>7, <1>8, <1>9, LostGood DEF Known

LEMMA PutUnallocatedGood ==
  ASSUME Before, DOMAIN said \subseteq Keys, NEW key \in Keys, NEW value \in Values,
         PutUnallocated(key, value)
  PROVE  After
<1> DEFINE X0(garbage) == [off |-> garbage, value_size |-> Len(value), disk_size |-> AlignedSize(value)]
<1>1. PICK m \in Released(key), garbage \in Garbage :
        Restart(m.fb, m.pool, I!Put(idx, key, X0(garbage)))
  BY DEF PutUnallocated
<1> DEFINE x == X0(garbage)
           z == I!Put(idx, key, x)
<1>2. x \in ExtentType
  <2>1. garbage \in Nat /\ Len(value) \in Nat /\ AlignedSize(value) \in Nat
    BY ValueTyped, AlignedHolds, EntdbAssumption
  <2>2. QED BY <2>1 DEF ExtentType
<1>3. /\ mem' = OpenMemory(m.fb, m.pool) /\ idx' = I!OpenFile(z) /\ data' = data
      /\ said' = Unbind(said, key) /\ gone' = gone \cup {key} /\ I!PutDefined(idx, key)
      /\ NeedsExtent(key, value)
  BY <1>1 DEF PutUnallocated, Restart, MayIndex
<1> HIDE DEF x
<1>4. IndexOK(z) /\ Keeps(idx, z, {key}) /\ key \in DOMAIN z.index_
  BY <1>2, <1>3, IndexPut DEF Before, DatabaseOK
<1> HIDE DEF z
<1>5. IndexOK(idx') /\ Keeps(z, idx', {})
  BY <1>3, <1>4, IndexReopened
<1>6. Keeps(idx, idx', {key, EmptyKey, TornKey}) /\ key \in DOMAIN idx'.index_
  BY <1>4, <1>5 DEF Keeps
<1>7. MemOK(m, Rest(key)) /\ m.pool = mem.pool
  BY <1>3, ReleasedGood DEF NeedsExtent
<1>8. MemOK(mem', Rest(key)) /\ mem'.pool = mem.pool
  BY <1>3, <1>7, ReopenGood, OpenedPool
<1>9. DOMAIN data' = 0 .. mem'.pool - 1 /\ KeepsBytes(key, data')
  BY <1>3, <1>8, DataAsWas
<1>10. QED BY <1>3, <1>5, <1>6, <1>8, <1>9, LostGood

\* A step of a Put that took extent x: if the key is settled afterwards, its record is of x.
LEMMA TookGood ==
  ASSUME Before, DOMAIN said \subseteq Keys, NEW key \in Keys, NEW value \in Values,
         NEW m, NEW e, NEW x, Takes(key, value, m, e, x),
         IndexOK(idx'), Keeps(idx, idx', {key, EmptyKey, TornKey}),
         gone \subseteq gone', gone' \subseteq gone \cup {key}, gone' \subseteq DOMAIN idx'.index_,
         key \in SettledIn(idx', gone') => idx'.index_[key].extent = x,
         \/ mem' = TakeBlock(m, e, AlignedSize(value))
         \/ mem' = OpenMemory(TakeBlock(m, e, AlignedSize(value)).fb, m.pool),
         DOMAIN data' = 0 .. m.pool - 1, KeepsBytes(key, data'),
         \A k \in DOMAIN said' \ {key} : k \in DOMAIN said /\ said'[k] = said[k],
         key \in DOMAIN said' \ gone' =>
           key \in DOMAIN idx'.index_ /\ ReadsAs(idx', data', key, said'[key])
  PROVE  After
<1> DEFINE taken == TakeBlock(m, e, AlignedSize(value))
           all == Rest(key) \cup {<<x.off, x.disk_size>>}
<1>1. /\ x.value_size = Len(value) /\ KeySize + Len(value) <= x.disk_size
      /\ Beside(key, x, m.pool)
      /\ MemOK(taken, all) /\ taken.pool = m.pool /\ MemOK(OpenMemory(taken.fb, m.pool), all)
  <2>1. TakenWell(key, value, m, e, x)
    BY TakenGood
  <2>2. QED BY <2>1 DEF TakenWell
<1>2. MemOK(mem', all) /\ mem'.pool = m.pool
  BY <1>1, OpenedPool
<1>3. MemOK(mem', Rest(key))
  BY <1>2, MemSub
<1>4. ASSUME key \in SettledIn(idx', gone')
      PROVE  OffOf(idx', key) = x.off /\ SizeOf(idx', key) = x.disk_size /\ Roomy(idx', key)
  BY <1>1, <1>4 DEF Roomy, OffOf, SizeOf, LengthOf
<1> HIDE DEF taken
<1>5. DOMAIN data' = 0 .. mem'.pool - 1
  BY <1>2
<1>6. key \in SettledIn(idx', gone') =>
        /\ MemOK(mem', Rest(key) \cup {<<OffOf(idx', key), SizeOf(idx', key)>>})
        /\ \A k \in SettledIn(idx, gone) \ {key} : OffOf(idx, k) # OffOf(idx', key)
        /\ Roomy(idx', key)
  BY <1>1, <1>2, <1>4 DEF Beside
<1>7. QED BY <1>3, <1>5, <1>6, StepGood DEF After

\* The record a Put makes of the extent, and that of a key it frees the extent of.
LEMMA RecordGood ==
  ASSUME Before, NEW key \in Keys, I!PutDefined(idx, key), NEW x \in ExtentType
  PROVE  LET z == I!Put(idx, key, x)
         IN  /\ IndexOK(z) /\ Keeps(idx, z, {key, EmptyKey, TornKey})
             /\ key \in DOMAIN z.index_
             /\ IndexOK(I!OpenFile(z)) /\ Keeps(idx, I!OpenFile(z), {key, EmptyKey, TornKey})
             /\ key \in DOMAIN I!OpenFile(z).index_
             /\ ~ Known(key) => z.index_[key].extent = x /\ I!OpenFile(z).index_[key].extent = x
<1> DEFINE z == I!Put(idx, key, x)
           o == I!OpenFile(z)
<1>1. /\ IndexOK(z) /\ Keeps(idx, z, {key}) /\ key \in DOMAIN z.index_
      /\ key \notin DOMAIN idx.index_ => z.index_[key].extent = x
  BY IndexPut DEF Before, DatabaseOK
<1> HIDE DEF z
<1>2. IndexOK(o) /\ Keeps(z, o, {})
  BY <1>1, IndexReopened
<1> HIDE DEF o
<1>3. Keeps(idx, z, {key, EmptyKey, TornKey}) /\ Keeps(idx, o, {key, EmptyKey, TornKey})
      /\ key \in DOMAIN o.index_ /\ o.index_[key] = z.index_[key]
  BY <1>1, <1>2 DEF Keeps
<1>4. QED BY <1>1, <1>2, <1>3 DEF z, o, Known

\* Put, or a kill in its writes: the key's record is made and its bytes written.
LEMMA GoneGood ==
  ASSUME Before, NEW key \in Keys, gone' = (IF Known(key) THEN gone \cup {key} ELSE gone),
         Keeps(idx, idx', {key, EmptyKey, TornKey}), key \in DOMAIN idx'.index_
  PROVE  /\ gone \subseteq gone' /\ gone' \subseteq gone \cup {key} /\ gone' \subseteq DOMAIN idx'.index_
         /\ key \notin gone' => ~ Known(key)
<1>1. gone \subseteq DOMAIN idx.index_
  BY DEF Before, DatabaseOK
<1>2. QED BY <1>1 DEF Keeps

LEMMA PutExtentGood ==
  ASSUME Before, DOMAIN said \subseteq Keys, NEW key \in Keys, NEW value \in Values,
         PutExtent(key, value), sound'
  PROVE  After
<1> DEFINE r == AlignedSize(value)
<1>1. PICK m \in Offers(key, value) :
        LET e == BestFit(m, r)
        IN  /\ mem' = TakeBlock(m, e, r)
            /\ idx' = I!Put(idx, key, NewExtent(value, e))
            /\ data' = WriteBoth(Resized(data, m.pool), e.offset, key, value)
            /\ sound' = (sound /\ IsBlock(m, e))
  BY DEF PutExtent
<1> DEFINE e == BestFit(m, r)
           x == NewExtent(value, e)
           bytes == Resized(data, m.pool)
           n == Len(value)
<1>2. /\ mem' = TakeBlock(m, e, r) /\ idx' = I!Put(idx, key, x) /\ IsBlock(m, e)
      /\ data' = WriteBoth(bytes, e.offset, key, value)
  BY <1>1
<1>3. /\ NeedsExtent(key, value) /\ I!PutDefined(idx, key) /\ said' = Bind(said, key, value)
      /\ gone' = IF Known(key) THEN gone \cup {key} ELSE gone
  BY DEF PutExtent, MayIndex
<1>4. m.pool \in Nat /\ mem.pool <= m.pool
  BY <1>3, OfferedGood
<1>5. Takes(key, value, m, e, x)
  BY <1>2, <1>3 DEF Takes
<1> HIDE DEF r, e, x
<1>6. /\ x \in ExtentType /\ x.off = e.offset /\ x.value_size = n
      /\ KeySize + n <= x.disk_size /\ x.off + x.disk_size <= m.pool
      /\ \A k \in SettledIn(idx, gone) \ {key} :
           OffOf(idx, k) + SizeOf(idx, k) <= x.off \/ x.off + x.disk_size <= OffOf(idx, k)
  <2>1. TakenWell(key, value, m, e, x)
    BY <1>5, TakenGood
  <2>2. QED BY <2>1 DEF TakenWell, Beside, n
<1>7. x.off \in Nat /\ x.disk_size \in Nat /\ n \in Nat /\ KeySize \in Nat
  BY <1>6, ValueTyped, EntdbAssumption DEF ExtentType
<1>8. DOMAIN bytes = 0 .. m.pool - 1 /\ KeepsBytes(key, bytes)
      /\ DOMAIN data = 0 .. mem.pool - 1 /\ mem.pool \in Nat
  BY <1>4, ResizedGood, DataAsWas
<1> HIDE DEF bytes, n
<1>9. /\ DOMAIN data' = DOMAIN bytes
      /\ \A p \in DOMAIN bytes : p < x.off \/ x.off + (KeySize + n) <= p => data'[p] = bytes[p]
      /\ \A i \in 1 .. n : data'[x.off + KeySize + i - 1] = value[i]
  <2>1. x.off .. x.off + KeySize + Len(value) - 1 \subseteq DOMAIN bytes /\ DOMAIN bytes \subseteq Nat
    <3>1. x.off + KeySize + n <= m.pool /\ m.pool \in Nat
      BY <1>4, <1>6, <1>7
    <3>2. Len(value) = n
      BY DEF n
    <3>3. \A p \in x.off .. x.off + KeySize + Len(value) - 1 : p \in 0 .. m.pool - 1
      BY <1>7, <3>1, <3>2
    <3>4. \A p \in 0 .. m.pool - 1 : p \in Nat
      BY <3>1
    <3>5. DOMAIN bytes = 0 .. m.pool - 1
      BY <1>8
    <3>6. QED BY <3>3, <3>4, <3>5, Zenon
  <2>2. data' = WriteBoth(bytes, x.off, key, value)
    BY <1>2, <1>6
  <2>3. /\ DOMAIN data' = DOMAIN bytes
        /\ \A p \in DOMAIN bytes : p < x.off \/ x.off + KeySize + Len(value) <= p => data'[p] = bytes[p]
        /\ \A i \in 1 .. Len(value) : data'[x.off + KeySize + i - 1] = value[i]
    <3>1. x.off \in Nat
      BY <1>7
    <3>2. QED BY <2>1, <2>2, <3>1, WriteBothKeeps
  <2>4. QED BY <1>7, <1>8, <2>3 DEF n
<1>10. KeepsBytes(key, data')
  <2> DEFINE w == KeySize + n
  <2>1. w \in Nat /\ x.off <= x.off /\ x.off + w <= x.off + x.disk_size
    BY <1>6, <1>7
  <2>2. DOMAIN data \subseteq DOMAIN bytes
    BY <1>4, <1>8
  <2>3. \A p \in DOMAIN bytes : p < x.off \/ x.off + w <= p => data'[p] = bytes[p]
    BY <1>9
  <2> HIDE DEF w
  <2>4. QED BY <1>6, <1>7, <1>8, <2>1, <2>2, <2>3, WrittenApart
<1>11. /\ IndexOK(idx') /\ Keeps(idx, idx', {key, EmptyKey, TornKey})
       /\ key \in DOMAIN idx'.index_
       /\ ~ Known(key) => idx'.index_[key].extent = x
  BY <1>2, <1>3, <1>6, RecordGood
<1>12. /\ gone \subseteq gone' /\ gone' \subseteq gone \cup {key} /\ gone' \subseteq DOMAIN idx'.index_
       /\ key \notin gone' => idx'.index_[key].extent = x
  BY <1>3, <1>11, GoneGood
<1>13. key \notin gone' => ReadsAs(idx', data', key, said'[key])
  <2>1. said'[key] = value
    BY <1>3 DEF Bind
  <2>2. QED BY <1>9, <1>12, <2>1 DEF ReadsAs, OffOf, LengthOf, n
<1>14. \A k \in DOMAIN said' \ {key} : k \in DOMAIN said /\ said'[k] = said[k]
  BY <1>3 DEF Bind
<1>15. DOMAIN data' = 0 .. m.pool - 1 /\ mem' = TakeBlock(m, e, AlignedSize(value))
  BY <1>2, <1>8, <1>9 DEF r
<1>16. key \in SettledIn(idx', gone') => idx'.index_[key].extent = x
  BY <1>12 DEF SettledIn
<1>17. QED BY <1>5, <1>10, <1>11, <1>12, <1>13, <1>14, <1>15, <1>16, TookGood

LEMMA CrashInWriteGood ==
  ASSUME Before, DOMAIN said \subseteq Keys, NEW key \in Keys, NEW value \in Values,
         CrashInWrite(key, value), sound'
  PROVE  After
<1> DEFINE r == AlignedSize(value)
           both == KeyBytes(key) \o value
<1>1. PICK m \in Offers(key, value) :
        LET e == BestFit(m, r)
        IN  /\ Restart(TakeBlock(m, e, r).fb, m.pool, I!Put(idx, key, NewExtent(value, e)))
            /\ \E n \in 0 .. Len(both) :
                 data' = Write(Resized(data, m.pool), e.offset, SubSeq(both, 1, n))
            /\ sound' = (sound /\ IsBlock(m, e))
  BY DEF CrashInWrite
<1> DEFINE e == BestFit(m, r)
           x == NewExtent(value, e)
           bytes == Resized(data, m.pool)
<1>2. PICK n \in 0 .. Len(both) : data' = Write(bytes, e.offset, SubSeq(both, 1, n))
  BY <1>1
<1>3. /\ mem' = OpenMemory(TakeBlock(m, e, r).fb, m.pool)
      /\ idx' = I!OpenFile(I!Put(idx, key, x)) /\ IsBlock(m, e)
  BY <1>1 DEF Restart
<1>4. /\ NeedsExtent(key, value) /\ I!PutDefined(idx, key) /\ said' = Unbind(said, key)
      /\ gone' = IF Known(key) THEN gone \cup {key} ELSE gone
  BY DEF CrashInWrite, MayIndex, Abandoned
<1>5. m.pool \in Nat /\ mem.pool <= m.pool
  BY <1>4, OfferedGood
<1>6. Takes(key, value, m, e, x)
  BY <1>3, <1>4 DEF Takes
<1> HIDE DEF r, e, x
<1>7. /\ x \in ExtentType /\ x.off = e.offset
      /\ KeySize + Len(value) <= x.disk_size /\ x.off + x.disk_size <= m.pool
      /\ \A k \in SettledIn(idx, gone) \ {key} :
           OffOf(idx, k) + SizeOf(idx, k) <= x.off \/ x.off + x.disk_size <= OffOf(idx, k)
  <2>1. TakenWell(key, value, m, e, x)
    BY <1>6, TakenGood
  <2>2. QED BY <2>1 DEF TakenWell, Beside
<1>8. x.off \in Nat /\ x.disk_size \in Nat
  BY <1>7 DEF ExtentType
<1>9. n \in Nat /\ n <= x.disk_size /\ Len(SubSeq(both, 1, n)) = n
  <2>1. both \in Seq({key} \cup Nat) /\ Len(both) = KeySize + Len(value)
    BY BothLength
  <2> HIDE DEF both
  <2>2. Len(SubSeq(both, 1, n)) = n /\ n \in Nat /\ n <= Len(both)
    BY <1>2, <2>1, PartOf
  <2>3. QED BY <1>7, <1>8, <2>1, <2>2
<1>10. DOMAIN bytes = 0 .. m.pool - 1 /\ KeepsBytes(key, bytes)
       /\ DOMAIN data = 0 .. mem.pool - 1 /\ mem.pool \in Nat
  BY <1>5, ResizedGood, DataAsWas
<1> HIDE DEF bytes
<1>11. /\ DOMAIN data' = DOMAIN bytes
       /\ \A p \in DOMAIN bytes : p < x.off \/ x.off + n <= p => data'[p] = bytes[p]
  <2> DEFINE part == SubSeq(both, 1, n)
  <2>1. Len(part) = n /\ data' = Write(bytes, x.off, part)
    BY <1>2, <1>7, <1>9
  <2>2. n \in Nat /\ x.off \in Nat /\ DOMAIN bytes \subseteq Nat
    BY <1>8, <1>9, <1>10
  <2> HIDE DEF part
  <2>3. KeepsOutside(bytes, x.off, n, data')
    BY <2>1, <2>2, WriteKeepsRest
  <2>4. QED BY <2>3, Zenon DEF KeepsOutside
<1>12. KeepsBytes(key, data')
  <2>1. x.off <= x.off /\ x.off + n <= x.off + x.disk_size
    BY <1>8, <1>9
  <2>2. DOMAIN data \subseteq DOMAIN bytes
    BY <1>5, <1>10
  <2>3. QED BY <1>7, <1>8, <1>9, <1>10, <1>11, <2>1, <2>2, WrittenApart
<1>13. /\ IndexOK(idx') /\ Keeps(idx, idx', {key, EmptyKey, TornKey})
       /\ key \in DOMAIN idx'.index_
       /\ ~ Known(key) => idx'.index_[key].extent = x
  BY <1>3, <1>4, <1>7, RecordGood
<1>14. /\ gone \subseteq gone' /\ gone' \subseteq gone \cup {key} /\ gone' \subseteq DOMAIN idx'.index_
       /\ key \in SettledIn(idx', gone') => idx'.index_[key].extent = x
  BY <1>4, <1>13, GoneGood DEF SettledIn
<1>15. /\ key \notin DOMAIN said'
       /\ \A k \in DOMAIN said' \ {key} : k \in DOMAIN said /\ said'[k] = said[k]
  BY <1>4, Unsaid
<1>16. DOMAIN data' = 0 .. m.pool - 1
       /\ mem' = OpenMemory(TakeBlock(m, e, AlignedSize(value)).fb, m.pool)
  BY <1>3, <1>10, <1>11 DEF r
<1>17. QED BY <1>6, <1>12, <1>13, <1>14, <1>15, <1>16, TookGood

LEMMA CrashInIndexGood ==
  ASSUME Before, DOMAIN said \subseteq Keys, NEW key \in Keys, NEW value \in Values,
         CrashInIndex(key, value), sound'
  PROVE  After
<1> DEFINE r == AlignedSize(value)
<1>1. PICK m \in Offers(key, value) :
        LET e == BestFit(m, r)
            x == NewExtent(value, e)
        IN  /\ \E index \in I!PutCuts(idx, key, x) :
                 /\ Restart(TakeBlock(m, e, r).fb, m.pool, index)
                 /\ gone' = IF key \in DOMAIN idx'.index_ /\ idx'.index_[key].extent # x
                            THEN gone \cup {key} ELSE gone
            /\ data' = Resized(data, m.pool)
            /\ sound' = (sound /\ IsBlock(m, e))
  BY DEF CrashInIndex
<1> DEFINE e == BestFit(m, r)
           x == NewExtent(value, e)
<1>2. PICK index \in I!PutCuts(idx, key, x) :
        /\ Restart(TakeBlock(m, e, r).fb, m.pool, index)
        /\ gone' = IF key \in DOMAIN idx'.index_ /\ idx'.index_[key].extent # x
                   THEN gone \cup {key} ELSE gone
  BY <1>1
<1>3. /\ mem' = OpenMemory(TakeBlock(m, e, r).fb, m.pool) /\ idx' = I!OpenFile(index)
      /\ data' = Resized(data, m.pool) /\ IsBlock(m, e)
  BY <1>1, <1>2 DEF Restart
<1>4. /\ NeedsExtent(key, value) /\ I!PutDefined(idx, key) /\ said' = Unbind(said, key)
  BY DEF CrashInIndex, MayIndex
<1>5. m.pool \in Nat /\ mem.pool <= m.pool
  BY <1>4, OfferedGood
<1>6. Takes(key, value, m, e, x)
  BY <1>3, <1>4 DEF Takes
<1> HIDE DEF r, e, x
<1>7. x \in ExtentType
  <2>1. TakenWell(key, value, m, e, x)
    BY <1>6, TakenGood
  <2>2. QED BY <2>1 DEF TakenWell, Beside
<1>8. IndexOK(idx') /\ Keeps(idx, idx', {key, EmptyKey, TornKey})
  BY <1>2, <1>3, <1>4, <1>7, IndexPut DEF Before, DatabaseOK
<1>9. /\ gone \subseteq gone' /\ gone' \subseteq gone \cup {key} /\ gone' \subseteq DOMAIN idx'.index_
      /\ key \in SettledIn(idx', gone') => idx'.index_[key].extent = x
  <2>1. gone \subseteq DOMAIN idx.index_
    BY DEF Before, DatabaseOK
  <2>2. QED BY <1>2, <1>8, <2>1 DEF Keeps, SettledIn
<1>10. DOMAIN data' = 0 .. m.pool - 1 /\ KeepsBytes(key, data')
  BY <1>3, <1>5, ResizedGood
<1>11. /\ key \notin DOMAIN said'
       /\ \A k \in DOMAIN said' \ {key} : k \in DOMAIN said /\ said'[k] = said[k]
  BY <1>4, Unsaid
<1>12. mem' = OpenMemory(TakeBlock(m, e, AlignedSize(value)).fb, m.pool)
  BY <1>3 DEF r
<1>13. QED BY <1>6, <1>8, <1>9, <1>10, <1>11, <1>12, TookGood

-----------------------------------------------------------------------------
(* The inductive invariant.                                                *)

SaidOK == /\ sound \in BOOLEAN
          /\ DOMAIN said \subseteq Keys /\ gone \subseteq Keys
          /\ \A key \in DOMAIN said : said[key] \in Values

DatabaseGood == SaidOK /\ (sound => DatabaseOK(idx, mem, data, said, gone))

LEMMA InitGood == Bounded /\ Init => DatabaseGood
<1> SUFFICES ASSUME Bounded, Init PROVE DatabaseGood
  OBVIOUS
<1>1. IndexOK(idx) /\ DOMAIN idx.index_ = {}
  BY IndexCreated DEF Init
<1>2. SettledIn(idx, gone) = {} /\ HeldBy(idx, SettledIn(idx, gone)) = {} /\ gone = {}
  BY <1>1 DEF SettledIn, HeldBy, Init
<1>3. MemOK(mem, {}) /\ mem.pool = SizeOfData
  BY CreateMemGood, OpenedPool DEF Init, Bounded
<1>4. DOMAIN data = 0 .. mem.pool - 1 /\ DOMAIN said = {} /\ sound = TRUE
  BY <1>3 DEF Init
<1>5. QED BY <1>1, <1>2, <1>3, <1>4 DEF DatabaseGood, DatabaseOK, SaidOK

\* What a step may do to the ghost variables on behalf of a key.
SaidBy(key, value) ==
  /\ said' \in {said, Unbind(said, key), Bind(said, key, value)}
  /\ gone' \in {gone, gone \cup {key}}
  /\ sound' \in BOOLEAN

LEMMA SaidStep ==
  ASSUME SaidOK, NEW key \in Keys, NEW value \in Values, SaidBy(key, value)
  PROVE  SaidOK'
BY DEF SaidOK, SaidBy, Bind, Unbind

LEMMA SaidLost ==
  ASSUME SaidOK, NEW key \in Keys, said' = Unbind(said, key), gone' \in {gone, gone \cup {key}},
         sound' \in BOOLEAN
  PROVE  SaidOK'
BY DEF SaidOK, Unbind

LEMMA StepKeepsGood ==
  ASSUME Bounded, DatabaseGood, Next
  PROVE  DatabaseGood'
<1>1. SaidOK /\ DOMAIN said \subseteq Keys /\ sound \in BOOLEAN
  BY DEF DatabaseGood, SaidOK
<1>2. sound => Before
  BY DEF DatabaseGood, Before
<1>3. SUFFICES SaidOK' /\ (sound' => After)
  BY DEF DatabaseGood, After
<1>4. ASSUME NEW key \in Keys, NEW value \in Values, PutInPlace(key, value)
      PROVE  SaidOK' /\ (sound' => After)
  <2>1. sound' = sound /\ SaidBy(key, value)
    BY <1>1, <1>4 DEF PutInPlace, SaidBy
  <2>2. QED BY <1>1, <1>2, <1>4, <2>1, SaidStep, PutInPlaceGood
<1>5. ASSUME NEW key \in Keys, NEW value \in Values, PutExtent(key, value)
      PROVE  SaidOK' /\ (sound' => After)
  <2>1. PICK m \in Offers(key, value) :
          sound' = (sound /\ IsBlock(m, BestFit(m, AlignedSize(value))))
    BY <1>5 DEF PutExtent
  <2>2. sound' \in BOOLEAN /\ (sound' => sound)
    BY <1>1, <2>1, Zenon
  <2>3. SaidBy(key, value)
    BY <1>5, <2>2 DEF PutExtent, SaidBy
  <2>4. QED BY <1>1, <1>2, <1>5, <2>2, <2>3, SaidStep, PutExtentGood
<1>6. ASSUME NEW key \in Keys, Delete(key) PROVE SaidOK' /\ (sound' => After)
  <2>1. sound' = sound /\ said' = Unbind(said, key) /\ gone' \in {gone, gone \cup {key}}
    BY <1>6 DEF Delete
  <2>2. QED BY <1>1, <1>2, <1>6, <2>1, SaidLost, DeleteGood
<1>7. ASSUME Reopen PROVE SaidOK' /\ (sound' => After)
  <2>1. sound' = sound /\ said' = said /\ gone' = gone
    BY <1>7 DEF Reopen
  <2>2. SaidOK'
    BY <1>1, <2>1 DEF SaidOK
  <2>3. QED BY <1>1, <1>2, <1>7, <2>1, <2>2, ReopenKeeps
<1>8. ASSUME NEW key \in Keys, NEW value \in Values, CrashInPlace(key, value)
      PROVE  SaidOK' /\ (sound' => After)
  <2>1. sound' = sound /\ said' = Unbind(said, key) /\ gone' \in {gone, gone \cup {key}}
    BY <1>8 DEF CrashInPlace
  <2>2. QED BY <1>1, <1>2, <1>8, <2>1, SaidLost, CrashInPlaceGood
<1>9. ASSUME NEW key \in Keys, CrashInFree(key) PROVE SaidOK' /\ (sound' => After)
  <2>1. sound' = sound /\ said' = Unbind(said, key) /\ gone' \in {gone, gone \cup {key}}
    BY <1>9 DEF CrashInFree
  <2>2. QED BY <1>1, <1>2, <1>9, <2>1, SaidLost, CrashInFreeGood
<1>10. ASSUME NEW key \in Keys, NEW value \in Values, CrashInGrow(key, value)
       PROVE  SaidOK' /\ (sound' => After)
  <2>1. sound' = sound /\ said' = Unbind(said, key) /\ gone' \in {gone, gone \cup {key}}
    BY <1>10 DEF CrashInGrow, Abandoned
  <2>2. QED BY <1>1, <1>2, <1>10, <2>1, SaidLost, CrashInGrowGood
<1>11. ASSUME NEW key \in Keys, NEW value \in Values, PutUnallocated(key, value)
       PROVE  SaidOK' /\ (sound' => After)
  <2>1. sound' = sound /\ said' = Unbind(said, key) /\ gone' \in {gone, gone \cup {key}}
    BY <1>11 DEF PutUnallocated
  <2>2. QED BY <1>1, <1>2, <1>11, <2>1, SaidLost, PutUnallocatedGood
<1>12. ASSUME NEW key \in Keys, NEW value \in Values, CrashInTake(key, value)
       PROVE  SaidOK' /\ (sound' => After)
  <2>1. \E P \in BOOLEAN : sound' = (sound /\ P)
    <3>1. PICK m \in Offers(key, value) :
            LET e == BestFit(m, AlignedSize(value))
            IN  \E blocks \in TakeCuts(m, e, AlignedSize(value)) :
                  sound' = /\ sound
                           /\ IsBlock(m, e)
                           /\ \/ blocks \in {m.fb, TakeBlock(m, e, AlignedSize(value)).fb}
                              \/ ~ Splits(e, AlignedSize(value))
      BY <1>12, Zenon DEF CrashInTake
    <3> DEFINE e == BestFit(m, AlignedSize(value))
               Whole(blocks) == \/ blocks \in {m.fb, TakeBlock(m, e, AlignedSize(value)).fb}
                                \/ ~ Splits(e, AlignedSize(value))
    <3>2. PICK blocks : sound' = (sound /\ IsBlock(m, e) /\ Whole(blocks))
      BY <3>1, Zenon
    <3> HIDE DEF e, Whole
    <3>3. sound' = (sound /\ (IsBlock(m, e) /\ Whole(blocks)))
      BY <3>2, Zenon
    <3>4. (IsBlock(m, e) /\ Whole(blocks)) \in BOOLEAN
      BY Zenon
    <3>5. QED BY <3>3, <3>4, Zenon
  <2>2. sound' \in BOOLEAN /\ (sound' => sound)
    BY <1>1, <2>1, Zenon
  <2>3. said' = Unbind(said, key) /\ gone' \in {gone, gone \cup {key}}
    BY <1>12 DEF CrashInTake, Abandoned
  <2>4. QED BY <1>1, <1>2, <1>12, <2>2, <2>3, SaidLost, CrashInTakeGood
<1>13. ASSUME NEW key \in Keys, NEW value \in Values, CrashInIndex(key, value)
       PROVE  SaidOK' /\ (sound' => After)
  <2>1. PICK m \in Offers(key, value) :
          /\ sound' = (sound /\ IsBlock(m, BestFit(m, AlignedSize(value))))
          /\ gone' = gone \cup {key} \/ gone' = gone
    BY <1>13, Zenon DEF CrashInIndex
  <2>2. sound' \in BOOLEAN /\ (sound' => sound)
    BY <1>1, <2>1, Zenon
  <2>3. said' = Unbind(said, key) /\ gone' \in {gone, gone \cup {key}}
    BY <1>13, <2>1 DEF CrashInIndex
  <2>4. QED BY <1>1, <1>2, <1>13, <2>2, <2>3, SaidLost, CrashInIndexGood
<1>14. ASSUME NEW key \in Keys, NEW value \in Values, CrashInWrite(key, value)
       PROVE  SaidOK' /\ (sound' => After)
  <2>1. PICK m \in Offers(key, value) :
          sound' = (sound /\ IsBlock(m, BestFit(m, AlignedSize(value))))
    BY <1>14 DEF CrashInWrite
  <2>2. sound' \in BOOLEAN /\ (sound' => sound)
    BY <1>1, <2>1, Zenon
  <2>3. said' = Unbind(said, key) /\ gone' \in {gone, gone \cup {key}}
    BY <1>14 DEF CrashInWrite, Abandoned
  <2>4. QED BY <1>1, <1>2, <1>14, <2>2, <2>3, SaidLost, CrashInWriteGood
<1>15. QED BY <1>4, <1>5, <1>6, <1>7, <1>8, <1>9, <1>10, <1>11, <1>12, <1>13, <1>14 DEF Next

LEMMA AlwaysGood == Bounded => (Spec => []DatabaseGood)
<1> SUFFICES ASSUME Bounded PROVE Spec => []DatabaseGood
  OBVIOUS
<1>1. Init => DatabaseGood
  BY InitGood
<1>2. DatabaseGood /\ [Next]_vars => DatabaseGood'
  <2> SUFFICES ASSUME DatabaseGood, [Next]_vars PROVE DatabaseGood'
    OBVIOUS
  <2>1. CASE Next
    BY <2>1, StepKeepsGood
  <2>2. CASE UNCHANGED vars
    BY <2>2, Zenon DEF vars, DatabaseGood, SaidOK
  <2>3. QED BY <2>1, <2>2
<1>3. QED BY <1>1, <1>2, PTL DEF Spec

-----------------------------------------------------------------------------
(* The theorems.                                                           *)

\* The records of the index are typed and name keys or what a kill leaves of one, and
\* the bytes that are mapped are those of the pool.
THEOREM TypeCorrect == Bounded => (Spec => []TypeOK)
<1>1. DatabaseGood => TypeOK
  <2> SUFFICES ASSUME DatabaseGood PROVE TypeOK
    OBVIOUS
  <2>1. SaidOK
    BY DEF DatabaseGood
  <2>2. ASSUME sound
        PROVE  /\ DOMAIN data = 0 .. mem.pool - 1
               /\ gone \subseteq DOMAIN idx.index_
               /\ DOMAIN idx.index_ \subseteq Keys \cup {EmptyKey, TornKey}
               /\ \A key \in DOMAIN idx.index_ : ExtentOf(key) \in ExtentType
    <3>1. DatabaseOK(idx, mem, data, said, gone)
      BY <2>2 DEF DatabaseGood
    <3>2. QED BY <3>1, IndexTyped DEF DatabaseOK, ExtentOf
  <2>3. QED BY <2>1, <2>2 DEF SaidOK, TypeOK, ExtentType
<1>2. QED BY <1>1, AlwaysGood, PTL

\* As long as no stale entry was handed out and no split torn, index and free-block file
\* agree on who owns the pool: the extents of two settled keys are apart, none is free,
\* each is inside the pool and has room for key and value.
THEOREM OwnersAgree == Bounded => (Spec => []ExtentsApart)
<1>1. DatabaseGood => ExtentsApart
  <2> SUFFICES ASSUME DatabaseGood, sound
               PROVE  /\ \A j, k \in Settled : j = k \/
                           \A e \in ExtentsOf({j}), f \in ExtentsOf({k}) : Disjoint(e, f)
                      /\ \A e \in ExtentsOf(Settled) : /\ e[1] + e[2] <= mem.pool
                                                       /\ \A f \in FreeExtents : Disjoint(e, f)
                      /\ \A k \in Settled : KeySize + ExtentOf(k).value_size <= ExtentOf(k).disk_size
    BY DEF ExtentsApart
  <2>1. DatabaseOK(idx, mem, data, said, gone)
    BY DEF DatabaseGood
  <2>2. /\ \A keys : ExtentsOf(keys) = HeldBy(idx, keys)
        /\ Settled = SettledIn(idx, gone) /\ FreeExtents = Ext(mem.fb)
    BY DEF ExtentsOf, HeldBy, ExtentOf, OffOf, SizeOf, Settled, SettledIn, FreeExtents
  <2>3. Sep(Ext(mem.fb), HeldBy(idx, Settled), mem.pool)
    BY <2>1, <2>2 DEF DatabaseOK, MemOK
  <2>4. ASSUME NEW j \in Settled, NEW k \in Settled, j # k,
               NEW e \in ExtentsOf({j}), NEW f \in ExtentsOf({k})
        PROVE  Disjoint(e, f)
    <3>1. e = <<OffOf(idx, j), SizeOf(idx, j)>> /\ f = <<OffOf(idx, k), SizeOf(idx, k)>>
      BY <2>2 DEF HeldBy
    <3>2. OffOf(idx, j) # OffOf(idx, k)
      BY <2>1, <2>2, <2>4 DEF DatabaseOK
    <3>3. e # f /\ e \in HeldBy(idx, Settled) /\ f \in HeldBy(idx, Settled)
      BY <3>1, <3>2 DEF HeldBy
    <3>4. QED BY <2>3, <3>3 DEF Sep
  <2>5. ASSUME NEW e \in ExtentsOf(Settled)
        PROVE  e[1] + e[2] <= mem.pool /\ \A f \in FreeExtents : Disjoint(e, f)
    BY <2>2, <2>3 DEF Sep, IsExtent
  <2>6. \A k \in Settled : KeySize + ExtentOf(k).value_size <= ExtentOf(k).disk_size
    BY <2>1, <2>2 DEF DatabaseOK, Roomy, LengthOf, SizeOf, ExtentOf
  <2>7. QED BY <2>4, <2>5, <2>6
<1>2. QED BY <1>1, AlwaysGood, PTL

LEMMA MinOfTwo ==
  ASSUME NEW a \in Nat, NEW b \in Nat
  PROVE  Min({a, b}) \in Nat /\ Min({a, b}) <= a /\ Min({a, b}) <= b
<1>1. \E x \in {a, b} : \A y \in {a, b} : x =< y
  OBVIOUS
<1>2. Min({a, b}) \in {a, b} /\ \A y \in {a, b} : Min({a, b}) =< y
  BY <1>1, Zenon DEF Min
<1>3. QED BY <1>2

\* And what a settled key was given last is what its Get returns, up to the length its
\* first Put recorded, whatever was done to other keys, restarts and kills included.
THEOREM ReadsBackUpToLength == Bounded => (Spec => []ReadsBackToLength)
<1>1. DatabaseGood => ReadsBackToLength
  <2> SUFFICES ASSUME DatabaseGood, sound, NEW key \in DOMAIN said \ gone
               PROVE  /\ Known(key)
                      /\ \A i \in 1 .. Min({Len(said[key]), ExtentOf(key).value_size}) :
                           Got(key)[i] = said[key][i]
    BY DEF ReadsBackToLength
  <2>1. /\ IndexOK(idx) /\ key \in DOMAIN idx.index_ /\ ReadsAs(idx, data, key, said[key])
        /\ said[key] \in Values
    BY DEF DatabaseGood, DatabaseOK, SaidOK
  <2>2. ExtentOf(key) \in ExtentType /\ Len(said[key]) \in Nat /\ KeySize \in Nat
    BY <2>1, IndexTyped, ValueTyped, EntdbAssumption DEF ExtentOf
  <2> DEFINE n == Len(said[key])
             size == ExtentOf(key).value_size
             from == ExtentOf(key).off
  <2>3. n \in Nat /\ size \in Nat /\ from \in Nat
    BY <2>2 DEF ExtentType
  <2>4. ASSUME NEW i \in 1 .. Min({n, size}) PROVE Got(key)[i] = said[key][i]
    <3>1. i \in 1 .. size /\ i \in 1 .. n
      BY <2>3, MinOfTwo
    <3>2. data[from + KeySize + i - 1] = said[key][i]
      BY <2>1, <2>3, <3>1 DEF ReadsAs, OffOf, LengthOf, ExtentOf
    <3>3. Got(key)[i] = data[from + KeySize + i - 1]
      BY <3>1 DEF Got, Read
    <3>4. QED BY <3>2, <3>3
  <2>5. QED BY <2>1, <2>4 DEF Known
<1>2. QED BY <1>1, AlwaysGood, PTL
=============================================================================
