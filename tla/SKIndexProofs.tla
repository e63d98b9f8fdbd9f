--------------------------- MODULE SKIndexProofs ---------------------------
(***************************************************************************)
(* Proofs about SKIndex for every set of keys and extents and every size   *)
(* of the file.                                                            *)
(*                                                                         *)
(* The inductive invariant Good says that the entries in use are the first *)
(* ones of the file, the rest of it is zero, the header counts at least    *)
(* the others as free, and index_ is what a scan of the file would find.   *)
(* It is the first of these that makes a restart give back the index: of   *)
(* two entries with the same (cut) key the scan finds the lower one, and   *)
(* index_ the older one.                                                   *)
(*                                                                         *)
(* FileOK is the part of Good that speaks of the file.  Every operation    *)
(* maps Good to Good, every cut of it is FileOK, and OpenFile maps FileOK  *)
(* to Good.                                                                *)
(***************************************************************************)
EXTENDS SKIndex, TLAPS, FiniteSetTheorems, WellFoundedInduction

EntryType == [flag : {FreeFlag, UsedFlag}, key : AnyKey, off : Nat, value_size : Nat, disk_size : Nat]
ExtentType == [off : Nat, value_size : Nat, disk_size : Nat]

KeysOf(data) == {data[i].key : i \in Indexed(data)}
At(data, key) == {i \in Indexed(data) : data[i].key = key}

\* What a scan of all of data finds.
IndexOf(data) ==
  [key \in KeysOf(data) |->
     [pos |-> Min(At(data, key)), extent |-> Extent(data[Min(At(data, key))])]]

DataOK(data) ==
  /\ \E len \in Nat : DOMAIN data = 0 .. len - 1
  /\ data \in [DOMAIN data -> EntryType]
  /\ \A i \in DOMAIN data \ UsedIn(data) : data[i] = ZeroEntry

\* The first k entries are in use.
Full(data, k) == k \in Nat /\ UsedIn(data) = 0 .. k - 1

FileOK(f) ==
  /\ f.num_entries \in Nat \ {0}
  /\ f.num_free_entries \in 0 .. f.num_entries
  /\ DataOK(f.data_)
  /\ \E k \in 0 .. f.num_entries :
       Full(f.data_, k) /\ f.num_entries - k <= f.num_free_entries

IsIndex(x) ==
  x = [num_entries      |-> x.num_entries,
       num_free_entries |-> x.num_free_entries,
       data_            |-> x.data_,
       index_           |-> x.index_,
       free_entry_solts |-> x.free_entry_solts]

FreeIn(x) == 0 .. x.num_entries - 1 \ UsedIn(x.data_)

Good(x) ==
  /\ IsIndex(x)
  /\ FileOK(x)
  /\ x.index_ = IndexOf(x.data_)
  /\ x.free_entry_solts \subseteq FreeIn(x)
  /\ FreeIn(x) \cap DOMAIN x.data_ \subseteq x.free_entry_solts

-----------------------------------------------------------------------------
(* What a scan finds.                                                      *)

\* *set.begin() of a nonempty set of numbers is in it and below all others.
LEMMA MinExists ==
  ASSUME NEW T \in SUBSET Nat, T # {}
  PROVE  Min(T) \in T /\ \A y \in T : Min(T) <= y
<1> DEFINE Less == {ss \in Nat \X Nat : ss[1] < ss[2]}
<1>1. IsWellFoundedOn(Less, Nat)
  BY NatLessThanWellFounded, Zenon DEF OpToRel
<1>2. PICK x \in T : \A y \in T : ~ (<<y, x>> \in Less)
  BY <1>1, WFMin, Zenon
<1>3. x \in Nat /\ \A y \in T : y \in Nat /\ ~ (y < x)
  BY <1>2
<1>4. \A y \in T : x <= y
  BY <1>3
<1>5. QED BY <1>4, Zenon DEF Min

\* A number in a set and below all others is its minimum.
LEMMA MinIs ==
  ASSUME NEW T \in SUBSET Nat, NEW m \in T, \A y \in T : m <= y
  PROVE  Min(T) = m
<1>1. Min(T) \in T /\ \A y \in T : Min(T) <= y
  BY MinExists
<1>2. Min(T) <= m /\ m <= Min(T) /\ Min(T) \in Nat /\ m \in Nat
  BY <1>1
<1>3. QED BY <1>2

LEMMA OpenFileIs ==
  ASSUME NEW f
  PROVE  OpenFile(f) = [num_entries      |-> f.num_entries,
                        num_free_entries |-> f.num_free_entries,
                        data_            |-> f.data_,
                        index_           |-> IndexOf(Scanned(f)),
                        free_entry_solts |-> DOMAIN Scanned(f) \ UsedIn(Scanned(f))]
BY Zenon DEF OpenFile, IndexOf, KeysOf, At

\* Only the entries in use matter to the scan.
LEMMA SameScan ==
  ASSUME NEW d, NEW e, UsedIn(d) = UsedIn(e), UsedIn(d) \subseteq Nat, \A i \in UsedIn(d) : d[i] = e[i]
  PROVE  Indexed(d) = Indexed(e) /\ IndexOf(d) = IndexOf(e)
<1>1. Indexed(d) = Indexed(e) /\ \A i \in Indexed(d) : d[i] = e[i]
  BY DEF Indexed
<1>2. KeysOf(d) = KeysOf(e) /\ \A key : At(d, key) = At(e, key)
  BY <1>1 DEF KeysOf, At
<1>3. ASSUME NEW key \in KeysOf(d)
      PROVE  Min(At(d, key)) \in Indexed(d)
  <2>1. At(d, key) # {} /\ At(d, key) \in SUBSET Nat
    BY <1>3 DEF KeysOf, At, Indexed
  <2>2. QED BY <2>1, MinExists DEF At
<1>4. \A key \in KeysOf(d) : d[Min(At(d, key))] = e[Min(At(e, key))]
  BY <1>1, <1>2, <1>3
<1>5. QED BY <1>1, <1>2, <1>4, Zenon DEF IndexOf

\* One more entry in use, behind the others.
Joined(index, key, k, entry) ==
  [other \in DOMAIN index \cup {key} |->
     IF other = key THEN [pos |-> k, extent |-> Extent(entry)] ELSE index[other]]

\* The scan finds a record of a new key, and nothing new if the key is there or is the
\* empty key on a list that has none.
LEMMA JoinScan ==
  ASSUME NEW k, NEW d, Full(d, k), NEW e, Full(e, k + 1), \A i \in 0 .. k - 1 : e[i] = d[i]
  PROVE  IF e[k].key \in KeysOf(d) \/ (e[k].key = EmptyKey /\ Indexed(d) = {})
         THEN IndexOf(e) = IndexOf(d)
         ELSE IndexOf(e) = Joined(IndexOf(d), e[k].key, k, e[k])
<1> DEFINE key == e[k].key
<1>1. /\ k \in Nat /\ UsedIn(d) = 0 .. k - 1 /\ UsedIn(e) = 0 .. k
      /\ Indexed(d) \subseteq 0 .. k - 1
  BY DEF Full, Indexed
<1>2. CASE key = EmptyKey /\ Indexed(d) = {}
  <2>1. \A i \in 0 .. k - 1 : d[i].key = EmptyKey
    <3>1. SUFFICES ASSUME NEW i \in 0 .. k - 1, d[i].key # EmptyKey PROVE FALSE
      OBVIOUS
    <3>2. i \in UsedIn(d) /\ i <= i
      BY <1>1
    <3>3. i \in Indexed(d)
      BY <3>1, <3>2 DEF Indexed
    <3>4. QED BY <1>2, <3>3
  <2>2. Indexed(e) = {}
    BY <1>1, <1>2, <2>1 DEF Indexed
  <2>3. KeysOf(d) = {} /\ KeysOf(e) = {}
    BY <1>2, <2>2 DEF KeysOf
  <2>4. IndexOf(e) = IndexOf(d)
    BY <2>3, Zenon DEF IndexOf
  <2>5. QED BY <1>2, <2>4
<1>3. CASE ~ (key = EmptyKey /\ Indexed(d) = {})
  <2>1. Indexed(e) = Indexed(d) \cup {k}
    <3>1. key # EmptyKey \/ \E j \in 0 .. k - 1 : d[j].key # EmptyKey
      BY <1>1, <1>3 DEF Indexed
    <3>2. \A i \in 0 .. k - 1 : i \in Indexed(e) <=> i \in Indexed(d)
      BY <1>1 DEF Indexed
    <3>3. k \in Indexed(e)
      BY <1>1, <3>1 DEF Indexed
    <3>4. Indexed(e) \subseteq 0 .. k
      BY <1>1 DEF Indexed
    <3>5. QED BY <1>1, <3>2, <3>3, <3>4
  <2>2. /\ KeysOf(e) = KeysOf(d) \cup {key}
        /\ \A other : other # key => At(e, other) = At(d, other)
        /\ At(e, key) = At(d, key) \cup {k}
    BY <1>1, <2>1 DEF KeysOf, At
  <2>3. \A other \in KeysOf(d) : /\ At(d, other) # {} /\ At(d, other) \in SUBSET (0 .. k - 1)
                               /\ Min(At(d, other)) \in 0 .. k - 1
    <3>1. SUFFICES ASSUME NEW other \in KeysOf(d)
                   PROVE  /\ At(d, other) # {} /\ At(d, other) \in SUBSET (0 .. k - 1)
                          /\ Min(At(d, other)) \in 0 .. k - 1
      OBVIOUS
    <3>2. At(d, other) # {} /\ At(d, other) \subseteq 0 .. k - 1
      BY <1>1 DEF KeysOf, At
    <3>3. At(d, other) \in SUBSET Nat
      BY <1>1, <3>2
    <3>4. QED BY <3>2, <3>3, MinExists
  <2>4. CASE key \in KeysOf(d)
    <3>1. Min(At(e, key)) = Min(At(d, key))
      <4>1. At(d, key) \in SUBSET Nat /\ At(d, key) # {} /\ At(e, key) \in SUBSET Nat
        BY <1>1, <2>2, <2>3, <2>4
      <4>2. Min(At(d, key)) \in At(e, key) /\ \A y \in At(d, key) : Min(At(d, key)) <= y
        BY <2>2, <4>1, MinExists
      <4>3. Min(At(d, key)) <= k
        BY <1>1, <2>3, <2>4
      <4>4. QED BY <2>2, <4>1, <4>2, <4>3, MinIs
    <3>2. KeysOf(e) = KeysOf(d) /\ \A other \in KeysOf(d) : Min(At(e, other)) = Min(At(d, other))
      BY <2>2, <2>4, <3>1
    <3>3. \A other \in KeysOf(d) : e[Min(At(e, other))] = d[Min(At(d, other))]
      BY <2>3, <3>2
    <3>4. IndexOf(e) = IndexOf(d)
      BY <3>2, <3>3 DEF IndexOf
    <3>5. QED BY <2>4, <3>4
  <2>5. CASE key \notin KeysOf(d)
    <3>1. At(d, key) = {}
      BY <2>5 DEF KeysOf, At
    <3>2. Min(At(e, key)) = k
      BY <1>1, <2>2, <3>1, MinIs
    <3>3. \A other \in KeysOf(d) : /\ other # key
                                 /\ Min(At(e, other)) = Min(At(d, other))
                                 /\ e[Min(At(e, other))] = d[Min(At(d, other))]
      BY <2>2, <2>3, <2>5
    <3>4. IndexOf(e) = Joined(IndexOf(d), key, k, e[k])
      BY <2>2, <3>2, <3>3 DEF IndexOf, Joined
    <3>5. QED BY <1>3, <2>5, <3>4
  <2>6. QED BY <2>4, <2>5
<1>4. QED BY <1>2, <1>3

-----------------------------------------------------------------------------
(* Opening.                                                                *)

\* The entries the scan leaves out are not in use.
LEMMA ScannedSame ==
  ASSUME NEW f, FileOK(f)
  PROVE  /\ DOMAIN Scanned(f) = DOMAIN f.data_ \cap 0 .. f.num_entries - 1
         /\ UsedIn(Scanned(f)) = UsedIn(f.data_)
         /\ IndexOf(Scanned(f)) = IndexOf(f.data_)
         /\ UsedIn(f.data_) \subseteq Nat
<1>1. /\ DOMAIN f.data_ \subseteq Nat
      /\ UsedIn(f.data_) \subseteq DOMAIN f.data_ \cap 0 .. f.num_entries - 1
      /\ f.num_entries \in Nat
  BY DEF FileOK, DataOK, Full, UsedIn
<1>2. DOMAIN Scanned(f) = DOMAIN f.data_ \cap 0 .. f.num_entries - 1
  BY <1>1 DEF Scanned
<1>3. \A i \in DOMAIN Scanned(f) : Scanned(f)[i] = f.data_[i]
  BY <1>2 DEF Scanned
<1>4. UsedIn(Scanned(f)) = UsedIn(f.data_)
  BY <1>1, <1>2, <1>3 DEF UsedIn
<1>5. \A i \in UsedIn(f.data_) : Scanned(f)[i] = f.data_[i]
  BY <1>1, <1>2, <1>3
<1>6. QED BY <1>1, <1>2, <1>4, <1>5, SameScan

\* Opening a good file gives a good index, with the records of the file.
LEMMA OpenGood ==
  ASSUME NEW f, FileOK(f)
  PROVE  /\ Good(OpenFile(f))
         /\ OpenFile(f).data_ = f.data_ /\ OpenFile(f).num_entries = f.num_entries
<1> DEFINE x == OpenFile(f)
<1>1. /\ x.num_entries = f.num_entries /\ x.num_free_entries = f.num_free_entries
      /\ x.data_ = f.data_ /\ x.index_ = IndexOf(Scanned(f))
      /\ x.free_entry_solts = DOMAIN Scanned(f) \ UsedIn(Scanned(f))
      /\ IsIndex(x)
  BY OpenFileIs DEF IsIndex
<1> HIDE DEF x
<1>2. FileOK(x)
  BY <1>1 DEF FileOK
<1>3. /\ x.index_ = IndexOf(x.data_)
      /\ x.free_entry_solts = (DOMAIN x.data_ \cap 0 .. x.num_entries - 1) \ UsedIn(x.data_)
  BY <1>1, ScannedSame
<1>4. Good(x)
  BY <1>1, <1>2, <1>3 DEF Good, FreeIn
<1>5. QED BY <1>1, <1>4 DEF x

-----------------------------------------------------------------------------
(* Expanding.                                                              *)

\* A full file has no free entries to hand.
LEMMA NothingFree ==
  ASSUME NEW x, FileOK(x), x.num_free_entries = 0
  PROVE  /\ FreeIn(x) = {}
         /\ UsedIn(x.data_) = 0 .. x.num_entries - 1
<1>1. PICK k \in 0 .. x.num_entries : Full(x.data_, k) /\ x.num_entries - k <= 0
  BY DEF FileOK
<1>2. k = x.num_entries /\ x.num_entries \in Nat
  BY <1>1 DEF FileOK
<1>3. QED BY <1>1, <1>2 DEF Full, FreeIn

\* ftruncate changes no entry in use.
LEMMA LengthenedGood ==
  ASSUME NEW x, Good(x), x.num_free_entries = 0
  PROVE  /\ Good(Lengthened(x))
         /\ Lengthened(x).num_entries = x.num_entries
         /\ Lengthened(x).num_free_entries = 0
         /\ Lengthened(x).index_ = x.index_
         /\ DOMAIN Lengthened(x).data_ = 0 .. 2 * x.num_entries - 1
<1> DEFINE n == x.num_entries
           data == [i \in 0 .. n * 2 - 1 |-> IF i \in DOMAIN x.data_ THEN x.data_[i] ELSE ZeroEntry]
           y == Lengthened(x)
<1>1. /\ IsIndex(y) /\ y.num_entries = n /\ y.num_free_entries = 0 /\ y.data_ = data
      /\ y.index_ = x.index_ /\ y.free_entry_solts = x.free_entry_solts
  <2>1. y = [x EXCEPT !.data_ = data]
    BY DEF Lengthened
  <2> HIDE DEF data, y, n
  <2>2. QED BY <2>1 DEF Good, IsIndex, n
<1>2. n \in Nat \ {0} /\ 2 * n - 1 \in Nat /\ n * 2 = 2 * n
  BY DEF Good, FileOK
<1>3. /\ UsedIn(x.data_) = 0 .. n - 1
      /\ FreeIn(x) = {}
      /\ UsedIn(x.data_) \subseteq DOMAIN x.data_
  BY NothingFree DEF Good, UsedIn
<1>4. /\ \A i \in 0 .. n - 1 : data[i] = x.data_[i]
      /\ \A i \in n .. 2 * n - 1 : data[i] = ZeroEntry
  <2>1. \A i \in 0 .. n - 1 : i \in 0 .. n * 2 - 1 /\ i \in DOMAIN x.data_
    BY <1>2, <1>3
  <2>2. \A i \in n .. 2 * n - 1 : i \in 0 .. n * 2 - 1 /\ i \notin UsedIn(x.data_)
    BY <1>2, <1>3
  <2>3. QED BY <2>1, <2>2 DEF Good, FileOK, DataOK
<1>5. DOMAIN data = 0 .. 2 * n - 1
  BY <1>2
<1>16. data \in [DOMAIN data -> EntryType]
  <2>1. ZeroEntry \in EntryType
    BY DEF ZeroEntry, EntryType, AnyKey
  <2>2. QED BY <2>1 DEF Good, FileOK, DataOK
<1> HIDE DEF data, y, n
<1>6. ZeroEntry.flag # UsedFlag
  BY DEF ZeroEntry, UsedFlag, FreeFlag
<1>7. UsedIn(data) = UsedIn(x.data_)
  <2>1. \A i \in 0 .. 2 * n - 1 : i \in 0 .. n - 1 \/ i \in n .. 2 * n - 1
    BY <1>2
  <2>2. \A i \in 0 .. n - 1 : data[i].flag = UsedFlag /\ i \in 0 .. 2 * n - 1
    BY <1>2, <1>3, <1>4 DEF UsedIn
  <2>3. \A i \in n .. 2 * n - 1 : data[i].flag # UsedFlag
    BY <1>4, <1>6
  <2>4. QED BY <1>3, <1>5, <2>1, <2>2, <2>3 DEF UsedIn
<1>9. DataOK(data)
  <2>2. \A i \in DOMAIN data \ UsedIn(data) : data[i] = ZeroEntry
    BY <1>2, <1>3, <1>4, <1>5, <1>7
  <2>3. \E len \in Nat : DOMAIN data = 0 .. len - 1
    BY <1>2, <1>5
  <2>4. QED BY <1>16, <2>2, <2>3 DEF DataOK
<1>10. IndexOf(data) = IndexOf(x.data_)
  <2>1. UsedIn(data) \subseteq Nat
    BY <1>2, <1>3, <1>7
  <2>2. \A i \in UsedIn(data) : data[i] = x.data_[i]
    BY <1>3, <1>4, <1>7
  <2>3. QED BY <1>7, <2>1, <2>2, SameScan
<1>11. FileOK(y)
  BY <1>1, <1>7, <1>9 DEF Good, FileOK, Full, n
<1>12. FreeIn(y) = {} /\ y.free_entry_solts = {}
  BY <1>1, <1>3, <1>7 DEF FreeIn, Good, n
<1>13. y.index_ = IndexOf(y.data_)
  BY <1>1, <1>10 DEF Good
<1>14. Good(y)
  BY <1>1, <1>11, <1>12, <1>13 DEF Good
<1>15. QED BY <1>1, <1>5, <1>14 DEF y, n

\* The header and free_entry_solts of a full file may be doubled whether or not the file
\* is longer, and the process may be killed before num_entries is.
LEMMA DoubledGood ==
  ASSUME NEW x, Good(x), x.num_free_entries = 0
  PROVE  /\ Good(Doubled(x))
         /\ Doubled(x).num_entries = 2 * x.num_entries
         /\ Doubled(x).num_free_entries # 0
         /\ Doubled(x).free_entry_solts # {}
         /\ Doubled(x).data_ = x.data_ /\ Doubled(x).index_ = x.index_
         /\ \A f \in DoubledCuts(x) :
              FileOK(f) /\ f.data_ = x.data_
                        /\ f.num_entries \in {x.num_entries, 2 * x.num_entries}
<1> DEFINE n == x.num_entries
           free == x.free_entry_solts \cup n .. n * 2 - 1
           y == Doubled(x)
           z == [x EXCEPT !.num_free_entries = @ + x.num_entries]
<1>1. n \in Nat \ {0} /\ 2 * n = n * 2
  BY DEF Good, FileOK
<1>2. /\ IsIndex(y) /\ y.num_entries = 2 * n /\ y.num_free_entries = n /\ y.data_ = x.data_
      /\ y.index_ = x.index_ /\ y.free_entry_solts = free
  <2>1. y = [x EXCEPT !.num_entries = n * 2, !.num_free_entries = 0 + n, !.free_entry_solts = free]
    BY DEF Doubled, Good, IsIndex
  <2>2. IsIndex(x)
    BY DEF Good
  <2> HIDE DEF free, y, n, z
  <2>3. y = [num_entries |-> n * 2, num_free_entries |-> 0 + n, data_ |-> x.data_,
             index_ |-> x.index_, free_entry_solts |-> free]
    BY <2>1, <2>2 DEF IsIndex
  <2>4. QED BY <1>1, <2>3 DEF IsIndex
<1>3. z.num_entries = n /\ z.num_free_entries = n /\ z.data_ = x.data_
  <2>1. z = [x EXCEPT !.num_free_entries = 0 + n]
    BY DEF Good, IsIndex
  <2> HIDE DEF z, n
  <2>2. QED BY <1>1, <2>1 DEF Good, IsIndex, n
<1>4. FreeIn(x) = {} /\ UsedIn(x.data_) = 0 .. n - 1 /\ x.free_entry_solts = {}
  BY NothingFree DEF Good
<1> HIDE DEF y, z, n
<1>5. Full(x.data_, n) /\ DataOK(x.data_)
  BY <1>1, <1>4 DEF Full, Good, FileOK
<1>6. FileOK(y)
  <2>1. n \in 0 .. 2 * n /\ 2 * n - n <= n
    BY <1>1
  <2>2. QED BY <1>1, <1>2, <1>5, <2>1 DEF FileOK
<1>7. FileOK(z)
  <2>1. n \in 0 .. n /\ n - n <= n
    BY <1>1
  <2>2. QED BY <1>1, <1>3, <1>5, <2>1 DEF FileOK
<1>8. FreeIn(y) = n .. 2 * n - 1 /\ free = n .. 2 * n - 1
  BY <1>1, <1>2, <1>4 DEF FreeIn
<1>9. Good(y)
  BY <1>2, <1>6, <1>8 DEF Good
<1>10. DoubledCuts(x) = {x, z, y}
  BY DEF DoubledCuts, y, z
<1>11. \A f \in {x, z, y} : FileOK(f) /\ f.data_ = x.data_ /\ f.num_entries \in {n, 2 * n}
  BY <1>2, <1>3, <1>6, <1>7 DEF Good, n
<1>12. free # {}
  <2>1. n \in n .. 2 * n - 1
    BY <1>1
  <2> HIDE DEF free
  <2>2. QED BY <1>8, <2>1
<1>13. /\ Good(y) /\ y.num_entries = 2 * n /\ y.num_free_entries # 0
       /\ y.free_entry_solts # {} /\ y.data_ = x.data_ /\ y.index_ = x.index_
  BY <1>1, <1>2, <1>9, <1>12
<1>14. QED BY <1>10, <1>11, <1>13 DEF y, n

\* The same of the whole expansion.
LEMMA ExpandGood ==
  ASSUME NEW x, Good(x), x.num_free_entries = 0
  PROVE  /\ Good(ExpandFile(x)) /\ ExpandFile(x).num_free_entries # 0
         /\ ExpandFile(x).index_ = x.index_
         /\ Fits(ExpandFile(x))
         /\ \A f \in ExpandFileCuts(x) :
              /\ FileOK(f) /\ IndexOf(f.data_) = x.index_
              /\ Fits(x) => Fits(f)
<1>1. /\ Good(Lengthened(x)) /\ Lengthened(x).num_free_entries = 0
      /\ Lengthened(x).num_entries = x.num_entries
      /\ Lengthened(x).index_ = x.index_
      /\ DOMAIN Lengthened(x).data_ = 0 .. 2 * x.num_entries - 1
  BY LengthenedGood
<1>2. x.num_entries \in Nat
  BY DEF Good, FileOK
<1>3. Good(ExpandFile(x)) /\ ExpandFile(x).num_free_entries # 0 /\ ExpandFile(x).index_ = x.index_
  BY <1>1, DoubledGood DEF ExpandFile
<1>4. \A f \in DoubledCuts(Lengthened(x)) :
        /\ FileOK(f) /\ f.data_ = Lengthened(x).data_
        /\ f.num_entries \in {x.num_entries, 2 * x.num_entries}
  BY <1>1, DoubledGood
<1>5. Lengthened(x).index_ = IndexOf(Lengthened(x).data_)
  BY <1>1 DEF Good
<1>6. \A f \in DoubledCuts(Lengthened(x)) : FileOK(f) /\ IndexOf(f.data_) = x.index_ /\ Fits(f)
  BY <1>1, <1>2, <1>4, <1>5 DEF Fits
<1>7. ExpandFile(x) \in DoubledCuts(Lengthened(x))
  BY DEF ExpandFile, DoubledCuts
<1>8. QED BY <1>3, <1>6, <1>7 DEF ExpandFileCuts, Good

-----------------------------------------------------------------------------
(* Putting.                                                                *)

\* What index_ keeps of a key is what its entry in the file says.
LEMMA IndexFinds ==
  ASSUME NEW x, Good(x), NEW key \in DOMAIN x.index_
  PROVE  /\ x.index_[key].pos \in UsedIn(x.data_)
         /\ x.index_[key].extent \in ExtentType
         /\ x.data_[x.index_[key].pos] = Written(key, x.index_[key].extent)
         /\ key \in AnyKey
<1> DEFINE d == x.data_
           m == Min(At(d, key))
<1>1. x.index_ = IndexOf(d) /\ d \in [DOMAIN d -> EntryType] /\ DOMAIN d \subseteq Nat
  BY DEF Good, FileOK, DataOK
<1>2. key \in KeysOf(d) /\ x.index_[key] = [pos |-> m, extent |-> Extent(d[m])]
  BY <1>1 DEF IndexOf
<1>3. At(d, key) # {} /\ At(d, key) \in SUBSET Nat
  BY <1>1, <1>2 DEF KeysOf, At, Indexed, UsedIn
<1>4. m \in At(d, key)
  BY <1>3, MinExists
<1> HIDE DEF m, d
<1>5. m \in UsedIn(d) /\ m \in DOMAIN d /\ d[m].key = key /\ d[m].flag = UsedFlag
  BY <1>4 DEF At, Indexed, UsedIn
<1>6. d[m] \in EntryType
  BY <1>1, <1>5
<1>7. Extent(d[m]) \in ExtentType /\ d[m] = Written(key, Extent(d[m])) /\ key \in AnyKey
  BY <1>5, <1>6 DEF EntryType, ExtentType, Extent, Written
<1>8. QED BY <1>2, <1>5, <1>7 DEF d

\* An update writes back what is there.
LEMMA RewriteSame ==
  ASSUME NEW x, Good(x), NEW key \in DOMAIN x.index_
  PROVE  Rewrite(x, key) = x
<1> DEFINE m == x.index_[key].pos
           d == x.data_
           e == Written(key, x.index_[key].extent)
<1>1. m \in DOMAIN d /\ d[m] = e
  BY IndexFinds DEF UsedIn
<1>2. d \in [DOMAIN d -> EntryType]
  BY DEF Good, FileOK, DataOK
<1>3. Rewrite(x, key) = [x EXCEPT !.data_ = [d EXCEPT ![m] = e]]
  BY DEF Rewrite
<1> HIDE DEF m, e
<1>4. [d EXCEPT ![m] = e] = d
  BY <1>1, <1>2
<1>5. IsIndex(x)
  BY DEF Good
<1>6. QED BY <1>3, <1>4, <1>5 DEF IsIndex

\* The first free entry is the first one that is not in use.
LEMMA FirstFree ==
  ASSUME NEW x, Good(x), x.free_entry_solts # {}, Min(x.free_entry_solts) \in DOMAIN x.data_
  PROVE  \E k \in 0 .. x.num_entries - 1 :
           /\ Full(x.data_, k)
           /\ x.num_entries - k <= x.num_free_entries
           /\ Min(x.free_entry_solts) = k
           /\ k \in DOMAIN x.data_
           /\ x.data_[k] = ZeroEntry
<1> DEFINE n == x.num_entries
           free == x.free_entry_solts
<1>1. PICK k \in 0 .. n : Full(x.data_, k) /\ n - k <= x.num_free_entries
  BY DEF Good, FileOK
<1>2. PICK len \in Nat : DOMAIN x.data_ = 0 .. len - 1
  BY DEF Good, FileOK, DataOK
<1>3. n \in Nat /\ UsedIn(x.data_) = 0 .. k - 1
  BY <1>1 DEF Good, FileOK, Full
<1>4. FreeIn(x) = k .. n - 1
  BY <1>1, <1>3 DEF FreeIn
<1>5. free \in SUBSET Nat /\ \A i \in free : k <= i /\ i < n
  BY <1>1, <1>3, <1>4 DEF Good
<1>6. Min(free) \in free
  BY <1>5, MinExists
<1>7. k < n /\ k \in DOMAIN x.data_ /\ k \in FreeIn(x)
  BY <1>1, <1>2, <1>3, <1>4, <1>5, <1>6
<1>8. k \in free
  BY <1>7 DEF Good
<1>9. Min(free) = k
  BY <1>5, <1>8, MinIs
<1>10. x.data_[k] = ZeroEntry
  BY <1>1, <1>3, <1>7 DEF Good, FileOK, DataOK
<1>11. QED BY <1>1, <1>3, <1>7, <1>9, <1>10

\* Using the first entry that is not in use.
LEMMA WriteFirst ==
  ASSUME NEW d, DataOK(d), NEW k, Full(d, k), k \in DOMAIN d,
         NEW entry \in EntryType, entry.flag = UsedFlag
  PROVE  /\ DataOK([d EXCEPT ![k] = entry])
         /\ Full([d EXCEPT ![k] = entry], k + 1)
         /\ DOMAIN [d EXCEPT ![k] = entry] = DOMAIN d
         /\ [d EXCEPT ![k] = entry][k] = entry
         /\ \A i \in 0 .. k - 1 : [d EXCEPT ![k] = entry][i] = d[i]
<1> DEFINE e == [d EXCEPT ![k] = entry]
<1>1. k \in Nat /\ UsedIn(d) = 0 .. k - 1 /\ UsedIn(d) \subseteq DOMAIN d
  BY DEF Full, UsedIn
<1>2. d \in [DOMAIN d -> EntryType]
  BY DEF DataOK
<1>3. /\ DOMAIN e = DOMAIN d /\ e[k] = entry
      /\ \A i \in DOMAIN d : i # k => e[i] = d[i]
      /\ e \in [DOMAIN e -> EntryType]
  BY <1>2
<1> HIDE DEF e
<1>4. \A i \in 0 .. k - 1 : i # k /\ i \in DOMAIN d
  BY <1>1
<1>5. UsedIn(e) = UsedIn(d) \cup {k}
  BY <1>3 DEF UsedIn
<1>6. Full(e, k + 1)
  BY <1>1, <1>5 DEF Full
<1>7. \A i \in DOMAIN e \ UsedIn(e) : e[i] = ZeroEntry
  BY <1>3, <1>5 DEF DataOK
<1>8. DataOK(e)
  BY <1>3, <1>7 DEF DataOK
<1>9. QED BY <1>3, <1>4, <1>6, <1>8 DEF e

\* The stores of writeEntry, on an entry that was zero.
Stored(key, off, value_size, disk_size) ==
  [flag |-> UsedFlag, key |-> key, off |-> off, value_size |-> value_size, disk_size |-> disk_size]

LEMMA CutsAre ==
  ASSUME NEW key, NEW extent
  PROVE  WrittenCuts(ZeroEntry, key, extent) =
           {ZeroEntry, Stored(EmptyKey, 0, 0, 0), Stored(TornKey, 0, 0, 0), Stored(key, 0, 0, 0),
            Stored(key, extent.off, 0, 0), Stored(key, extent.off, extent.value_size, 0),
            Stored(key, extent.off, extent.value_size, extent.disk_size)}
<1>1. /\ [ZeroEntry EXCEPT !.flag = UsedFlag] = Stored(EmptyKey, 0, 0, 0)
      /\ [Stored(EmptyKey, 0, 0, 0) EXCEPT !.key = TornKey] = Stored(TornKey, 0, 0, 0)
      /\ [Stored(EmptyKey, 0, 0, 0) EXCEPT !.key = key] = Stored(key, 0, 0, 0)
      /\ [Stored(key, 0, 0, 0) EXCEPT !.off = extent.off] = Stored(key, extent.off, 0, 0)
      /\ [Stored(key, extent.off, 0, 0) EXCEPT !.value_size = extent.value_size]
           = Stored(key, extent.off, extent.value_size, 0)
      /\ Written(key, extent) = Stored(key, extent.off, extent.value_size, extent.disk_size)
  BY DEF ZeroEntry, Stored, Written
<1>2. QED BY <1>1, Zenon DEF WrittenCuts

LEMMA CutsTyped ==
  ASSUME NEW key \in Keys, NEW extent \in Extents,
         NEW entry \in WrittenCuts(ZeroEntry, key, extent), entry # ZeroEntry
  PROVE  /\ entry \in EntryType /\ entry.flag = UsedFlag
         /\ Extent(Written(key, extent)) = extent
<1>1. extent \in ExtentType
  BY IndexAssumption DEF ExtentType
<1>2. \A name \in AnyKey, o, v, s \in Nat :
        Stored(name, o, v, s) \in EntryType /\ Stored(name, o, v, s).flag = UsedFlag
  BY DEF Stored, EntryType
<1>3. {key, EmptyKey, TornKey} \subseteq AnyKey
  BY DEF AnyKey
<1>4. extent.off \in Nat /\ extent.value_size \in Nat /\ extent.disk_size \in Nat
  BY <1>1 DEF ExtentType
<1>5. entry \in EntryType /\ entry.flag = UsedFlag
  <2>1. \E name \in AnyKey, o, v, s \in Nat : entry = Stored(name, o, v, s)
    <3>1. \/ entry = Stored(EmptyKey, 0, 0, 0)
          \/ entry = Stored(TornKey, 0, 0, 0)
          \/ entry = Stored(key, 0, 0, 0)
          \/ entry = Stored(key, extent.off, 0, 0)
          \/ entry = Stored(key, extent.off, extent.value_size, 0)
          \/ entry = Stored(key, extent.off, extent.value_size, extent.disk_size)
      BY CutsAre, Zenon
    <3>2. 0 \in Nat
      OBVIOUS
    <3>3. EmptyKey \in AnyKey /\ TornKey \in AnyKey /\ key \in AnyKey
      BY <1>3
    <3>4. QED BY <1>4, <3>1, <3>2, <3>3, Zenon
  <2>2. QED BY <1>2, <2>1
<1>6. Extent(Written(key, extent)) = extent
  BY <1>1 DEF Extent, Written, ExtentType
<1>7. QED BY <1>5, <1>6

\* What a Put of key with extent may do to the records: nothing, or one more, complete
\* or cut short.
GrownBy(before, key, extent, after) ==
  \/ after = before
  \/ \E k \in Nat : \E entry \in WrittenCuts(ZeroEntry, key, extent) \ {ZeroEntry} :
       /\ entry.key \notin DOMAIN before
       /\ after = Joined(before, entry.key, k, entry)

\* What one call may do to them.
Grown(before, after) ==
  after = before \/ \E key \in Keys, extent \in Extents : GrownBy(before, key, extent, after)

\* The file after any store of writeEntry to the first free entry.
LEMMA EntryGrows ==
  ASSUME NEW x, Good(x), NEW key \in Keys, NEW extent \in Extents,
         NEW k \in 0 .. x.num_entries - 1, Full(x.data_, k), k \in DOMAIN x.data_,
         NEW entry \in WrittenCuts(ZeroEntry, key, extent), entry # ZeroEntry
  PROVE  LET e == [x.data_ EXCEPT ![k] = entry]
         IN  /\ DataOK(e) /\ Full(e, k + 1) /\ DOMAIN e = DOMAIN x.data_
             /\ IndexOf(e) = x.index_
                  \/ (entry.key \notin DOMAIN x.index_
                        /\ IndexOf(e) = Joined(x.index_, entry.key, k, entry))
             /\ GrownBy(x.index_, key, extent, IndexOf(e))
             /\ entry.key \notin DOMAIN x.index_ /\ entry.key # EmptyKey
                  => IndexOf(e) = Joined(x.index_, entry.key, k, entry)
<1> DEFINE d == x.data_
           e == [d EXCEPT ![k] = entry]
<1>1. entry \in EntryType /\ entry.flag = UsedFlag
  BY CutsTyped
<1>2. DataOK(d) /\ x.index_ = IndexOf(d) /\ DOMAIN x.index_ = KeysOf(d) /\ k \in Nat
  BY DEF Good, FileOK, IndexOf
<1>3. /\ DataOK(e) /\ Full(e, k + 1) /\ DOMAIN e = DOMAIN d /\ e[k] = entry
      /\ \A i \in 0 .. k - 1 : e[i] = d[i]
  BY <1>1, <1>2, WriteFirst
<1> HIDE DEF e
<1>4. IF entry.key \in KeysOf(d) \/ (entry.key = EmptyKey /\ Indexed(d) = {})
      THEN IndexOf(e) = IndexOf(d)
      ELSE IndexOf(e) = Joined(IndexOf(d), entry.key, k, entry)
  BY <1>3, JoinScan
<1>5. IndexOf(e) = x.index_
        \/ (entry.key \notin DOMAIN x.index_
              /\ IndexOf(e) = Joined(x.index_, entry.key, k, entry))
  BY <1>2, <1>4, Zenon
<1>6. GrownBy(x.index_, key, extent, IndexOf(e))
  <2>1. entry \in WrittenCuts(ZeroEntry, key, extent) \ {ZeroEntry}
    OBVIOUS
  <2>2. QED BY <1>2, <1>5, <2>1, Zenon DEF GrownBy
<1>7. entry.key \notin DOMAIN x.index_ /\ entry.key # EmptyKey
        => IndexOf(e) = Joined(x.index_, entry.key, k, entry)
  BY <1>2, <1>4, Zenon
<1>8. QED BY <1>3, <1>5, <1>6, <1>7 DEF e

\* A new key, whole or cut.
LEMMA AddGood ==
  ASSUME NEW x, Good(x), NEW key \in Keys, NEW extent \in Extents,
         key \notin DOMAIN x.index_,
         x.free_entry_solts # {}, Min(x.free_entry_solts) \in DOMAIN x.data_
  PROVE  LET pos == Min(x.free_entry_solts)
         IN  /\ Good(AddEntry(x, key, extent))
             /\ GrownBy(x.index_, key, extent, AddEntry(x, key, extent).index_)
             /\ \E k \in Nat : AddEntry(x, key, extent).index_
                                 = Joined(x.index_, key, k, Written(key, extent))
             /\ AddEntry(x, key, extent).num_entries = x.num_entries
             /\ DOMAIN AddEntry(x, key, extent).data_ = DOMAIN x.data_
             /\ \A entry \in WrittenCuts(x.data_[pos], key, extent) :
                  LET f == [x EXCEPT !.data_[pos] = entry]
                  IN  /\ FileOK(f) /\ GrownBy(x.index_, key, extent, IndexOf(f.data_))
                      /\ f.num_entries = x.num_entries /\ DOMAIN f.data_ = DOMAIN x.data_
<1> DEFINE n == x.num_entries
           pos == Min(x.free_entry_solts)
           written == Written(key, extent)
           y == AddEntry(x, key, extent)
<1>1. PICK k \in 0 .. n - 1 : /\ Full(x.data_, k) /\ n - k <= x.num_free_entries
                              /\ pos = k /\ k \in DOMAIN x.data_ /\ x.data_[k] = ZeroEntry
  BY FirstFree
<1>2. /\ n \in Nat \ {0} /\ x.num_free_entries \in 0 .. n /\ DataOK(x.data_) /\ IsIndex(x)
      /\ UsedIn(x.data_) = 0 .. k - 1 /\ k \in Nat /\ k < n
  BY <1>1 DEF Good, FileOK, Full
<1> DEFINE Data(entry) == [x.data_ EXCEPT ![k] = entry]
<1>3. written \in WrittenCuts(ZeroEntry, key, extent) /\ written # ZeroEntry
      /\ written.key = key /\ key # EmptyKey
  <2>1. written = Stored(key, extent.off, extent.value_size, extent.disk_size)
    BY DEF Written, Stored
  <2>2. written # ZeroEntry
    BY DEF Written, ZeroEntry, UsedFlag, FreeFlag
  <2>3. QED BY <2>1, <2>2, CutsAre, IndexAssumption DEF Stored
<1>4. ASSUME NEW entry \in WrittenCuts(ZeroEntry, key, extent)
      PROVE  LET f == [x EXCEPT !.data_[pos] = entry]
             IN  /\ FileOK(f) /\ GrownBy(x.index_, key, extent, IndexOf(f.data_))
                 /\ f.num_entries = n /\ DOMAIN f.data_ = DOMAIN x.data_
  <2> DEFINE f == [x EXCEPT !.data_[pos] = entry]
  <2>1. f = [x EXCEPT !.data_ = Data(entry)]
    BY <1>1
  <2>2. f.num_entries = n /\ f.num_free_entries = x.num_free_entries /\ f.data_ = Data(entry)
    <3> HIDE DEF f, Data
    <3>1. QED BY <1>2, <2>1 DEF IsIndex
  <2>3. CASE entry = ZeroEntry
    <3>1. Data(entry) = x.data_
      BY <1>1, <1>2, <2>3 DEF DataOK
    <3> HIDE DEF f, Data
    <3>2. FileOK(f) /\ IndexOf(f.data_) = x.index_
      BY <2>2, <3>1 DEF Good, FileOK
    <3>3. QED BY <2>2, <3>1, <3>2 DEF GrownBy, f
  <2>4. CASE entry # ZeroEntry
    <3>1. /\ DataOK(Data(entry)) /\ Full(Data(entry), k + 1)
          /\ DOMAIN Data(entry) = DOMAIN x.data_ /\ GrownBy(x.index_, key, extent, IndexOf(Data(entry)))
      BY <1>1, <2>4, EntryGrows
    <3> HIDE DEF f, Data
    <3>2. k + 1 \in 0 .. n /\ n - (k + 1) <= x.num_free_entries
      BY <1>1, <1>2
    <3>3. FileOK(f)
      BY <1>2, <2>2, <3>1, <3>2 DEF FileOK
    <3>4. QED BY <2>2, <3>1, <3>3 DEF f
  <2>5. QED BY <2>3, <2>4
<1>5. /\ y.num_entries = n /\ y.num_free_entries = x.num_free_entries - 1
      /\ y.data_ = Data(written)
      /\ y.index_ = Joined(x.index_, key, k, written)
      /\ y.free_entry_solts = x.free_entry_solts \ {k}
      /\ IsIndex(y)
  <2> DEFINE index == [other \in DOMAIN x.index_ \cup {key} |->
                         IF other = key THEN [pos |-> k, extent |-> extent] ELSE x.index_[other]]
  <2>1. y = [x EXCEPT !.free_entry_solts = x.free_entry_solts \ {k}, !.index_ = index,
                      !.data_ = Data(written), !.num_free_entries = x.num_free_entries - 1]
    BY <1>1 DEF AddEntry
  <2>2. index = Joined(x.index_, key, k, written)
    BY <1>3, CutsTyped DEF Joined
  <2> HIDE DEF index, Data, y, written, n
  <2>3. y = [num_entries |-> x.num_entries, num_free_entries |-> x.num_free_entries - 1,
             data_ |-> Data(written), index_ |-> index,
             free_entry_solts |-> x.free_entry_solts \ {k}]
    BY <1>2, <2>1 DEF IsIndex
  <2>4. QED BY <2>2, <2>3 DEF IsIndex, n
<1>6. /\ DataOK(Data(written)) /\ Full(Data(written), k + 1)
      /\ DOMAIN Data(written) = DOMAIN x.data_ /\ GrownBy(x.index_, key, extent, IndexOf(Data(written)))
      /\ IndexOf(Data(written)) = Joined(x.index_, key, k, written)
  BY <1>1, <1>3, EntryGrows
<1> HIDE DEF y, Data, written
<1>7. FileOK(y)
  <2>1. /\ k + 1 \in 0 .. n /\ n - (k + 1) <= x.num_free_entries - 1
        /\ x.num_free_entries - 1 \in 0 .. n
    BY <1>1, <1>2
  <2>2. QED BY <1>2, <1>5, <1>6, <2>1 DEF FileOK
<1>8. FreeIn(y) = FreeIn(x) \ {k}
  <2>1. UsedIn(y.data_) = 0 .. k
    BY <1>2, <1>5, <1>6 DEF Full
  <2>2. QED BY <1>2, <1>5, <2>1 DEF FreeIn
<1>9. /\ y.free_entry_solts \subseteq FreeIn(y)
      /\ FreeIn(y) \cap DOMAIN y.data_ \subseteq y.free_entry_solts
  BY <1>5, <1>6, <1>8 DEF Good
<1>10. Good(y)
  BY <1>5, <1>6, <1>7, <1>9 DEF Good
<1>11. k \in Nat
  BY <1>2
<1>12. QED BY <1>1, <1>4, <1>5, <1>6, <1>10, <1>11 DEF y, written

\* A call of Put, whole or cut, with any expansion in it.
LEMMA PutGood ==
  ASSUME NEW x, Good(x), NEW key \in Keys, NEW extent \in Extents,
         PutDefined(x, key), WritesInFile(WithRoom(x), key)
  PROVE  /\ Good(Put(x, key, extent))
         /\ GrownBy(x.index_, key, extent, Put(x, key, extent).index_)
         /\ key \in DOMAIN x.index_ => Put(x, key, extent).index_ = x.index_
         /\ key \notin DOMAIN x.index_ =>
              \E k \in Nat : Put(x, key, extent).index_
                               = Joined(x.index_, key, k, Written(key, extent))
         /\ Fits(x) => Fits(Put(x, key, extent))
         /\ \A f \in PutCuts(x, key, extent) :
              FileOK(f) /\ GrownBy(x.index_, key, extent, IndexOf(f.data_)) /\ (Fits(x) => Fits(f))
<1> DEFINE y == WithRoom(x)
           z == Put(x, key, extent)
           Fine(f) == FileOK(f) /\ GrownBy(x.index_, key, extent, IndexOf(f.data_)) /\ (Fits(x) => Fits(f))
<1>1. Good(y) /\ y.index_ = x.index_ /\ (Fits(x) => Fits(y))
  BY ExpandGood DEF WithRoom
<1>2. \A f : Good(f) /\ f.index_ = x.index_ /\ (Fits(x) => Fits(f)) => Fine(f)
  BY DEF Good, GrownBy
<1>3. \A f \in (IF x.num_free_entries = 0 THEN ExpandFileCuts(x) ELSE {x}) : Fine(f)
  <2>1. CASE x.num_free_entries = 0
    BY <2>1, ExpandGood DEF GrownBy
  <2>2. CASE x.num_free_entries # 0
    BY <1>2, <2>2
  <2>3. QED BY <2>1, <2>2
<1>4. CASE key \in DOMAIN y.index_
  <2>1. z = y
    BY <1>1, <1>4, RewriteSame DEF Put
  <2>2. \A f \in PutCuts(x, key, extent) : Fine(f)
    <3>1. PutCuts(x, key, extent) =
            (IF x.num_free_entries = 0 THEN ExpandFileCuts(x) ELSE {x}) \cup {} \cup {z}
      BY <1>4, Zenon DEF PutCuts
    <3> HIDE DEF z, Fine, y
    <3>2. Fine(z)
      BY <1>1, <1>2, <2>1
    <3>3. QED BY <1>3, <3>1, <3>2
  <2>3. QED BY <1>1, <1>4, <2>1, <2>2 DEF GrownBy
<1>5. CASE key \notin DOMAIN y.index_
  <2> DEFINE pos == Min(y.free_entry_solts)
             Cut(entry) == [y EXCEPT !.data_[pos] = entry]
             cuts == WrittenCuts(y.data_[pos], key, extent)
  <2>1. y.free_entry_solts # {} /\ pos \in DOMAIN y.data_
    BY <1>5 DEF PutDefined, WritesInFile
  <2>2. z = AddEntry(y, key, extent)
    BY <1>5, Zenon DEF Put
  <2>3. /\ Good(z) /\ GrownBy(y.index_, key, extent, z.index_)
        /\ \E k \in Nat : z.index_ = Joined(y.index_, key, k, Written(key, extent))
        /\ z.num_entries = y.num_entries /\ DOMAIN z.data_ = DOMAIN y.data_
        /\ \A entry \in cuts : /\ FileOK(Cut(entry)) /\ GrownBy(y.index_, key, extent, IndexOf(Cut(entry).data_))
                               /\ Cut(entry).num_entries = y.num_entries
                               /\ DOMAIN Cut(entry).data_ = DOMAIN y.data_
    BY <1>1, <1>5, <2>1, <2>2, AddGood
  <2>4. PutCuts(x, key, extent) =
          (IF x.num_free_entries = 0 THEN ExpandFileCuts(x) ELSE {x})
            \cup {Cut(entry) : entry \in cuts} \cup {z}
    BY <1>5, Zenon DEF PutCuts
  <2> HIDE DEF y, z, Cut, cuts
  <2>5. \A entry \in cuts : Fine(Cut(entry))
    BY <1>1, <2>3 DEF Fits
  <2>6. (Fits(x) => Fits(z)) /\ GrownBy(x.index_, key, extent, z.index_)
    BY <1>1, <2>3 DEF Fits
  <2>7. Fine(z)
    BY <2>3, <2>6 DEF Good
  <2> HIDE DEF Fine
  <2>8. \A f \in PutCuts(x, key, extent) : Fine(f)
    BY <1>3, <2>4, <2>5, <2>7
  <2>9. QED BY <1>1, <1>5, <2>3, <2>6, <2>8 DEF Fine, z
<1>6. QED BY <1>4, <1>5

\* A new file is good, and has no records.
LEMMA CreateGood ==
  LET x == OpenFile(CreateFile(NumEntries))
  IN  Good(x) /\ Fits(x) /\ DOMAIN x.index_ = {}
<1> DEFINE f == CreateFile(NumEntries)
           x == OpenFile(f)
<1>1. NumEntries \in Nat \ {0}
  BY IndexAssumption
<1>2. /\ f.num_entries = NumEntries /\ f.num_free_entries = NumEntries
      /\ DOMAIN f.data_ = 0 .. NumEntries - 1
      /\ \A i \in 0 .. NumEntries - 1 : f.data_[i] = ZeroEntry
      /\ f.data_ \in [0 .. NumEntries - 1 -> EntryType]
  <2>1. ZeroEntry \in EntryType
    BY DEF ZeroEntry, EntryType, AnyKey
  <2>2. QED BY <2>1 DEF CreateFile
<1> HIDE DEF f
<1>3. UsedIn(f.data_) = {}
  BY <1>2 DEF UsedIn, ZeroEntry, UsedFlag, FreeFlag
<1>4. DataOK(f.data_)
  BY <1>1, <1>2, <1>3 DEF DataOK
<1>5. Full(f.data_, 0)
  BY <1>3 DEF Full
<1>6. FileOK(f)
  BY <1>1, <1>2, <1>4, <1>5 DEF FileOK
<1>7. Good(x) /\ x.data_ = f.data_ /\ x.num_entries = f.num_entries
  BY <1>6, OpenGood
<1> HIDE DEF x
<1>8. Fits(x)
  BY <1>1, <1>2, <1>7 DEF Fits
<1>9. DOMAIN x.index_ = {}
  <2>1. x.index_ = IndexOf(f.data_)
    BY <1>7 DEF Good
  <2>2. QED BY <1>3, <2>1 DEF IndexOf, KeysOf, Indexed
<1>10. QED BY <1>7, <1>8, <1>9 DEF x, f

\* While the file holds what the header says, Put's stores are inside it.
LEMMA FitsWrites ==
  ASSUME NEW x, Good(x), Fits(x), NEW key, PutDefined(x, key)
  PROVE  WritesInFile(WithRoom(x), key)
<1> DEFINE y == WithRoom(x)
<1>1. Good(y) /\ Fits(y)
  BY ExpandGood DEF WithRoom
<1> HIDE DEF y
<1>2. SUFFICES ASSUME y.free_entry_solts # {} PROVE Min(y.free_entry_solts) \in DOMAIN y.data_
  BY DEF PutDefined, WritesInFile, y
<1>3. y.free_entry_solts \subseteq 0 .. y.num_entries - 1 /\ y.num_entries \in Nat
  BY <1>1 DEF Good, FileOK, FreeIn
<1>4. Min(y.free_entry_solts) \in y.free_entry_solts
  <2>1. y.free_entry_solts \in SUBSET Nat
    BY <1>3
  <2>2. QED BY <1>2, <2>1, MinExists
<1>5. QED BY <1>1, <1>3, <1>4 DEF Fits

\* Put leaves all records as they are and adds at most one, of its key or a broken one.
LEMMA GrownKeeps ==
  ASSUME NEW before, NEW key, NEW extent, NEW after, GrownBy(before, key, extent, after)
  PROVE  /\ DOMAIN before \subseteq DOMAIN after
         /\ DOMAIN after \subseteq DOMAIN before \cup {key, EmptyKey, TornKey}
         /\ \A other \in DOMAIN before : after[other] = before[other]
<1>1. ASSUME NEW entry \in WrittenCuts(ZeroEntry, key, extent)
      PROVE  entry.key \in {key, EmptyKey, TornKey}
  <2>1. ZeroEntry.key = EmptyKey /\ \A name, o, v, s : Stored(name, o, v, s).key = name
    BY DEF ZeroEntry, Stored
  <2>2. QED BY <2>1, CutsAre
<1>2. CASE after = before
  BY <1>2
<1>3. ASSUME NEW k \in Nat, NEW entry \in WrittenCuts(ZeroEntry, key, extent),
             entry.key \notin DOMAIN before, after = Joined(before, entry.key, k, entry)
      PROVE  /\ DOMAIN after = DOMAIN before \cup {entry.key}
             /\ \A other \in DOMAIN before : after[other] = before[other]
  <2> DEFINE name == entry.key
  <2> HIDE DEF name
  <2>1. after = Joined(before, name, k, entry) /\ name \notin DOMAIN before
    BY <1>3 DEF name
  <2>2. DOMAIN after = DOMAIN before \cup {name}
    BY <2>1 DEF Joined
  <2>3. \A other \in DOMAIN before : after[other] = before[other]
    BY <2>1 DEF Joined
  <2>4. QED BY <2>2, <2>3 DEF name
<1>4. QED BY <1>1, <1>2, <1>3 DEF GrownBy

\* What the next process finds in a file.
LEMMA OpenFinds ==
  ASSUME NEW f, FileOK(f)
  PROVE  /\ Good(OpenFile(f)) /\ OpenFile(f).index_ = IndexOf(f.data_)
         /\ Fits(f) = Fits(OpenFile(f))
<1>1. /\ Good(OpenFile(f)) /\ OpenFile(f).data_ = f.data_
      /\ OpenFile(f).num_entries = f.num_entries
  BY OpenGood
<1>2. OpenFile(f).index_ = IndexOf(f.data_)
  BY <1>1 DEF Good
<1>3. Fits(f) = Fits(OpenFile(f))
  BY <1>1 DEF Fits
<1>4. QED BY <1>1, <1>2, <1>3

-----------------------------------------------------------------------------
(* The machine.                                                            *)

Inv ==
  /\ Good(idx)
  /\ {up, refused} \subseteq BOOLEAN
  /\ refused \/ Fits(idx)

LEMMA LeftGood ==
  ASSUME NEW f, FileOK(f), OpenLeft(f)
  PROVE  /\ Good(idx') /\ up' \in BOOLEAN /\ (Fits(f) => Fits(idx)')
         /\ idx'.index_ = IndexOf(f.data_)
<1>1. idx' = OpenFile(f) /\ up' = Fits(f)
  BY Zenon DEF OpenLeft
<1>2. up' \in BOOLEAN
  BY <1>1 DEF Fits
<1>3. QED BY <1>1, <1>2, OpenFinds

LEMMA InitGood == Init => Inv /\ entries = <<>>
<1>1. SUFFICES ASSUME Init PROVE Inv /\ entries = <<>>
  OBVIOUS
<1> DEFINE f == CreateFile(NumEntries)
<1>2. Good(OpenFile(f)) /\ Fits(OpenFile(f)) /\ DOMAIN OpenFile(f).index_ = {}
  BY CreateGood
<1>3. idx = OpenFile(f) /\ up = TRUE /\ refused = FALSE
  BY <1>1 DEF Init
<1> HIDE DEF f
<1>4. entries = <<>>
  BY <1>2, <1>3 DEF entries
<1>5. QED BY <1>2, <1>3, <1>4 DEF Inv

LEMMA NextGood == Inv /\ Next => Inv' /\ Grown(idx.index_, idx'.index_)
<1>1. SUFFICES ASSUME Inv, Next PROVE Inv' /\ Grown(idx.index_, idx'.index_)
  OBVIOUS
<1>2. Good(idx) /\ up \in BOOLEAN /\ refused \in BOOLEAN /\ (refused \/ Fits(idx))
  BY <1>1 DEF Inv
<1>3. FileOK(idx) /\ IndexOf(idx.data_) = idx.index_
  BY <1>2 DEF Good
<1>4. \A a, key, extent, b :
        Grown(a, a) /\ (key \in Keys /\ extent \in Extents /\ GrownBy(a, key, extent, b) => Grown(a, b))
  BY DEF Grown
<1>5. ASSUME NEW key \in Keys, NEW extent \in Extents, PutEntry(key, extent)
      PROVE  Inv' /\ Grown(idx.index_, idx'.index_)
  <2>1. idx' = Put(idx, key, extent) /\ up' = up /\ refused' = refused
        /\ PutDefined(idx, key) /\ WritesInFile(WithRoom(idx), key)
    BY <1>5 DEF PutEntry
  <2>2. QED BY <1>2, <1>4, <2>1, PutGood DEF Inv
<1>6. ASSUME NEW key \in Keys, PutFaults(key)
      PROVE  Inv' /\ Grown(idx.index_, idx'.index_)
  BY <1>2, <1>3, <1>4, <1>6, LeftGood DEF PutFaults, Inv
<1>7. ASSUME NEW key \in Keys, NEW extent \in Extents, PutRefused(key, extent)
      PROVE  Inv' /\ Grown(idx.index_, idx'.index_)
  <2> DEFINE y == Doubled(idx)
  <2>1. idx.num_free_entries = 0 /\ refused' = TRUE
    BY <1>7 DEF PutRefused
  <2>2. /\ Good(y) /\ y.num_free_entries # 0 /\ y.free_entry_solts # {}
        /\ y.index_ = idx.index_
    BY <1>2, <2>1, DoubledGood
  <2>3. CASE WritesInFile(y, key)
    <3>1. idx' = Put(y, key, extent) /\ up' = up
      BY <1>7, <2>3 DEF PutRefused
    <3> HIDE DEF y
    <3>2. WithRoom(y) = y
      BY <2>2 DEF WithRoom
    <3>3. PutDefined(y, key) /\ WritesInFile(WithRoom(y), key)
      BY <2>2, <2>3, <3>2 DEF PutDefined
    <3>4. QED BY <1>2, <1>4, <2>1, <2>2, <3>1, <3>3, PutGood DEF Inv
  <2>4. CASE ~ WritesInFile(y, key)
    <3>1. OpenLeft(y)
      BY <1>7, <2>4 DEF PutRefused
    <3> HIDE DEF y
    <3>2. FileOK(y) /\ IndexOf(y.data_) = idx.index_
      BY <2>2 DEF Good
    <3>3. QED BY <1>4, <2>1, <3>1, <3>2, LeftGood DEF Inv
  <2>5. QED BY <2>3, <2>4
<1>8. ASSUME Reopen
      PROVE  Inv' /\ Grown(idx.index_, idx'.index_)
  BY <1>2, <1>3, <1>4, <1>8, LeftGood DEF Reopen, Inv
<1>9. ASSUME NEW key \in Keys, NEW extent \in Extents, CrashInPut(key, extent)
      PROVE  Inv' /\ Grown(idx.index_, idx'.index_)
  <2>1. PICK f \in PutCuts(idx, key, extent) : OpenLeft(f)
    BY <1>9 DEF CrashInPut
  <2>2. PutDefined(idx, key) /\ WritesInFile(WithRoom(idx), key) /\ refused' = refused
    BY <1>9 DEF CrashInPut
  <2>3. FileOK(f) /\ Grown(idx.index_, IndexOf(f.data_)) /\ (Fits(idx) => Fits(f))
    BY <1>2, <1>4, <2>2, PutGood
  <2>4. QED BY <1>2, <2>1, <2>2, <2>3, LeftGood DEF Inv
<1>10. ASSUME CrashInRefused
       PROVE  Inv' /\ Grown(idx.index_, idx'.index_)
  <2>1. PICK f \in DoubledCuts(idx) : OpenLeft(f)
    BY <1>10 DEF CrashInRefused
  <2>2. idx.num_free_entries = 0 /\ refused' = TRUE
    BY <1>10 DEF CrashInRefused
  <2>3. FileOK(f) /\ f.data_ = idx.data_
    BY <1>2, <2>2, DoubledGood
  <2>4. QED BY <1>3, <1>4, <2>1, <2>2, <2>3, LeftGood DEF Inv
<1>11. QED BY <1>1, <1>5, <1>6, <1>7, <1>8, <1>9, <1>10 DEF Next

LEMMA AlwaysGood == Spec => []Inv
<1>1. Init => Inv
  BY InitGood
<1>2. Inv /\ [Next]_vars => Inv'
  <2>1. SUFFICES ASSUME Inv, [Next]_vars PROVE Inv'
    OBVIOUS
  <2>2. CASE Next
    BY <2>1, <2>2, NextGood
  <2>3. CASE UNCHANGED vars
    BY <2>1, <2>3 DEF vars, Inv
  <2>4. QED BY <2>1, <2>2, <2>3
<1>3. QED BY <1>1, <1>2, PTL DEF Spec

-----------------------------------------------------------------------------
(* Theorems.                                                               *)

\* The fields of the header and of every entry stay in range, so num_free_entries
\* does not wrap, and no entry beyond those of the header is handed out.
THEOREM TypeCorrect == Spec => []TypeOK
<1>1. Inv => TypeOK
  <2>1. SUFFICES ASSUME Inv PROVE TypeOK
    OBVIOUS
  <2>2. Good(idx) /\ {up, refused} \subseteq BOOLEAN
    BY <2>1 DEF Inv
  <2>3. idx.num_entries \in Nat \ {0} /\ idx.num_free_entries \in 0 .. idx.num_entries
    BY <2>2 DEF Good, FileOK
  <2>4. \A i \in DOMAIN idx.data_ : idx.data_[i] \in EntryType
    BY <2>2 DEF Good, FileOK, DataOK
  <2>5. DOMAIN idx.index_ \subseteq AnyKey
    BY <2>2, IndexFinds
  <2>6. idx.free_entry_solts \subseteq Positions
    BY <2>2 DEF Good, FreeIn, Positions
  <2>7. QED BY <2>2, <2>3, <2>4, <2>5, <2>6 DEF TypeOK, EntryType
<1>2. QED BY <1>1, AlwaysGood, PTL

\* After any calls, refused expansions, kills and restarts the skip list and the set of
\* free entries are those of the file.
THEOREM FileAndMemoryAgree == Spec => []IndexMatchesFile
<1>1. Inv => IndexMatchesFile
  <2>1. SUFFICES ASSUME Inv PROVE IndexMatchesFile
    OBVIOUS
  <2>2. Good(idx)
    BY <2>1 DEF Inv
  <2>3. ASSUME NEW key \in DOMAIN idx.index_
        PROVE  LET e == idx.index_[key]
               IN  /\ e.pos \in DOMAIN idx.data_
                   /\ idx.data_[e.pos] = Written(key, e.extent)
    BY <2>2, IndexFinds DEF UsedIn
  <2>4. ASSUME NEW i \in DOMAIN idx.data_ \cap Positions
        PROVE  idx.data_[i].flag = UsedFlag <=> i \notin idx.free_entry_solts
    BY <2>2 DEF Good, FreeIn, UsedIn, Positions
  <2>5. ASSUME NEW i \in UsedIn(idx.data_)
        PROVE  i \in Positions /\ idx.data_[i].key \in DOMAIN idx.index_ \cup {EmptyKey}
    <3>1. PICK k \in 0 .. idx.num_entries : Full(idx.data_, k)
      BY <2>2 DEF Good, FileOK
    <3>2. i \in Positions /\ i <= i
      BY <2>2, <3>1 DEF Good, FileOK, Full, Positions
    <3>3. idx.data_[i].key # EmptyKey => i \in Indexed(idx.data_)
      BY <3>2 DEF Indexed
    <3>4. DOMAIN idx.index_ = KeysOf(idx.data_)
      BY <2>2 DEF Good, IndexOf
    <3>5. QED BY <3>2, <3>3, <3>4 DEF KeysOf
  <2>6. QED BY <2>3, <2>4, <2>5 DEF IndexMatchesFile
<1>2. QED BY <1>1, AlwaysGood, PTL

\* The header counts every free entry there is.
THEOREM FileGrowsOnlyWhenFull == Spec => []HeaderNeverShort
<1>1. Inv => HeaderNeverShort
  <2>1. SUFFICES ASSUME Inv PROVE HeaderNeverShort
    OBVIOUS
  <2>2. Good(idx)
    BY <2>1 DEF Inv
  <2> DEFINE n == idx.num_entries
  <2>3. PICK k \in 0 .. n : Full(idx.data_, k) /\ n - k <= idx.num_free_entries
    BY <2>2 DEF Good, FileOK
  <2>4. n \in Nat /\ k \in Nat /\ k <= n /\ idx.num_free_entries \in Nat
    BY <2>2, <2>3 DEF Good, FileOK
  <2>5. FreeIn(idx) = k .. n - 1
    BY <2>3, <2>4 DEF FreeIn, Full
  <2>6. idx.free_entry_solts \subseteq k .. n - 1
    BY <2>2, <2>5 DEF Good
  <2>7. IsFiniteSet(k .. n - 1) /\ Cardinality(k .. n - 1) = n - k
    <3>1. k \in Int /\ n - 1 \in Int /\ n \in Int
      BY <2>4
    <3> HIDE DEF n
    <3>2. /\ IsFiniteSet(k .. n - 1)
          /\ Cardinality(k .. n - 1) = IF k > n - 1 THEN 0 ELSE (n - 1) - k + 1
      BY <3>1, FS_Interval, Zenon
    <3>3. QED BY <2>4, <3>1, <3>2
  <2>8. Cardinality(idx.free_entry_solts) <= n - k /\ Cardinality(idx.free_entry_solts) \in Nat
    BY <2>6, <2>7, FS_Subset, FS_CardinalityType
  <2>9. Cardinality(idx.free_entry_solts) <= idx.num_free_entries
    BY <2>3, <2>4, <2>8
  <2>10. QED BY <2>9 DEF HeaderNeverShort
<1>2. QED BY <1>1, AlwaysGood, PTL

\* No kill inside an expansion leaves a header that counts entries the file does not hold.
THEOREM HeaderWithinFile == Spec => []FileHoldsEntries
<1>1. Inv => FileHoldsEntries
  BY DEF Inv, FileHoldsEntries
<1>2. QED BY <1>1, AlwaysGood, PTL

\* What one call may do to the records is a step of IndexStore.
LEMMA GrownIsStep == Grown(idx.index_, idx'.index_) => [S!Next]_entries
<1>1. SUFFICES ASSUME Grown(idx.index_, idx'.index_) PROVE S!Next \/ entries' = entries
  OBVIOUS
<1>2. CASE idx'.index_ = idx.index_
  BY <1>2 DEF entries
<1>3. ASSUME NEW key \in Keys, NEW extent \in Extents, NEW k \in Nat,
             NEW entry \in WrittenCuts(ZeroEntry, key, extent), entry # ZeroEntry,
             entry.key \notin DOMAIN idx.index_,
             idx'.index_ = Joined(idx.index_, entry.key, k, entry)
      PROVE  S!Next
  <2>1. S!Kept(entry.key, Extent(entry))
    <3> DEFINE index == idx.index_
               name == entry.key
               later == Joined(index, name, k, entry)
    <3>1. /\ DOMAIN later = DOMAIN index \cup {name}
          /\ \A other \in DOMAIN index : later[other] = index[other]
          /\ later[name].extent = Extent(entry)
      BY <1>3 DEF Joined
    <3>2. idx'.index_ = later
      BY <1>3
    <3> HIDE DEF later
    <3>3. entries' = [other \in DOMAIN index \cup {name} |-> later[other].extent]
      BY <3>1, <3>2 DEF entries
    <3>4. \A other \in DOMAIN index : entries[other] = later[other].extent
      BY <3>1 DEF entries
    <3>5. DOMAIN entries = DOMAIN index
      BY DEF entries
    <3> HIDE DEF index, name
    <3>6. entries' = [other \in DOMAIN entries \cup {name} |->
                        IF other \in DOMAIN entries THEN entries[other] ELSE Extent(entry)]
      <4>1. \A other \in DOMAIN index \cup {name} :
              later[other].extent =
                IF other \in DOMAIN entries THEN entries[other] ELSE Extent(entry)
        BY <3>1, <3>4, <3>5
      <4>2. QED BY <3>3, <3>5, <4>1
    <3>7. QED BY <3>6 DEF S!Kept, name
  <2>2. extent \in ExtentType
    BY IndexAssumption DEF ExtentType
  <2> DEFINE Short(o, v, s) == [off |-> o, value_size |-> v, disk_size |-> s]
  <2>3. /\ [extent EXCEPT !.disk_size = 0] = Short(extent.off, extent.value_size, 0)
        /\ [extent EXCEPT !.disk_size = 0, !.value_size = 0] = Short(extent.off, 0, 0)
        /\ [extent EXCEPT !.disk_size = 0, !.value_size = 0, !.off = 0] = Short(0, 0, 0)
        /\ extent = Short(extent.off, extent.value_size, extent.disk_size)
    <3>1. PICK o \in Nat, v \in Nat, s \in Nat :
            extent = [off |-> o, value_size |-> v, disk_size |-> s]
      BY <2>2, Zenon DEF ExtentType
    <3>2. [extent EXCEPT !.disk_size = 0] = Short(o, v, 0)
      BY <3>1
    <3>3. [extent EXCEPT !.disk_size = 0, !.value_size = 0] = Short(o, 0, 0)
      <4>1. [extent EXCEPT !.disk_size = 0, !.value_size = 0]
              = [[extent EXCEPT !.disk_size = 0] EXCEPT !.value_size = 0]
        BY <3>1
      <4>2. [Short(o, v, 0) EXCEPT !.value_size = 0] = Short(o, 0, 0)
        OBVIOUS
      <4> HIDE DEF Short
      <4>3. QED BY <3>2, <4>1, <4>2
    <3>4. [extent EXCEPT !.disk_size = 0, !.value_size = 0, !.off = 0] = Short(0, 0, 0)
      <4>1. [extent EXCEPT !.disk_size = 0, !.value_size = 0, !.off = 0]
              = [[extent EXCEPT !.disk_size = 0, !.value_size = 0] EXCEPT !.off = 0]
        BY <3>1
      <4>2. [Short(o, 0, 0) EXCEPT !.off = 0] = Short(0, 0, 0)
        OBVIOUS
      <4> HIDE DEF Short
      <4>3. QED BY <3>3, <4>1, <4>2
    <3>5. extent.off = o /\ extent.value_size = v /\ extent.disk_size = s
      BY <3>1
    <3>6. extent = Short(o, v, s)
      BY <3>1
    <3> HIDE DEF Short
    <3>7. QED BY <3>2, <3>3, <3>4, <3>5, <3>6
  <2>4. \A name, o, v, s : /\ Stored(name, o, v, s).key = name
                          /\ Extent(Stored(name, o, v, s)) = Short(o, v, s)
    BY DEF Stored, Extent
  <2> HIDE DEF Short
  <2>5. \/ entry = Stored(EmptyKey, 0, 0, 0)
        \/ entry = Stored(TornKey, 0, 0, 0)
        \/ entry = Stored(key, 0, 0, 0)
        \/ entry = Stored(key, extent.off, 0, 0)
        \/ entry = Stored(key, extent.off, extent.value_size, 0)
        \/ entry = Stored(key, extent.off, extent.value_size, extent.disk_size)
    BY <1>3, CutsAre, Zenon
  <2>6. CASE entry = Stored(EmptyKey, 0, 0, 0) \/ entry = Stored(TornKey, 0, 0, 0)
    <3>1. entry.key \in {EmptyKey, TornKey} /\ Extent(entry) = Short(0, 0, 0)
      BY <2>4, <2>6
    <3>2. S!KilledPut(key, extent)
      BY <2>1, <2>3, <3>1 DEF S!KilledPut
    <3>3. QED BY <3>2 DEF S!Next
  <2>7. CASE \/ entry = Stored(key, 0, 0, 0)
             \/ entry = Stored(key, extent.off, 0, 0)
             \/ entry = Stored(key, extent.off, extent.value_size, 0)
    <3>1. entry.key = key
          /\ Extent(entry) \in {Short(0, 0, 0), Short(extent.off, 0, 0),
                                Short(extent.off, extent.value_size, 0)}
      BY <2>4, <2>7
    <3>2. Extent(entry) \in S!CutShort(extent)
      BY <2>3, <3>1 DEF S!CutShort
    <3>3. S!KilledPut(key, extent)
      BY <2>1, <3>1, <3>2 DEF S!KilledPut
    <3>4. QED BY <3>3 DEF S!Next
  <2>8. CASE entry = Stored(key, extent.off, extent.value_size, extent.disk_size)
    <3>1. entry.key = key /\ Extent(entry) = extent
      BY <2>3, <2>4, <2>8
    <3>2. S!Put(key, extent)
      BY <2>1, <3>1 DEF S!Put
    <3>3. QED BY <3>2 DEF S!Next
  <2>9. QED BY <2>5, <2>6, <2>7, <2>8
<1>4. QED BY <1>1, <1>2, <1>3, Zenon DEF Grown, GrownBy

\* The index with its file, its kills and its restarts implements the index of
\* IndexStore: what a client reads is never lost, changed or mixed up with another key's.
THEOREM Implements == Spec => ImplementsIndexStore
<1>1. Init => S!Init
  BY InitGood DEF S!Init
<1>2. Inv /\ [Next]_vars => [S!Next]_entries
  <2>1. SUFFICES ASSUME Inv, [Next]_vars PROVE [S!Next]_entries
    OBVIOUS
  <2>2. CASE Next
    BY <2>1, <2>2, NextGood, GrownIsStep
  <2>3. CASE UNCHANGED vars
    BY <2>3 DEF vars, entries
  <2>4. QED BY <2>1, <2>2, <2>3
<1>3. QED BY <1>1, <1>2, AlwaysGood, PTL DEF Spec, ImplementsIndexStore, S!Spec

=============================================================================
