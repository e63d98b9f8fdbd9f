----------------------------- MODULE IndexFile -----------------------------
(***************************************************************************)
(* The index of EntDB (sk_index.cc) as operators over one record x.        *)
(*                                                                         *)
(* Shared with the file by mmap:                                           *)
(*   num_entries, num_free_entries   the header page;                      *)
(*   data_   the entries there is room for in the file.  A kill inside     *)
(*           ExpandFile leaves more of them than num_entries says, a       *)
(*           failing ftruncate fewer.                                      *)
(* In the process only, rebuilt by OpenFile:                               *)
(*   index_   the skip list, as the map KeyMap says it is: key -> record   *)
(*            of the extent and the entry's pos;                           *)
(*   free_entry_solts   the positions of the free entries.                 *)
(* Versions are left out (cur_v_ is 0 in every live caller).  So is Delete *)
(* with recycleEntry: Entdb never calls it, and it copies a std::string    *)
(* object out of an entry's bytes.                                         *)
(*                                                                         *)
(* As in FMBlocks the ...Cuts operators are the files an operation leaves  *)
(* when the process is killed inside it.                                   *)
(***************************************************************************)
EXTENDS Naturals, FiniteSets, FiniteSetsExt

CONSTANTS
  EmptyKey,  \* the key of an entry whose keysize has not been stored
  TornKey    \* a key whose bytes have been copied in part

FreeFlag == 0
UsedFlag == 1931

\* What the index keeps of a key: where its extent is, the length of its value
\* and that of the extent.
Extent(e) == [off |-> e.off, value_size |-> e.value_size, disk_size |-> e.disk_size]

ZeroEntry == [flag |-> FreeFlag, key |-> EmptyKey, off |-> 0, value_size |-> 0, disk_size |-> 0]

CreateFile(num_entries) ==
  [num_entries      |-> num_entries,
   num_free_entries |-> num_entries,
   data_            |-> [i \in 0 .. num_entries - 1 |-> ZeroEntry]]

\* Seeded bug: the scan stops one entry early.
UsedIn_LastSkipped(data) ==
  {i \in DOMAIN data : i + 1 \in DOMAIN data /\ data[i].flag = UsedFlag}

\* The entries readEntry takes for used.
UsedIn(data) == {i \in DOMAIN data : data[i].flag = UsedFlag}

\* The used entries the scan finds a place for.  The empty key is that of nil_, so
\* an empty list already has it: Insert then updates nil_, which nobody reads.
Indexed(data) ==
  {i \in UsedIn(data) : \E j \in UsedIn(data) : j <= i /\ data[j].key # EmptyKey}

\* The entries the header says there are, as far as the file goes.
Scanned(file) == [i \in {j \in DOMAIN file.data_ : j < file.num_entries} |-> file.data_[i]]

\* Does the file hold what the header says?  Where it does not, the scan of
\* OpenFile kills the process.
Fits(file) == 0 .. file.num_entries - 1 \subseteq DOMAIN file.data_

\* OpenFile's scan.  SkipList::Insert keeps the first value of a key, so of two
\* entries with the same key the first one counts.
OpenFile(file) ==
  LET data == Scanned(file)
      indexed == Indexed(data)
      posOf(key) == Min({i \in indexed : data[i].key = key})
  IN  [num_entries      |-> file.num_entries,
       num_free_entries |-> file.num_free_entries,
       data_            |-> file.data_,
       index_           |-> [key \in {data[i].key : i \in indexed} |->
                               [pos |-> posOf(key), extent |-> Extent(data[posOf(key)])]],
       free_entry_solts |-> DOMAIN data \ UsedIn(data)]

\* ftruncate: the new entries are zero.
Lengthened(x) ==
  [x EXCEPT !.data_ = [i \in 0 .. x.num_entries * 2 - 1 |->
                         IF i \in DOMAIN @ THEN @[i] ELSE ZeroEntry]]

\* Seeded bug: the loop that frees the new entries goes one too far.
Doubled_OneMore(x) ==
  [x EXCEPT !.num_entries      = @ * 2,
            !.num_free_entries = @ + x.num_entries,
            !.free_entry_solts = @ \cup x.num_entries .. x.num_entries * 2]

\* The header, and the memory.  When ftruncate fails ExpandFile makes a status and
\* drops it, so this is then all it does.
Doubled(x) ==
  [x EXCEPT !.num_entries      = @ * 2,
            !.num_free_entries = @ + x.num_entries,
            !.free_entry_solts = @ \cup x.num_entries .. x.num_entries * 2 - 1]

ExpandFile(x) == Doubled(Lengthened(x))

\* num_free_entries is stored before num_entries.
DoubledCuts(x) == {x, [x EXCEPT !.num_free_entries = @ + x.num_entries], Doubled(x)}

\* Seeded bug: the header is stored before ftruncate.
ExpandFileCuts_HeaderFirst(x) == {x, Doubled(x), ExpandFile(x)}

ExpandFileCuts(x) == {x} \cup DoubledCuts(Lengthened(x))

\* Put expands the file whether or not the key is new.
WithRoom(x) == IF x.num_free_entries = 0 THEN ExpandFile(x) ELSE x

\* What writeEntry leaves in an entry.
Written(key, extent) ==
  [flag |-> UsedFlag, key |-> key, off |-> extent.off,
   value_size |-> extent.value_size, disk_size |-> extent.disk_size]

\* The entry after each store of writeEntry: flag, keysize and part of the key,
\* key, offset, value size, disk size.
WrittenCuts(entry, key, extent) ==
  LET flagged == [entry EXCEPT !.flag = UsedFlag]
      named   == [flagged EXCEPT !.key = key]
      located == [named EXCEPT !.off = extent.off]
  IN  {entry, flagged, [flagged EXCEPT !.key = TornKey], named, located,
       [located EXCEPT !.value_size = extent.value_size], Written(key, extent)}

\* The key is there: Insert overwrites the new record with the one it finds, which
\* is what is written back.
Rewrite(y, key) ==
  LET e == y.index_[key]
  IN  [y EXCEPT !.data_[e.pos] = Written(key, e.extent)]

\* Seeded bug: the entry taken is not erased from free_entry_solts.
AddEntry_StaysFree(y, key, extent) ==
  LET pos == Min(y.free_entry_solts)
  IN  [y EXCEPT !.index_ = [k \in DOMAIN @ \cup {key} |->
                              IF k = key THEN [pos |-> pos, extent |-> extent] ELSE @[k]],
                !.data_[pos] = Written(key, extent),
                !.num_free_entries = @ - 1]

\* The key is new: it gets the first free entry.
AddEntry(y, key, extent) ==
  LET pos == Min(y.free_entry_solts)
  IN  [y EXCEPT !.free_entry_solts = @ \ {pos},
                !.index_ = [k \in DOMAIN @ \cup {key} |->
                              IF k = key THEN [pos |-> pos, extent |-> extent] ELSE @[k]],
                !.data_[pos] = Written(key, extent),
                !.num_free_entries = @ - 1]

\* Seeded bug: over_write is not looked at, an update counts a free entry less.
Put_CountsUpdates(x, key, extent) ==
  LET y == WithRoom(x)
  IN  IF key \in DOMAIN y.index_
      THEN [Rewrite(y, key) EXCEPT !.num_free_entries = @ - 1]
      ELSE AddEntry(y, key, extent)

Put(x, key, extent) ==
  LET y == WithRoom(x)
  IN  IF key \in DOMAIN y.index_ THEN Rewrite(y, key) ELSE AddEntry(y, key, extent)

\* Put takes begin() of free_entry_solts on the word of num_free_entries; when the
\* set is empty what happens next is undefined.
PutDefined(x, key) ==
  LET y == WithRoom(x) IN key \in DOMAIN y.index_ \/ y.free_entry_solts # {}

\* The first store to an entry beyond the end of the file kills the process.
WritesInFile(y, key) ==
  key \notin DOMAIN y.index_ => Min(y.free_entry_solts) \in DOMAIN y.data_

\* num_free_entries is stored last.  An update stores what the entry has already.
PutCuts(x, key, extent) ==
  LET y == WithRoom(x)
      pos == Min(y.free_entry_solts)
  IN  (IF x.num_free_entries = 0 THEN ExpandFileCuts(x) ELSE {x})
        \cup (IF key \in DOMAIN y.index_ THEN {}
              ELSE {[y EXCEPT !.data_[pos] = entry] :
                      entry \in WrittenCuts(y.data_[pos], key, extent)})
        \cup {Put(x, key, extent)}

=============================================================================
