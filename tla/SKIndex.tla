------------------------------ MODULE SKIndex ------------------------------
(***************************************************************************)
(* The index as a state machine: any sequence of Put calls, reopening,     *)
(* ftruncate refusing an expansion, and a process killed inside Put.  Get  *)
(* is a look at index_ and has no action.                                  *)
(***************************************************************************)
EXTENDS IndexFile

CONSTANTS
  Keys,        \* the keys clients put
  Extents,     \* the extents they put them with
  NumEntries,  \* num_entries when the file is created
  MaxEntries   \* bound: the file is not expanded beyond so many entries

ASSUME IndexAssumption ==
  /\ {EmptyKey, TornKey} \cap Keys = {}
  /\ Extents \subseteq [off : Nat, value_size : Nat, disk_size : Nat]
  /\ NumEntries \in Nat \ {0}

VARIABLES
  idx,     \* the open index, see IndexFile; when it is not open, what the scan of the
           \* file would find
  up,      \* is it open?
  refused  \* history: has ftruncate failed?

vars == <<idx, up, refused>>

Init ==
  /\ idx = OpenFile(CreateFile(NumEntries))
  /\ up = TRUE
  /\ refused = FALSE

\* A new process opens what the last one left.
OpenLeft(file) ==
  /\ idx' = OpenFile(file)
  /\ up' = Fits(file)

\* Bound: the expansion, if there is one, stays within MaxEntries.
MayExpand == idx.num_free_entries = 0 => idx.num_entries * 2 <= MaxEntries

PutEntry(key, extent) ==
  /\ up
  /\ MayExpand
  /\ PutDefined(idx, key)
  /\ WritesInFile(WithRoom(idx), key)
  /\ idx' = Put(idx, key, extent)
  /\ UNCHANGED <<up, refused>>

\* A new key gets an entry that is not in the file: SIGBUS.
PutFaults(key) ==
  /\ up
  /\ idx.num_free_entries # 0
  /\ PutDefined(idx, key)
  /\ ~ WritesInFile(idx, key)
  /\ OpenLeft(idx)
  /\ UNCHANGED refused

\* Put expands the file and ftruncate fails: a known key is updated all the same, a
\* new one gets an entry that is not there.
PutRefused(key, extent) ==
  LET y == Doubled(idx)
  IN  /\ up
      /\ idx.num_free_entries = 0
      /\ MayExpand
      /\ refused' = TRUE
      /\ IF WritesInFile(y, key)
         THEN idx' = Put(y, key, extent) /\ UNCHANGED up
         ELSE OpenLeft(y)

\* Close, then Open in a new process.
Reopen == OpenLeft(idx) /\ UNCHANGED refused

CrashInPut(key, extent) ==
  /\ up
  /\ MayExpand
  /\ PutDefined(idx, key)
  /\ WritesInFile(WithRoom(idx), key)
  /\ \E file \in PutCuts(idx, key, extent) : OpenLeft(file)
  /\ UNCHANGED refused

\* Killed inside ExpandFile after ftruncate has failed.
CrashInRefused ==
  /\ up
  /\ idx.num_free_entries = 0
  /\ MayExpand
  /\ \E file \in DoubledCuts(idx) : OpenLeft(file)
  /\ refused' = TRUE

Next ==
  \/ \E key \in Keys, extent \in Extents : PutEntry(key, extent)
  \/ \E key \in Keys : PutFaults(key)
  \/ \E key \in Keys, extent \in Extents : PutRefused(key, extent)
  \/ Reopen
  \/ \E key \in Keys, extent \in Extents : CrashInPut(key, extent)
  \/ CrashInRefused

Spec == Init /\ [][Next]_vars

-----------------------------------------------------------------------------
(* Properties.                                                             *)

AnyKey == Keys \cup {EmptyKey, TornKey}
Positions == 0 .. idx.num_entries - 1

TypeOK ==
  /\ {up, refused} \subseteq BOOLEAN
  /\ idx.num_entries \in Nat \ {0}
  /\ idx.num_free_entries \in 0 .. idx.num_entries
  /\ \A i \in DOMAIN idx.data_ :
       idx.data_[i] \in [flag : {FreeFlag, UsedFlag}, key : AnyKey,
                         off : Nat, value_size : Nat, disk_size : Nat]
  /\ DOMAIN idx.index_ \subseteq AnyKey
  /\ idx.free_entry_solts \subseteq Positions

\* The skip list and the file hold the same records: every key found is an entry
\* in use with that key and extent, every entry in use has its key found (but for
\* the empty key a kill can leave), and the entries Put may take are those not in
\* use, after any kills.  Entries beyond what the header says are not in use.
IndexMatchesFile ==
  /\ \A key \in DOMAIN idx.index_ :
       LET e == idx.index_[key]
       IN  /\ e.pos \in DOMAIN idx.data_
           /\ idx.data_[e.pos] = Written(key, e.extent)
  /\ \A i \in DOMAIN idx.data_ \cap Positions :
       idx.data_[i].flag = UsedFlag <=> i \notin idx.free_entry_solts
  /\ \A i \in UsedIn(idx.data_) :
       /\ i \in Positions
       /\ idx.data_[i].key \in DOMAIN idx.index_ \cup {EmptyKey}

\* The header counts more entries than the file has room for, of which the process
\* and every later one dies (SIGBUS), only when an ftruncate has failed: no kill
\* inside an expansion does that.
FileHoldsEntries == refused \/ Fits(idx)

\* The header never counts fewer free entries than there are, so that the file is
\* only expanded when it is full and NumIndex never exceeds the entries in use.
HeaderNeverShort == Cardinality(idx.free_entry_solts) <= idx.num_free_entries

\* What Get answers, across calls, kills and restarts, is the index of IndexStore:
\* in particular no entry is ever lost or changed by a Put of another key.
entries == [key \in DOMAIN idx.index_ |-> idx.index_[key].extent]
S == INSTANCE IndexStore WITH BrokenKeys <- {EmptyKey, TornKey}
ImplementsIndexStore == S!Spec

\* In an open index whose expansions all went well: when Put does not expand the file because
\* "num_free_entries == 0" (sk_index.cc:54) is false, there is a free entry ("free entry",
\* :300) to take, else it takes begin() of an empty set (:77).
EntryAtHand == up /\ ~ refused /\ idx.num_free_entries # 0 => idx.free_entry_solts # {}
=============================================================================
