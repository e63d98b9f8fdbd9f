------------------------------ MODULE SkipList ------------------------------
(***************************************************************************)
(* util::SkipList (skiplist.hpp), the in-memory half of the index.         *)
(*                                                                         *)
(* A node is named by its key, so the list has at most one node of a key;  *)
(* header_ and nil_ are numbers no key has.  forward_ maps a node to its   *)
(* vector of successors, one for each level from 0; it has no entry for    *)
(* nil_ or for a node that has been deleted.  Keys are ordered as numbers. *)
(*                                                                         *)
(* The height of a new node is random in the code, any height here.        *)
(* Release and the unused newNode_ and freeNode_ are left out, and so is   *)
(* the empty key, which is the key nil_ happens to have.                   *)
(***************************************************************************)
EXTENDS Integers, FiniteSets, FiniteSetsExt

CONSTANTS
  Keys,       \* the keys clients use
  Vals,       \* the values they give them
  MAX_LEVEL,  \* skiplist.hpp
  MaxHeight,  \* bound: no node is higher
  AnyHeight   \* bound unless TRUE: a node that is higher than level_ is only
              \* inserted while level_ is the number of levels in use

header_ == 0
nil_ == -1
NULL == -2

ASSUME SkipListAssumption ==
  /\ Keys \subseteq Nat \ {0}
  /\ MAX_LEVEL \in Nat \ {0}
  /\ MaxHeight \in 1 .. MAX_LEVEL
  /\ AnyHeight \in BOOLEAN

VARIABLE list_  \* [level_, forward_, val_]

-----------------------------------------------------------------------------
(* The operations of the class.                                            *)

\* The header and the nodes whose successor on level i is set.
OnLevel(s, i) == {n \in DOMAIN s.forward_ : i \in DOMAIN s.forward_[n] /\ s.forward_[n][i] # NULL}

\* Where hasNode_ gets to on level i, from each node of that level.
Walk(s, i, key) ==
  LET next(n) == s.forward_[n][i]
      from[n \in OnLevel(s, i)] ==
        IF next(n) # nil_ /\ next(n) < key THEN from[next(n)] ELSE n
  IN  from

\* The prev array of hasNode_: one node for each level from level_ down.
Prev(s, key) ==
  LET prev[i \in 0 .. s.level_] ==
        Walk(s, i, key)[IF i = s.level_ THEN header_ ELSE prev[i + 1]]
  IN  prev

HasNode(s, key) == s.forward_[Prev(s, key)[0]][0] = key

\* Seeded bug: Insert keeps the value it was given.
FoundVal_Given(s, key, val) == val

\* hasNode_ overwrites its argument val with the value it finds.
FoundVal(s, key, val) == IF HasNode(s, key) THEN s.val_[key] ELSE val

\* Seeded bug: forward_ of a new node has no room for the level above it.
NewNode_Short(s, prev, level) ==
  [i \in 0 .. level - 1 |-> s.forward_[prev[i]][i]]

\* node_t(level) has room for level + 1 successors and uses level of them.
NewNode(s, prev, level) ==
  [i \in 0 .. level |-> IF i < level THEN s.forward_[prev[i]][i] ELSE NULL]

\* Levels that were not in use start at the header.
Insert(s, key, val, level) ==
  IF HasNode(s, key)
  THEN [s EXCEPT !.val_[key] = FoundVal(s, key, val)]
  ELSE LET found == Prev(s, key)
           prev == [i \in 0 .. level - 1 |-> IF i < s.level_ THEN found[i] ELSE header_]
       IN  [level_   |-> IF level > s.level_ THEN level ELSE s.level_,
            forward_ |-> [n \in DOMAIN s.forward_ \cup {key} |->
                            IF n = key THEN NewNode(s, prev, level)
                            ELSE [i \in DOMAIN s.forward_[n] |->
                                    IF i < level /\ prev[i] = n THEN key
                                    ELSE s.forward_[n][i]]],
            val_     |-> [n \in DOMAIN s.val_ \cup {key} |->
                            IF n = key THEN val ELSE s.val_[n]]]

\* Seeded bug: a node is unlinked from the lowest level only.
UnlinkedLevels_Lowest(s, prev, key) == {0}

\* Delete unlinks the node from level 0 up to the first level it is not on.
UnlinkedLevels(s, prev, key) ==
  {i \in 0 .. s.level_ : \A j \in 0 .. i : s.forward_[prev[j]][j] = key}

\* Seeded bug: level_ is never lowered.
LoweredLevel_Kept(level, head) == level

\* level_ is lowered as long as the header has no successor on that level: one
\* level further than the highest that is in use, unless that is level 0.
LoweredLevel(level, head) == Max({0} \cup {i \in 0 .. level : head[i] # nil_})

Delete(s, key) ==
  IF HasNode(s, key)
  THEN LET prev == Prev(s, key)
           unlinked == UnlinkedLevels(s, prev, key)
           forward == [n \in DOMAIN s.forward_ \ {key} |->
                         [i \in DOMAIN s.forward_[n] |->
                            IF i \in unlinked /\ prev[i] = n THEN s.forward_[key][i]
                            ELSE s.forward_[n][i]]]
       IN  [level_   |-> LoweredLevel(s.level_, forward[header_]),
            forward_ |-> forward,
            val_     |-> [n \in DOMAIN s.val_ \ {key} |-> s.val_[n]]]
  ELSE s

-----------------------------------------------------------------------------

\* Seeded bug: init_ leaves the header's last level unset.
Init_OneLevelShort ==
  list_ = [level_   |-> 0,
           forward_ |-> [n \in {header_} |->
                           [i \in 0 .. MAX_LEVEL |-> IF i < MAX_LEVEL - 1 THEN nil_ ELSE NULL]],
           val_     |-> <<>>]

Init ==
  list_ = [level_   |-> 0,
           forward_ |-> [n \in {header_} |->
                           [i \in 0 .. MAX_LEVEL |-> IF i < MAX_LEVEL THEN nil_ ELSE NULL]],
           val_     |-> <<>>]

\* The number of levels in use.
Top == Cardinality({i \in 0 .. MAX_LEVEL - 1 : list_.forward_[header_][i] \notin {nil_, NULL}})

InsertKey(key, val, level) ==
  /\ AnyHeight \/ level <= list_.level_ \/ list_.level_ = Top
  /\ list_' = Insert(list_, key, val, level)

DeleteKey(key) == list_' = Delete(list_, key)

Next ==
  \/ \E key \in Keys, val \in Vals, level \in 1 .. MaxHeight : InsertKey(key, val, level)
  \/ \E key \in Keys : DeleteKey(key)

Spec == Init /\ [][Next]_list_

-----------------------------------------------------------------------------
(* Properties.                                                             *)

Nodes == DOMAIN list_.forward_ \ {header_}
Height(n) == Cardinality(DOMAIN list_.forward_[n]) - 1

TypeOK ==
  /\ list_.level_ \in 0 .. MAX_LEVEL
  /\ Nodes \subseteq Keys
  /\ list_.val_ \in [Nodes -> Vals]
  /\ \A n \in DOMAIN list_.forward_ :
       LET forward == list_.forward_[n]
       IN  /\ \E level \in 1 .. MAX_LEVEL : DOMAIN forward = 0 .. level
           /\ forward[Height(n)] = NULL
           /\ \A i \in 0 .. Height(n) - 1 : forward[i] \in Keys \cup {nil_}

\* On each level every node that is high enough, and the header, points to the
\* next higher node that is high enough, or to nil_: the levels are sorted, each
\* is part of the one below, and nothing points to a node that was deleted.
LevelsLinked ==
  \A i \in 0 .. MAX_LEVEL - 1 :
    \A n \in {header_} \cup {m \in Nodes : i < Height(m)} :
      LET after == {m \in Nodes : i < Height(m) /\ n < m}
      IN  list_.forward_[n][i] = IF after = {} THEN nil_ ELSE Min(after)

\* A search starts on the highest level in use or just above it, however many
\* inserts and deletes went before, so it never degrades to a walk along level 0
\* of a high list.
LevelNearTop == list_.level_ \in {Top - 1, Top}

\* hasNode_ never follows a successor that is not set: the header has one on the
\* level it starts from, and the node it comes down from has one on the next.
SearchStaysOnLevels ==
  /\ header_ \in OnLevel(list_, list_.level_)
  /\ \A key \in Keys : \A i \in 0 .. list_.level_ : Prev(list_, key)[i] \in OnLevel(list_, i)

\* What Search finds is the map that the inserts and deletes so far have made,
\* whatever heights the nodes got.
M == INSTANCE KeyMap WITH
       map <- [key \in {k \in Keys : HasNode(list_, k)} |-> list_.val_[key]]
ImplementsKeyMap == M!Init /\ [][M!Next(Keys, Vals)]_list_

\* A key that was inserted and not deleted is found; Get answers "not found"
\* (sk_index.cc:40) for others only.
InsertedIsFound == \A key \in Nodes : HasNode(list_, key)
=============================================================================
