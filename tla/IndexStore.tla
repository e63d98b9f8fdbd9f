----------------------------- MODULE IndexStore -----------------------------
(***************************************************************************)
(* What the index promises across restarts: a key keeps the first extent   *)
(* it was put with, nothing is forgotten, and a process killed inside Put  *)
(* leaves at most one record that was not there, complete or cut short.    *)
(***************************************************************************)
EXTENDS Naturals

CONSTANTS
  Keys,      \* the keys clients put
  Extents,   \* the extents they put them with
  BrokenKeys \* the keys a kill can leave instead

VARIABLE entries  \* key -> extent

Init == entries = <<>>

Kept(key, extent) ==
  entries' = [k \in DOMAIN entries \cup {key} |->
                IF k \in DOMAIN entries THEN entries[k] ELSE extent]

Put(key, extent) == Kept(key, extent)

\* The fields are stored in order: those after the kill are still 0.
CutShort(extent) ==
  {[extent EXCEPT !.disk_size = 0],
   [extent EXCEPT !.disk_size = 0, !.value_size = 0],
   [extent EXCEPT !.disk_size = 0, !.value_size = 0, !.off = 0]}

KilledPut(key, extent) ==
  \/ \E cut \in CutShort(extent) : Kept(key, cut)
  \/ \E broken \in BrokenKeys :
       Kept(broken, [extent EXCEPT !.disk_size = 0, !.value_size = 0, !.off = 0])

Next == \E key \in Keys, extent \in Extents : Put(key, extent) \/ KilledPut(key, extent)

Spec == Init /\ [][Next]_entries
=============================================================================
