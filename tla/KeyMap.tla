------------------------------- MODULE KeyMap -------------------------------
(***************************************************************************)
(* What SKIndex uses a SkipList for: a map from keys to values in which    *)
(* the first value inserted for a key is the one it keeps.                 *)
(***************************************************************************)
EXTENDS Naturals

VARIABLE map  \* key -> value

Init == map = <<>>

Insert(key, val) ==
  map' = [x \in DOMAIN map \cup {key} |-> IF x \in DOMAIN map THEN map[x] ELSE val]

Delete(key) == map' = [x \in DOMAIN map \ {key} |-> map[x]]

Next(Keys, Vals) ==
  \/ \E key \in Keys, val \in Vals : Insert(key, val)
  \/ \E key \in Keys : Delete(key)
=============================================================================
