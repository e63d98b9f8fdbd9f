----------------------------- MODULE Allocator -----------------------------
(***************************************************************************)
(* What EntDB expects of its memory manager: extents of a pool that only   *)
(* grows are handed out and taken back, an extent handed out overlaps no   *)
(* other, holds what was asked for, and stays the client's until it is     *)
(* freed, restarts included.                                               *)
(***************************************************************************)
EXTENDS Naturals

VARIABLES
  live,  \* what the client holds: offset -> size
  pool,  \* bytes there are to hand out
  asked  \* the size the last call asked for

Bytes(off, size) == off .. off + size - 1
Held == UNION {Bytes(off, live[off]) : off \in DOMAIN live}

Init == live = <<>> /\ pool \in Nat /\ asked = 0

Allocate(off, size) ==
  /\ size >= asked'
  /\ Bytes(off, size) \cap Held = {}
  /\ pool' >= pool
  /\ Bytes(off, size) \subseteq 0 .. pool' - 1
  /\ live' = [x \in DOMAIN live \cup {off} |-> IF x = off THEN size ELSE live[x]]

Free(off) ==
  /\ live' = [x \in DOMAIN live \ {off} |-> live[x]]
  /\ pool' = pool

\* A call that fails or is killed hands out nothing; the pool may have grown.
Fail == live' = live /\ pool' >= pool

Next ==
  \/ \E off \in DOMAIN live' \ DOMAIN live : Allocate(off, live'[off])
  \/ \E off \in DOMAIN live : Free(off)
  \/ Fail
=============================================================================
