------------------------------ MODULE SyncMgr ------------------------------
(***************************************************************************)
(* Where SyncMgr (sync_mgr.cc) puts the process-shared objects: byte       *)
(* offsets from the start of the mapping.  A SyncMgr is its pointer data_, *)
(* which mutexr moves and condr does not.                                  *)
(***************************************************************************)
EXTENDS Naturals

CONSTANTS
  MutexSize,  \* sizeof(pthread_mutex_t)
  CondSize    \* sizeof(pthread_cond_t)

ASSUME SizesAssumption ==
  /\ MutexSize \in Nat \ {0}
  /\ CondSize \in Nat \ {0}
  /\ MutexSize <= CondSize

INDEX == 0
FM == 1
DATA == 2

FileSize == 3 * (MutexSize + CondSize)

\* An object: the bytes from .. to - 1.
Object(from, size) == [from |-> from, to |-> from + size]

\* data_ after a call of mutexr.
Moved(data_) == data_ + 3 * CondSize

\* What mutexr returns, which has moved data_ first.
mutexr(data_, module) == Object(Moved(data_) + module * MutexSize, MutexSize)

\* Seeded bug: the cast is forgotten, modules are a byte apart.
condr_NoCast(data_, module) == Object(data_ + module, CondSize)

condr(data_, module) == Object(data_ + module * CondSize, CondSize)
=============================================================================
