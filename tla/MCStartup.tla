----------------------------- MODULE MCStartup -----------------------------
EXTENDS Startup

CONSTANTS p1, p2

MCProc == {p1, p2}
MCMutexFirst == {p1}

\* Bound: a behaviour in which numbers are given out, which is about the version file
\* alone, has one event at most.
FewWithNumbers ==
  given = 0 \/ events <= 1
=============================================================================
