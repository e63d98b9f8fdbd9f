----------------------------- MODULE MCSKIndex -----------------------------
EXTENDS SKIndex

CONSTANTS k1, k2, k3

MCKeys == {k1, k2, k3}
MCExtents == {[off |-> 8, value_size |-> 3, disk_size |-> 4],
              [off |-> 16, value_size |-> 5, disk_size |-> 6]}
=============================================================================
