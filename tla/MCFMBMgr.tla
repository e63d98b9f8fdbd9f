------------------------------ MODULE MCFMBMgr ------------------------------
(* FMBMgr on a file of two slots: the third block forces an expansion.     *)
EXTENDS FMBMgr

MCOffsets == 0 .. 2
MCSizes == {1, 2}
=============================================================================
