----------------------------- MODULE MCSkipList -----------------------------
EXTENDS SkipList

MCKeys == 1 .. 4
MCFewKeys == 1 .. 3
MCVals == {"old", "new"}
MCOneVal == {"old"}
=============================================================================
