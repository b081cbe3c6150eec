---------------------------- MODULE MCRawReplay ----------------------------
EXTENDS RawReplay, TLC

RunSymmetry == Permutations(Host) \cup Permutations(Command)
=============================================================================
