-------------------------- MODULE MCButtonGesture --------------------------
EXTENDS ButtonGesture, TLC
Symmetric == Permutations(Masks)
============================================================================
