------------------------------ MODULE MCNode01 ------------------------------
EXTENDS Node01
=============================================================================
