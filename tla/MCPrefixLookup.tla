-------------------------- MODULE MCPrefixLookup --------------------------
(* Instance of PrefixLookup for TLC: all names of up to MaxLen characters  *)
(* over a two-letter alphabet, up to MaxBound of them bound at a time.     *)
EXTENDS PrefixLookup

CONSTANT MaxLen

MCChar == {"/", "a"}
Ext == INSTANCE SequencesExt
MCName == Ext!BoundedSeq(MCChar, MaxLen)
=============================================================================
