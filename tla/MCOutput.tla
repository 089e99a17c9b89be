----------------------------- MODULE MCOutput -----------------------------
(* Instances of RouterOutput for TLC.                                      *)
EXTENDS RouterOutput

CONSTANTS call1, call2, push, topic
=============================================================================
