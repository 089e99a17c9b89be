----------------------------- MODULE MCTopics -----------------------------
(* Instances of RouterTopics for TLC.                                      *)
EXTENDS RouterTopics, TLC

CONSTANTS c1, c2, c3, t1

=============================================================================
