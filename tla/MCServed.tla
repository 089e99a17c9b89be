------------------------------ MODULE MCServed ------------------------------
(* Instances of ServedCalls for TLC.                                        *)
EXTENDS ServedCalls
=============================================================================
