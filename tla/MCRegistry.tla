---------------------------- MODULE MCRegistry ----------------------------
(* Instances of RouterRegistry for TLC.                                    *)
EXTENDS RouterRegistry, TLC

CONSTANTS c1, c2, c3, s1, s2, i1, i2, n1

\* s1 is a name like /net/<n1>/..., s2 has no node id in it.
MCNodeOf == (s1 :> n1) @@ (s2 :> None)
=============================================================================
