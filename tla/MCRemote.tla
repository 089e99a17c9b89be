------------------------------ MODULE MCRemote ------------------------------
(* Instances of RemoteRouter for TLC.                                       *)
EXTENDS RemoteRouter

CONSTANTS a1, a2, other, c1, c2

\* One call to a service that may be in the process, one to a remote one.
Calls == [c \in Call |-> IF c = c1 THEN a1 ELSE other]
=============================================================================
