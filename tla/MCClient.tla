------------------------------ MODULE MCClient ------------------------------
(* Instances of ClientConnection for TLC.                                   *)
EXTENDS ClientConnection

CONSTANTS bind1, bind2, unbind1, call1, push1, stream1

\* The command kinds of an instance: two commands share a reply queue.
Kinds == [c \in Cmd |-> IF c \in {bind1, bind2} THEN "register" ELSE "unregister"]

\* Two replies to a call make a late one, three to a stream fill its channel
\* and go on.
Chunks == [c \in Call |-> IF c \in Rpc THEN 2 ELSE 3]
=============================================================================
