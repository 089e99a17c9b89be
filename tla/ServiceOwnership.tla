------------------------- MODULE ServiceOwnership -------------------------
(***************************************************************************)
(* What the router's service registry promises its users, with none of its *)
(* mechanism: every service name has at most one owner, only a connection  *)
(* that is still there may own a name, nobody but the owner gives a name   *)
(* away, and a connection that leaves gives up all its names in the same   *)
(* instant.  A connection that left never comes back (a reconnecting       *)
(* client gets a new connection).                                          *)
(*                                                                         *)
(* RouterRegistry implements this specification.                           *)
(***************************************************************************)
CONSTANTS Conn,      \* connections, one per accepted socket
          Service,   \* service names
          None       \* no owner

VARIABLES
    owner,    \* owner[s]: the connection that calls to s are sent to
    joined,   \* connections that were accepted
    left      \* connections that are gone

vars == <<owner, joined, left>>

Init ==
    /\ owner = [s \in Service |-> None]
    /\ joined = {}
    /\ left = {}

\* The router accepts a connection.
Join(c) ==
    /\ c \notin joined
    /\ joined' = joined \cup {c}
    /\ UNCHANGED <<owner, left>>

\* A connection takes a name nobody owns.
Claim(c, s) ==
    /\ c \in joined \ left
    /\ owner[s] = None
    /\ owner' = [owner EXCEPT ![s] = c]
    /\ UNCHANGED <<joined, left>>

\* The owner gives a name back.
Release(c, s) ==
    /\ c \in joined \ left
    /\ owner[s] = c
    /\ owner' = [owner EXCEPT ![s] = None]
    /\ UNCHANGED <<joined, left>>

\* A connection goes away and takes all its registrations with it.
Leave(c) ==
    /\ c \in joined \ left
    /\ left' = left \cup {c}
    /\ owner' = [s \in Service |-> IF owner[s] = c THEN None ELSE owner[s]]
    /\ UNCHANGED joined

Next ==
    \E c \in Conn :
        \/ Join(c)
        \/ Leave(c)
        \/ \E s \in Service : Claim(c, s) \/ Release(c, s)

Spec == Init /\ [][Next]_vars
=============================================================================
