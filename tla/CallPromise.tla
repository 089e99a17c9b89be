---------------------------- MODULE CallPromise ----------------------------
(***************************************************************************)
(* What the router promises the maker of a call, with none of its          *)
(* mechanism.  A request is delivered to one service, once, or never.  The *)
(* caller is told that it was refused, and then it never is delivered; or  *)
(* it hears the service, partial replies first and one full reply last.    *)
(* "Stalled" is all the router knows when it gives up waiting: the request *)
(* may be delivered later, and its replies are still passed on.  A push is *)
(* delivered or not, and nothing is heard of it.                           *)
(*                                                                         *)
(* RouterCalls implements this specification.                              *)
(***************************************************************************)
EXTENDS Naturals, Sequences

CONSTANTS
    Call,    \* calls and pushes
    Push     \* those that get no reply

VARIABLES
    delivered,   \* delivered[k]: how often the request was written to a service
    heard        \* heard[k]: what its caller was told, in order

vars == <<delivered, heard>>

Init ==
    /\ delivered = [k \in Call |-> 0]
    /\ heard = [k \in Call |-> <<>>]

\* The caller waits for the outcome; before, it may have been told that the
\* call is stalled.
Open(k) == \A i \in 1 .. Len(heard[k]) : heard[k][i] \in {"stalled", "partial"}

Told(k, what) == heard' = [heard EXCEPT ![k] = Append(@, what)]

\* Requests that were held back are delivered together.
Deliver(ks) ==
    /\ \A k \in ks : delivered[k] = 0 /\ Open(k)
    /\ delivered' = [k \in Call |-> IF k \in ks THEN 1 ELSE delivered[k]]
    /\ UNCHANGED heard

\* Nobody serves the address, or the way to the service broke.
Refuse(k) ==
    /\ k \notin Push
    /\ delivered[k] = 0
    /\ heard[k] = <<>>
    /\ Told(k, "refused")
    /\ UNCHANGED delivered

\* The router stops waiting for the service to take the request.
Stall(k) ==
    /\ k \notin Push
    /\ heard[k] = <<>>
    /\ Told(k, "stalled")
    /\ UNCHANGED delivered

\* The caller hears the service.
Hear(k, type) ==
    /\ k \notin Push
    /\ delivered[k] = 1
    /\ Open(k)
    /\ Told(k, type)
    /\ UNCHANGED delivered

Next ==
    \/ \E ks \in SUBSET Call : Deliver(ks)
    \/ \E k \in Call :
          \/ Refuse(k)
          \/ Stall(k)
          \/ \E type \in {"partial", "full"} : Hear(k, type)

Spec == Init /\ [][Next]_vars
=============================================================================
