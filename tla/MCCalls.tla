------------------------------ MODULE MCCalls ------------------------------
(* Instances of RouterCalls for TLC.                                       *)
EXTENDS RouterCalls, TLC

CONSTANTS c1, c2, c3, s, sx, k1, k2, k3, r1, r2, r3

\* c1's client calls an address under sx, c2's client pushes to one under s
\* only, and c3's client calls one under sx only.
MCCallerOf == (k1 :> c1) @@ (k2 :> c2) @@ (k3 :> c3)
MCNamesOf == (k1 :> <<sx, s>>) @@ (k2 :> <<s>>) @@ (k3 :> <<sx>>)
MCIdOf == (k1 :> r1) @@ (k2 :> r2) @@ (k3 :> r3)
\* c2 serves sx, c3 serves s: while c2 is there k1 goes to it, else to c3,
\* and c2 and c3 may wait for each other.
MCOffers == (c1 :> {}) @@ (c2 :> {sx}) @@ (c3 :> {s})

\* c1 and c2 call and push to c3, which serves both names.
MCClientsOf == (k1 :> c1) @@ (k2 :> c1) @@ (k3 :> c2)
MCOneServer == (c1 :> {}) @@ (c2 :> {}) @@ (c3 :> {s, sx})
=============================================================================
