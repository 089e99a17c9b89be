--------------------------- MODULE PrefixLookup ---------------------------
(***************************************************************************)
(* PrefixLookupBag and RevPrefixes of crates/util/src/lib.rs: the table    *)
(* that maps service names to their owners, in the router and in the       *)
(* client.  A lookup tries the whole address, then cuts it at its last     *)
(* '/', and so on, until a bound name is met or nothing is left.           *)
(*                                                                         *)
(* A name is a sequence of characters, of which only Sep, the '/', is told *)
(* apart.  The iterator's remaining string is always the beginning of the  *)
(* address and is kept as its length.  Values are left out: a name is      *)
(* bound or not, and the result of a lookup is the name it found.          *)
(***************************************************************************)
EXTENDS Naturals, Sequences, FiniteSets

CONSTANTS
    Char,   \* characters of names, Sep among them
    Sep,    \* the separator '/'
    Name,   \* names that are bound and looked up
    Absent, \* no result
    MaxBound  \* bound: names bound at a time

ASSUME NameAssumption ==
    /\ Name \subseteq Seq(Char)
    /\ Absent \notin Seq(Char)
    /\ MaxBound \in Nat

VARIABLES
    dict,    \* PrefixLookupBag.dict: the bound names
    key,     \* the address of the current lookup
    n,       \* length of what RevPrefixes has left of it
    result,  \* the name found
    pc       \* "idle", "searching" or "done"

lookupVars == <<dict, key, n, result, pc>>

LookupInit ==
    /\ dict = {}
    /\ key = <<>>
    /\ n = 0
    /\ result = Absent
    /\ pc = "idle"

-----------------------------------------------------------------------------

\* PrefixLookupBag::insert
Insert(k) ==
    /\ pc = "idle"
    /\ Cardinality(dict) < MaxBound
    /\ dict' = dict \cup {k}
    /\ UNCHANGED <<key, n, result, pc>>

\* PrefixLookupBag::remove: the name itself, not what lies under it.
Remove(k) ==
    /\ pc = "idle"
    /\ k \in dict
    /\ dict' = dict \ {k}
    /\ UNCHANGED <<key, n, result, pc>>

\* PrefixLookupBag::get (and get_mut) starts: RevPrefixes(key).
Get(k) ==
    /\ pc = "idle"
    /\ key' = k
    /\ n' = Len(k)
    /\ result' = Absent
    /\ pc' = "searching"
    /\ UNCHANGED dict

\* The separators in what is left.
Seps == {i \in 1 .. n : key[i] = Sep}

Cut_Character == n - 1

\* RevPrefixes::next: what is left is cut before its last separator, and
\* without a separator nothing is left.
Cut ==
    IF Seps = {} THEN 0
    ELSE (CHOOSE i \in Seps : \A j \in Seps : j <= i) - 1

\* One round of find_map: the name left is tried, then cut.
Try ==
    /\ pc = "searching"
    /\ n # 0
    /\ n' = Cut
    /\ \/ /\ SubSeq(key, 1, n) \in dict
          /\ result' = SubSeq(key, 1, n)
          /\ pc' = "done"
       \/ /\ SubSeq(key, 1, n) \notin dict
          /\ UNCHANGED <<result, pc>>
    /\ UNCHANGED <<dict, key>>

\* Nothing is left: no result.
GiveUp ==
    /\ pc = "searching"
    /\ n = 0
    /\ pc' = "done"
    /\ UNCHANGED <<dict, key, n, result>>

\* The caller takes the result.
Return ==
    /\ pc = "done"
    /\ pc' = "idle"
    /\ key' = <<>>
    /\ n' = 0
    /\ result' = Absent
    /\ UNCHANGED dict

LookupNext ==
    \/ \E k \in Name : Insert(k) \/ Remove(k) \/ Get(k)
    \/ Try
    \/ GiveUp
    \/ Return

LookupSpec == LookupInit /\ [][LookupNext]_lookupVars

-----------------------------------------------------------------------------
(* Properties.                                                             *)

\* The iterator stays within the address.
LookupTypeOK ==
    /\ dict \subseteq Name
    /\ key \in Seq(Char)
    /\ n \in 0 .. Len(key)
    /\ result \in Seq(Char) \cup {Absent}
    /\ pc \in {"idle", "searching", "done"}

\* README: "a service registered under foo will also receive calls to
\* foo/bar and foo/baz": the beginnings of the address that are followed by
\* a separator, and the address itself, but never the empty name.
Covers(m) ==
    /\ m \in 1 .. Len(key)
    /\ m = Len(key) \/ key[m + 1] = Sep

Bound(m) == SubSeq(key, 1, m) \in dict

\* A lookup that ends has found the longest bound name that covers the
\* address, and has found nothing only if there is none: a service under a
\* more specific name is never shadowed by a shorter one, and foobar is
\* never answered by foo.
LongestPrefixFound ==
    pc = "done" =>
        \/ /\ result = Absent
           /\ \A m \in 1 .. Len(key) : Covers(m) => ~Bound(m)
        \/ \E m \in 1 .. Len(key) :
              /\ Covers(m) /\ Bound(m)
              /\ result = SubSeq(key, 1, m)
              /\ \A j \in 1 .. Len(key) : Covers(j) /\ Bound(j) => j <= m

\* What the loop keeps true: no bound name that covers the address is longer
\* than what is left of it, and what is left covers the address.
LoopInv ==
    pc = "searching" =>
        /\ result = Absent
        /\ n = 0 \/ Covers(n)
        /\ \A m \in 1 .. Len(key) : Covers(m) /\ Bound(m) => m <= n

=============================================================================
