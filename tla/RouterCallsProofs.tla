------------------------- MODULE RouterCallsProofs -------------------------
(***************************************************************************)
(* Calls through the router (RouterCalls) are what CallPromise says, reach *)
(* their callers and overtake nobody, for any connections, calls, names,   *)
(* timeouts and overflowing queues.                                        *)
(*                                                                         *)
(* Everything rests on the queue of a connection, ForwardQueue: what was   *)
(* written to its client, then what is held, then what is in its mailbox.  *)
(* Every step leaves this queue alone, cuts a piece out of it or adds a    *)
(* new call behind it, so that no call is ever in two places.              *)
(***************************************************************************)
EXTENDS RouterCalls, SequenceTheorems, FiniteSetTheorems, TLAPS

-----------------------------------------------------------------------------
(* Sequences.                                                              *)

\* No entry occurs twice.
Distinct(s) == \A i, j \in 1 .. Len(s) : s[i] = s[j] => i = j

\* Membership in a sequence, by position.
LEMMA InToSet ==
    ASSUME NEW X, NEW s \in Seq(X)
    PROVE  /\ \A x : x \in ToSet(s) <=> \E i \in 1 .. Len(s) : x = s[i]
           /\ ToSet(s) \subseteq X /\ Len(s) \in Nat
  BY DEF ToSet

\* Three sequences one behind the other, by position.
LEMMA ThreeParts ==
    ASSUME NEW X, NEW a \in Seq(X), NEW h \in Seq(X), NEW m \in Seq(X)
    PROVE  /\ a \o h \o m \in Seq(X)
           /\ Len(a) \in Nat /\ Len(h) \in Nat /\ Len(m) \in Nat
           /\ Len(a \o h \o m) = Len(a) + Len(h) + Len(m)
           /\ \A i \in 1 .. Len(a) : (a \o h \o m)[i] = a[i]
           /\ \A i \in 1 .. Len(h) : (a \o h \o m)[Len(a) + i] = h[i]
           /\ \A i \in 1 .. Len(m) : (a \o h \o m)[Len(a) + Len(h) + i] = m[i]
<1> DEFINE b == a \o h
<1>1. /\ b \in Seq(X) /\ Len(a) \in Nat /\ Len(h) \in Nat /\ Len(m) \in Nat
      /\ Len(b) = Len(a) + Len(h)
      /\ \A i \in 1 .. Len(a) + Len(h) : b[i] = IF i <= Len(a) THEN a[i] ELSE h[i - Len(a)]
  BY ConcatProperties, LenProperties
<1> HIDE DEF b
<1> DEFINE q == b \o m
<1>2. /\ q \in Seq(X) /\ Len(q) = Len(b) + Len(m)
      /\ \A i \in 1 .. Len(b) + Len(m) : q[i] = IF i <= Len(b) THEN b[i] ELSE m[i - Len(b)]
  <2> b \in Seq(X)
    BY <1>1
  <2> QED
    BY ConcatProperties
<1> HIDE DEF q
<1>3. ASSUME NEW i \in 1 .. Len(a) PROVE q[i] = a[i]
  BY <1>1, <1>2
<1>4. ASSUME NEW i \in 1 .. Len(h) PROVE q[Len(a) + i] = h[i]
  BY <1>1, <1>2
<1>5. ASSUME NEW i \in 1 .. Len(m) PROVE q[Len(a) + Len(h) + i] = m[i]
  <2> DEFINE j == Len(a) + Len(h) + i
  <2>1. j \in 1 .. Len(b) + Len(m) /\ ~(j <= Len(b)) /\ j - Len(b) = i
    BY <1>1
  <2> HIDE DEF j
  <2>2. q[j] = m[i]
    BY <1>2, <2>1
  <2> QED
    BY <2>2 DEF j
<1> QED
  BY <1>1, <1>2, <1>3, <1>4, <1>5 DEF q, b

\* t is s without the len entries behind the first cut ones.
ThinnedAt(t, s, cut, len) ==
    /\ cut \in Nat /\ len \in Nat /\ cut + len <= Len(s)
    /\ Len(t) = Len(s) - len
    /\ \A x \in 1 .. cut : t[x] = s[x]
    /\ \A x \in cut + 1 .. Len(s) - len : t[x] = s[x + len]

\* A piece may be missing.
Thinned(t, s) == \E cut, len \in Nat : ThinnedAt(t, s, cut, len)

\* Neither new entries nor repetitions nor another order.
Follows(t, s) ==
    /\ Distinct(t)
    /\ ToSet(t) \subseteq ToSet(s)
    /\ \A j, k \in 1 .. Len(s) : \A x, y \in 1 .. Len(t) :
           j < k /\ t[x] = s[j] /\ t[y] = s[k] => x < y

LEMMA ThinnedFollows ==
    ASSUME NEW X, NEW s \in Seq(X), NEW t \in Seq(X), Distinct(s), Thinned(t, s)
    PROVE  Follows(t, s)
<1>1. PICK cut, len \in Nat : ThinnedAt(t, s, cut, len)
  BY DEF Thinned
<1> DEFINE Old(x) == IF x <= cut THEN x ELSE x + len
           n == Len(s) - len
<1>2. /\ Len(s) \in Nat /\ n \in Nat /\ Len(t) = n /\ cut <= n
  BY <1>1 DEF ThinnedAt
<1>3. ASSUME NEW x \in 1 .. n PROVE Old(x) \in 1 .. Len(s) /\ t[x] = s[Old(x)]
  <2>1. CASE x <= cut
    BY <1>1, <1>2, <2>1 DEF ThinnedAt
  <2>2. CASE ~(x <= cut)
    BY <1>1, <1>2, <2>2 DEF ThinnedAt
  <2> QED
    BY <2>1, <2>2
<1>4. ASSUME NEW x \in 1 .. n, NEW y \in 1 .. n PROVE Old(x) < Old(y) <=> x < y
  BY <1>2
<1>5. ASSUME NEW x \in 1 .. n, NEW y \in 1 .. n PROVE Old(x) = Old(y) => x = y
  BY <1>2
<1> HIDE DEF Old, n
<1>6. Distinct(t)
  <2>1. ASSUME NEW x \in 1 .. n, NEW y \in 1 .. n, t[x] = t[y] PROVE x = y
    <3>1. Old(x) = Old(y)
      BY <1>3, <2>1 DEF Distinct
    <3> QED
      BY <1>5, <3>1
  <2> QED
    BY <1>2, <2>1 DEF Distinct
<1>7. ToSet(t) \subseteq ToSet(s)
  <2>1. ASSUME NEW e \in ToSet(t) PROVE e \in ToSet(s)
    <3>1. PICK x \in 1 .. Len(t) : e = t[x]
      BY <2>1, InToSet
    <3>2. Old(x) \in 1 .. Len(s) /\ e = s[Old(x)]
      BY <1>2, <1>3, <3>1
    <3> QED
      BY <3>2, InToSet
  <2> QED
    BY <2>1
<1>8. ASSUME NEW j \in 1 .. Len(s), NEW k \in 1 .. Len(s), NEW x \in 1 .. n, NEW y \in 1 .. n,
             j < k, t[x] = s[j], t[y] = s[k]
      PROVE  x < y
  <2>1. Old(x) = j /\ Old(y) = k
    BY <1>3, <1>8 DEF Distinct
  <2> QED
    BY <1>4, <1>8, <2>1
<1> QED
  BY <1>2, <1>6, <1>7, <1>8 DEF Follows

\* A new entry behind the others.
LEMMA AppendFollows ==
    ASSUME NEW X, NEW s \in Seq(X), NEW e \in X, Distinct(s), e \notin ToSet(s)
    PROVE  /\ Append(s, e) \in Seq(X) /\ Distinct(Append(s, e))
           /\ ToSet(Append(s, e)) = ToSet(s) \cup {e}
           /\ \A j, k \in 1 .. Len(s) : \A x, y \in 1 .. Len(Append(s, e)) :
                 j < k /\ Append(s, e)[x] = s[j] /\ Append(s, e)[y] = s[k] => x < y
<1> DEFINE t == Append(s, e)
           n == Len(s)
<1>1. /\ t \in Seq(X) /\ n \in Nat /\ Len(t) = n + 1 /\ t[n + 1] = e
      /\ \A i \in 1 .. n : t[i] = s[i]
  BY AppendProperties, LenProperties
<1>2. \A i \in 1 .. n : s[i] # e
  BY InToSet
<1> HIDE DEF t
<1>3. ASSUME NEW x \in 1 .. n + 1, NEW j \in 1 .. n, t[x] = s[j] PROVE x = j
  <2>1. x \in 1 .. n
    BY <1>1, <1>2, <1>3
  <2> QED
    BY <1>1, <1>3, <2>1 DEF Distinct
<1>4. Distinct(t)
  <2>1. ASSUME NEW x \in 1 .. n + 1, NEW y \in 1 .. n + 1, t[x] = t[y] PROVE x = y
    <3>1. CASE y \in 1 .. n
      BY <1>1, <1>3, <2>1, <3>1
    <3>2. CASE x \in 1 .. n
      <4>1. t[y] = s[x]
        BY <1>1, <2>1, <3>2
      <4> QED
        BY <1>3, <3>2, <4>1
    <3>3. CASE x = n + 1 /\ y = n + 1
      BY <3>3
    <3> QED
      BY <1>1, <3>1, <3>2, <3>3
  <2> QED
    BY <1>1, <2>1 DEF Distinct
<1>5. ToSet(t) = ToSet(s) \cup {e}
  <2>1. \A x : x \in ToSet(t) <=> \E i \in 1 .. Len(t) : x = t[i]
    BY <1>1, InToSet
  <2>2. \A x : x \in ToSet(s) <=> \E i \in 1 .. n : x = s[i]
    BY InToSet
  <2>3. ASSUME NEW x \in ToSet(t) PROVE x \in ToSet(s) \cup {e}
    <3>1. PICK i \in 1 .. n + 1 : x = t[i]
      BY <1>1, <2>1, <2>3
    <3> QED
      BY <1>1, <2>2, <3>1
  <2>4. ASSUME NEW x \in ToSet(s) PROVE x \in ToSet(t)
    <3>1. PICK i \in 1 .. n : x = s[i]
      BY <2>2, <2>4
    <3>2. i \in 1 .. n + 1
      BY <1>1
    <3> QED
      BY <1>1, <2>1, <3>1, <3>2
  <2>5. n + 1 \in 1 .. n + 1
    BY <1>1
  <2> QED
    BY <1>1, <2>1, <2>3, <2>4, <2>5
<1>6. \A j, k \in 1 .. n : \A x, y \in 1 .. n + 1 :
          j < k /\ t[x] = s[j] /\ t[y] = s[k] => x < y
  <2>1. \A x \in 1 .. n + 1, j \in 1 .. n : t[x] = s[j] => x = j
    BY <1>3
  <2> QED
    BY <2>1, Zenon
<1> QED
  BY <1>1, <1>4, <1>5, <1>6 DEF t

LEMMA ToSetConcat ==
    ASSUME NEW X, NEW s \in Seq(X), NEW t \in Seq(X)
    PROVE  ToSet(s \o t) = ToSet(s) \cup ToSet(t)
<1>1. Range(s \o t) = Range(s) \cup Range(t)
  BY RangeConcatenation
<1> QED
  BY <1>1 DEF Range, ToSet

\* The three parts of a queue without repetitions have nothing in common.
LEMMA PartsApart ==
    ASSUME NEW X, NEW a \in Seq(X), NEW h \in Seq(X), NEW m \in Seq(X)
    PROVE  /\ ToSet(a \o h \o m) = ToSet(a) \cup ToSet(h) \cup ToSet(m)
           /\ Distinct(a \o h \o m) =>
                 /\ Distinct(a) /\ Distinct(h) /\ Distinct(m)
                 /\ ToSet(a) \cap ToSet(h) = {}
                 /\ ToSet(a) \cap ToSet(m) = {}
                 /\ ToSet(h) \cap ToSet(m) = {}
<1> DEFINE q == a \o h \o m
           la == Len(a)
           lh == Len(h)
           lm == Len(m)
<1>1. a \o h \in Seq(X)
  BY ConcatProperties
<1>2. ToSet(q) = ToSet(a) \cup ToSet(h) \cup ToSet(m)
  <2>1. ToSet((a \o h) \o m) = ToSet(a \o h) \cup ToSet(m)
    BY <1>1, ToSetConcat, ZenonT(40)
  <2>2. ToSet(a \o h) = ToSet(a) \cup ToSet(h)
    BY ToSetConcat
  <2> QED
    BY <2>1, <2>2
<1>3. /\ la \in Nat /\ lh \in Nat /\ lm \in Nat /\ Len(q) = la + lh + lm
      /\ \A i \in 1 .. la : q[i] = a[i]
      /\ \A i \in 1 .. lh : q[la + i] = h[i]
      /\ \A i \in 1 .. lm : q[la + lh + i] = m[i]
  BY ThreeParts
<1>4. /\ \A x \in ToSet(a) : \E i \in 1 .. la : x = a[i]
      /\ \A x \in ToSet(h) : \E i \in 1 .. lh : x = h[i]
      /\ \A x \in ToSet(m) : \E i \in 1 .. lm : x = m[i]
  BY InToSet
<1> HIDE DEF q
<1>5. ASSUME Distinct(q)
      PROVE  /\ Distinct(a) /\ Distinct(h) /\ Distinct(m)
             /\ ToSet(a) \cap ToSet(h) = {}
             /\ ToSet(a) \cap ToSet(m) = {}
             /\ ToSet(h) \cap ToSet(m) = {}
  <2> HIDE DEF la, lh, lm
  <2>1. \A i, j \in 1 .. la + lh + lm : q[i] = q[j] => i = j
    BY <1>3, <1>5 DEF Distinct
  <2>2. ASSUME NEW i \in 1 .. la, NEW j \in 1 .. la, a[i] = a[j] PROVE i = j
    <3>1. i \in 1 .. la + lh + lm /\ j \in 1 .. la + lh + lm
      BY <1>3
    <3> QED
      BY <1>3, <2>1, <2>2, <3>1
  <2>3. ASSUME NEW i \in 1 .. lh, NEW j \in 1 .. lh, h[i] = h[j] PROVE i = j
    <3>1. la + i \in 1 .. la + lh + lm /\ la + j \in 1 .. la + lh + lm
      BY <1>3
    <3>2. la + i = la + j
      BY <1>3, <2>1, <2>3, <3>1
    <3> QED
      BY <1>3, <3>2
  <2>4. ASSUME NEW i \in 1 .. lm, NEW j \in 1 .. lm, m[i] = m[j] PROVE i = j
    <3>1. la + lh + i \in 1 .. la + lh + lm /\ la + lh + j \in 1 .. la + lh + lm
      BY <1>3
    <3>2. la + lh + i = la + lh + j
      BY <1>3, <2>1, <2>4, <3>1
    <3> QED
      BY <1>3, <3>2
  <2>5. ASSUME NEW i \in 1 .. la, NEW j \in 1 .. lh PROVE a[i] # h[j]
    <3>1. i \in 1 .. la + lh + lm /\ la + j \in 1 .. la + lh + lm /\ i # la + j
      BY <1>3
    <3> QED
      BY <1>3, <2>1, <3>1
  <2>6. ASSUME NEW i \in 1 .. la, NEW j \in 1 .. lm PROVE a[i] # m[j]
    <3>1. i \in 1 .. la + lh + lm /\ la + lh + j \in 1 .. la + lh + lm /\ i # la + lh + j
      BY <1>3
    <3> QED
      BY <1>3, <2>1, <3>1
  <2>7. ASSUME NEW i \in 1 .. lh, NEW j \in 1 .. lm PROVE h[i] # m[j]
    <3>1. la + i \in 1 .. la + lh + lm /\ la + lh + j \in 1 .. la + lh + lm
          /\ la + i # la + lh + j
      BY <1>3
    <3> QED
      BY <1>3, <2>1, <3>1
  <2>8. Distinct(a) /\ Distinct(h) /\ Distinct(m)
    BY <2>2, <2>3, <2>4 DEF Distinct, la, lh, lm
  <2>9. ToSet(a) \cap ToSet(h) = {} /\ ToSet(a) \cap ToSet(m) = {} /\ ToSet(h) \cap ToSet(m) = {}
    BY <1>4, <2>5, <2>6, <2>7
  <2> QED
    BY <2>8, <2>9
<1> QED
  BY <1>2, <1>5 DEF q

\* Leaving out v.
LEMMA CutOut ==
    ASSUME NEW X, NEW u \in Seq(X), NEW v \in Seq(X), NEW w \in Seq(X)
    PROVE  Thinned(u \o w, u \o v \o w)
<1> DEFINE t == u \o w
           s == u \o v \o w
           lu == Len(u)
           lv == Len(v)
           lw == Len(w)
<1>1. /\ lu \in Nat /\ lv \in Nat /\ lw \in Nat /\ Len(s) = lu + lv + lw
      /\ \A i \in 1 .. lu : s[i] = u[i]
      /\ \A i \in 1 .. lw : s[lu + lv + i] = w[i]
  BY ThreeParts
<1>2. /\ Len(t) = lu + lw
      /\ \A i \in 1 .. lu + lw : t[i] = IF i <= lu THEN u[i] ELSE w[i - lu]
  BY ConcatProperties
<1> HIDE DEF t, s, lu, lv, lw
<1>3. \A x \in 1 .. lu : t[x] = s[x]
  BY <1>1, <1>2
<1>4. ASSUME NEW x \in lu + 1 .. Len(s) - lv PROVE t[x] = s[x + lv]
  <2> DEFINE i == x - lu
  <2>1. /\ i \in 1 .. lw /\ x + lv = lu + lv + i /\ x \in 1 .. lu + lw /\ ~(x <= lu)
    BY <1>1
  <2>2. t[x] = w[i]
    BY <1>2, <2>1
  <2> HIDE DEF i
  <2> QED
    BY <1>1, <2>1, <2>2
<1>5. ThinnedAt(t, s, lu, lv)
  BY <1>1, <1>2, <1>3, <1>4 DEF ThinnedAt
<1>6. Thinned(t, s)
  BY <1>1, <1>5 DEF Thinned
<1> QED
  BY <1>6 DEF t, s

LEMMA ThinnedSelf ==
    ASSUME NEW X, NEW s \in Seq(X)
    PROVE  Thinned(s, s)
<1>1. ThinnedAt(s, s, Len(s), 0) /\ Len(s) \in Nat
  BY DEF ThinnedAt
<1> QED
  BY <1>1 DEF Thinned

LEMMA HeadThenTail ==
    ASSUME NEW X, NEW m \in Seq(X), m # <<>>
    PROVE  /\ <<Head(m)>> \in Seq(X) /\ Tail(m) \in Seq(X) /\ Head(m) \in ToSet(m)
           /\ <<Head(m)>> \o Tail(m) = m
<1>1. Head(m) \in X /\ Tail(m) \in Seq(X)
  OBVIOUS
<1>2. <<Head(m)>> \o Tail(m) = m
  OBVIOUS
<1>3. Head(m) = m[1] /\ 1 \in 1 .. Len(m)
  OBVIOUS
<1>4. Head(m) \in ToSet(m)
  BY <1>3, InToSet
<1> QED
  BY <1>1, <1>2, <1>4

\* The request at the head of the mailbox is written, nothing being held.
LEMMA MoveNow ==
    ASSUME NEW X, NEW a \in Seq(X), NEW m \in Seq(X), m # <<>>
    PROVE  (a \o <<Head(m)>>) \o <<>> \o Tail(m) = a \o <<>> \o m
<1> DEFINE e == <<Head(m)>>
           n == Tail(m)
<1>1. e \in Seq(X) /\ n \in Seq(X) /\ e \o n = m
  BY HeadThenTail
<1> HIDE DEF e, n
<1> e \in Seq(X) /\ n \in Seq(X)
  BY <1>1
<1>2. a \o e \in Seq(X)
  OBVIOUS
<1>3. (a \o e) \o <<>> = a \o e /\ a \o <<>> = a
  BY <1>2, ConcatEmptySeq
<1>4. (a \o e) \o n = a \o (e \o n)
  OBVIOUS
<1> QED
  BY <1>1, <1>3, <1>4 DEF e, n

\* The request at the head of the mailbox is held.
MovesHeld(a, h, m) == a \o Append(h, Head(m)) \o Tail(m) = a \o h \o m

LEMMA MoveHeld ==
    ASSUME NEW X, NEW a \in Seq(X), NEW h \in Seq(X), NEW m \in Seq(X), m # <<>>
    PROVE  MovesHeld(a, h, m)
<1>1. ASSUME NEW e \in Seq(X), NEW n \in Seq(X) PROVE a \o (h \o e) \o n = a \o h \o (e \o n)
  <2>1. a \o (h \o e) = (a \o h) \o e /\ a \o h \in Seq(X)
    BY SMTT(40)
  <2>2. ((a \o h) \o e) \o n = (a \o h) \o (e \o n)
    BY <2>1, SMTT(40)
  <2> QED
    BY <2>1, <2>2
<1> DEFINE e == <<Head(m)>>
           n == Tail(m)
<1>2. e \in Seq(X) /\ n \in Seq(X) /\ e \o n = m
  BY HeadThenTail
<1>3. Append(h, Head(m)) = h \o e
  <2>1. Head(m) \in X
    OBVIOUS
  <2> QED
    BY <2>1, AppendIsConcat
<1> HIDE DEF e, n
<1>4. a \o (h \o e) \o n = a \o h \o (e \o n)
  BY <1>1, <1>2
<1>5. a \o (h \o e) \o n = a \o h \o m
  BY <1>2, <1>4
<1> QED
  BY <1>3, <1>5 DEF n, MovesHeld

\* The oldest n held requests are written, the others dropped.
LEMMA MoveDrained ==
    ASSUME NEW X, NEW a \in Seq(X), NEW h \in Seq(X), NEW m \in Seq(X), NEW n \in 1 .. Len(h)
    PROVE  /\ Thinned((a \o SubSeq(h, 1, n)) \o <<>> \o m, a \o h \o m)
           /\ SubSeq(h, 1, n) \in Seq(X) /\ SubSeq(h, n + 1, Len(h)) \in Seq(X)
           /\ ToSet(h) = ToSet(SubSeq(h, 1, n)) \cup ToSet(SubSeq(h, n + 1, Len(h)))
           /\ Distinct(h) => ToSet(SubSeq(h, 1, n)) \cap ToSet(SubSeq(h, n + 1, Len(h))) = {}
<1> DEFINE p == SubSeq(h, 1, n)
           q == SubSeq(h, n + 1, Len(h))
<1>1. /\ p \in Seq(X) /\ q \in Seq(X) /\ Len(p) = n /\ n \in Nat /\ Len(q) = Len(h) - n
      /\ \A i \in 1 .. n : p[i] = h[i]
      /\ \A i \in 1 .. Len(h) - n : q[i] = h[n + i]
  OBVIOUS
<1>2. p \o q = h
  OBVIOUS
<1> HIDE DEF p, q
<1>3. a \o p \in Seq(X) /\ (a \o p) \o <<>> = a \o p /\ (a \o p) \o q = a \o (p \o q)
  <2> p \in Seq(X) /\ q \in Seq(X)
    BY <1>1
  <2>1. a \o p \in Seq(X) /\ (a \o p) \o q = a \o (p \o q)
    OBVIOUS
  <2> QED
    BY <2>1, ConcatEmptySeq
<1>4. Thinned((a \o p) \o m, (a \o p) \o q \o m)
  BY <1>1, <1>3, CutOut
<1>5. Thinned((a \o p) \o <<>> \o m, a \o h \o m)
  BY <1>2, <1>3, <1>4
<1>6. ToSet(h) = ToSet(p) \cup ToSet(q)
  <2>1. ToSet(p \o q) = ToSet(p) \cup ToSet(q)
    BY <1>1, ToSetConcat
  <2> QED
    BY <1>2, <2>1
<1>7. ASSUME Distinct(h), NEW x \in ToSet(p), x \in ToSet(q) PROVE FALSE
  <2>1. PICK i \in 1 .. Len(p) : x = p[i]
    BY <1>1, <1>7, InToSet
  <2>2. PICK j \in 1 .. Len(q) : x = q[j]
    BY <1>1, <1>7, InToSet
  <2>3. i \in 1 .. n /\ j \in 1 .. Len(h) - n
    BY <1>1
  <2>4. i \in 1 .. Len(h) /\ n + j \in 1 .. Len(h) /\ i # n + j
    BY <1>1, <2>3
  <2>5. x = h[i] /\ x = h[n + j]
    BY <1>1, <2>1, <2>2, <2>3
  <2> QED
    BY <1>7, <2>4, <2>5 DEF Distinct
<1> QED
  BY <1>1, <1>5, <1>6, <1>7 DEF p, q

\* A request is taken out of the mailbox.
LEMMA MoveRemoved ==
    ASSUME NEW X, NEW a \in Seq(X), NEW h \in Seq(X), NEW m \in Seq(X), NEW i \in 1 .. Len(m)
    PROVE  /\ Thinned(a \o h \o RemoveAt(m, i), a \o h \o m)
           /\ RemoveAt(m, i) \in Seq(X)
           /\ ToSet(RemoveAt(m, i)) \subseteq ToSet(m)
           /\ Distinct(m) => m[i] \notin ToSet(RemoveAt(m, i))
<1> DEFINE p == SubSeq(m, 1, i - 1)
           q == SubSeq(m, i + 1, Len(m))
           e == <<m[i]>>
           g == a \o h
<1>1. /\ p \in Seq(X) /\ q \in Seq(X) /\ Len(p) = i - 1 /\ i \in Nat /\ Len(q) = Len(m) - i
      /\ \A j \in 1 .. i - 1 : p[j] = m[j]
      /\ \A j \in 1 .. Len(m) - i : q[j] = m[i + j]
      /\ e \in Seq(X)
  OBVIOUS
<1>2. p \o e \o q = m
  <2>1. SubSeq(m, 1, i) = p \o e
    OBVIOUS
  <2>2. SubSeq(m, 1, i) \o q = m
    OBVIOUS
  <2> QED
    BY <2>1, <2>2
<1>3. RemoveAt(m, i) = p \o q
  BY DEF RemoveAt
<1>4. g \in Seq(X)
  BY ConcatProperties
<1> HIDE DEF p, q, e, g
<1> p \in Seq(X) /\ q \in Seq(X) /\ e \in Seq(X) /\ g \in Seq(X)
  BY <1>1, <1>4
<1>5. g \o p \in Seq(X) /\ p \o e \in Seq(X)
  OBVIOUS
<1>6. (g \o p) \o q = g \o (p \o q)
  BY SMTT(40)
<1>7. (g \o p) \o e = g \o (p \o e)
  BY SMTT(40)
<1>8. (g \o (p \o e)) \o q = g \o ((p \o e) \o q)
  <2> DEFINE f == p \o e
  <2> f \in Seq(X)
    BY <1>5
  <2> HIDE DEF f
  <2>1. (g \o f) \o q = g \o (f \o q)
    BY SMTT(40)
  <2> QED
    BY <2>1 DEF f
<1>9. Thinned((g \o p) \o q, (g \o p) \o e \o q)
  BY <1>1, <1>5, CutOut
<1>10. Thinned(g \o (p \o q), g \o m)
  BY <1>2, <1>6, <1>7, <1>8, <1>9
<1>11. p \o q \in Seq(X) /\ ToSet(p \o q) = ToSet(p) \cup ToSet(q)
  BY <1>1, ConcatProperties, ToSetConcat
<1>12. \A x \in ToSet(p) : \E j \in 1 .. i - 1 : x = m[j]
  <2>1. \A x \in ToSet(p) : \E j \in 1 .. Len(p) : x = p[j]
    BY InToSet
  <2> QED
    BY <1>1, <2>1, Zenon
<1>13. \A x \in ToSet(q) : \E j \in 1 .. Len(m) - i : x = m[i + j]
  <2>1. \A x \in ToSet(q) : \E j \in 1 .. Len(q) : x = q[j]
    BY InToSet
  <2>2. \A x \in ToSet(q) : \E j \in 1 .. Len(m) - i : x = q[j]
    BY <1>1, <2>1, Zenon
  <2> QED
    BY <1>1, <2>2, Zenon
<1>14. \A x \in ToSet(p \o q) : \E j \in 1 .. Len(m) : j # i /\ x = m[j]
  <2>1. ASSUME NEW x \in ToSet(p) PROVE \E j \in 1 .. Len(m) : j # i /\ x = m[j]
    BY <1>1, <1>12
  <2>2. ASSUME NEW x \in ToSet(q) PROVE \E j \in 1 .. Len(m) : j # i /\ x = m[j]
    <3>1. PICK j \in 1 .. Len(m) - i : x = m[i + j]
      BY <1>13
    <3>2. i + j \in 1 .. Len(m) /\ i + j # i
      BY <1>1
    <3> QED
      BY <3>1, <3>2
  <2> QED
    BY <1>11, <2>1, <2>2
<1>15. ToSet(p \o q) \subseteq ToSet(m)
  BY <1>14, InToSet
<1>16. Distinct(m) => m[i] \notin ToSet(p \o q)
  BY <1>14 DEF Distinct
<1> QED
  BY <1>3, <1>10, <1>11, <1>15, <1>16 DEF g

\* Everything not written is dropped.
LEMMA MoveCleared ==
    ASSUME NEW X, NEW a \in Seq(X), NEW h \in Seq(X), NEW m \in Seq(X)
    PROVE  Thinned(a \o <<>> \o <<>>, a \o h \o m)
<1> DEFINE v == h \o m
<1>1. v \in Seq(X) /\ <<>> \in Seq(X)
  OBVIOUS
<1>2. a \o h \o m = a \o v
  OBVIOUS
<1> HIDE DEF v
<1>3. a \o <<>> = a /\ a \o v \in Seq(X)
  BY <1>1, ConcatEmptySeq, ConcatProperties
<1>4. (a \o v) \o <<>> = a \o v
  BY <1>3, ConcatEmptySeq
<1>5. Thinned(a \o <<>>, a \o v \o <<>>)
  BY <1>1, CutOut
<1> QED
  BY <1>2, <1>3, <1>4, <1>5

\* A request joins the mailbox.
LEMMA MoveAppended ==
    ASSUME NEW X, NEW a \in Seq(X), NEW h \in Seq(X), NEW m \in Seq(X), NEW k \in X
    PROVE  a \o h \o Append(m, k) = Append(a \o h \o m, k)
<1> DEFINE g == a \o h
<1>1. g \in Seq(X)
  OBVIOUS
<1> HIDE DEF g
<1>2. g \o Append(m, k) = Append(g \o m, k)
  BY <1>1
<1> QED
  BY <1>2 DEF g

-----------------------------------------------------------------------------
(* The invariant.                                                          *)

\* A call is in one queue, once.
QueueInv ==
    /\ \A c \in Conn : Distinct(ForwardQueue(c))
    /\ \A c, d \in Conn :
          c # d => ToSet(ForwardQueue(c)) \cap ToSet(ForwardQueue(d)) = {}

\* The request of k was written to a service, or is on its way to one.
Arrived(k) == \E c \in Conn : k \in ToSet(arrived[c])
Waiting(k) == \E c \in Conn : k \in ToSet(held[c]) \cup ToSet(mailbox[c])

\* What forward futures resolve to is true.
ResultInv ==
    \A k \in Call :
        /\ Arrived(k) => result[k] = "ok"
        /\ k \in todo \/ Waiting(k) => result[k] = "none"

\* While its input waits for k, c's client heard of k from the service only.
ReaderInv ==
    \A c \in Conn : reader[c] # None =>
        /\ CallerOf[reader[c]] = c
        /\ \A i \in 1 .. Len(replies[c][reader[c]]) : replies[c][reader[c]][i].code = "ok"

\* Replies go to their callers, the service's only if it got the request,
\* and a refusal only if it never will.
TodoInv == \A c \in Conn, k \in todo : replies[c][k] = <<>>

TruthInv ==
    \A c \in Conn, k \in Call : \A i \in 1 .. Len(replies[c][k]) :
        /\ replies[c][k][i].code = "ok" => Arrived(k)
        /\ replies[c][k][i].code \notin {"ok", "stalled connection"} => ~Arrived(k) /\ ~Waiting(k)

HeardInv == TodoInv /\ ReplyReachesCaller /\ TruthInv

\* A full reply of the service, and who got it.
Final(r) == r.type = "full" /\ r.code = "ok"
HasFull(c, k) == \E i \in 1 .. Len(replies[c][k]) : Final(replies[c][k][i])

\* reply_map leads to the callers.
MapInv ==
    \A c \in Conn, k \in Call \ Push : reply_map[c][IdOf[k]] \in {None, CallerOf[k]}

\* What is unanswered was written, and nobody got its full reply.
UnansweredInv ==
    \A c \in Conn : \A k \in unanswered[c] :
        k \in ToSet(arrived[c]) /\ \A d \in Conn : ~HasFull(d, k)

\* A reply on its way to c is a service's, for this caller, who has no full
\* reply yet; the service sends nothing after a full one.
StreamEntry(c, r) ==
    /\ r.code = "ok" /\ CallerOf[r.of] = c /\ r.of \notin Push
    /\ Arrived(r.of)
    /\ ~HasFull(c, r.of)
    /\ Final(r) => \A d \in Conn : r.of \notin unanswered[d]

StreamInv ==
    \A c \in Conn : \A i \in 1 .. Len(reply_stream[c]) :
        /\ StreamEntry(c, reply_stream[c][i])
        /\ Final(reply_stream[c][i]) =>
              \A j \in 1 .. Len(reply_stream[c]) :
                  j > i => reply_stream[c][j].of # reply_stream[c][i].of

CallInv ==
    /\ TypeOK /\ QueueInv /\ ResultInv /\ ReaderInv /\ HeardInv
    /\ MapInv /\ UnansweredInv /\ StreamInv

-----------------------------------------------------------------------------
(* Types.                                                                  *)

LEMMA InitTypes == Init => TypeOK
<1> SUFFICES ASSUME Init PROVE TypeOK
  OBVIOUS
<1>1. \A S : <<>> \in Seq(S)
  OBVIOUS
<1> QED
  BY <1>1, Zenon DEF Init, TypeOK, Registry!Init

\* The queues, for whoever reads TypeOK.
LEMMA QueueTypes ==
    ASSUME TypeOK, NEW c \in Conn
    PROVE  /\ arrived[c] \in Seq(Call \ todo) /\ held[c] \in Seq(Call \ todo)
           /\ mailbox[c] \in Seq(Call \ todo)
           /\ arrived[c] \in Seq(Call) /\ held[c] \in Seq(Call) /\ mailbox[c] \in Seq(Call)
           /\ ToSet(arrived[c]) \subseteq Call \ todo
           /\ ToSet(held[c]) \subseteq Call \ todo
           /\ ToSet(mailbox[c]) \subseteq Call \ todo
<1>1. /\ arrived[c] \in Seq(Call \ todo) /\ held[c] \in Seq(Call \ todo)
      /\ mailbox[c] \in Seq(Call \ todo)
  BY DEF TypeOK
<1>2. \A s \in Seq(Call \ todo) : s \in Seq(Call) /\ ToSet(s) \subseteq Call \ todo
  <2> TAKE s \in Seq(Call \ todo)
  <2>1. s \in Seq(Call)
    BY SeqMonotonic
  <2> QED
    BY <2>1, InToSet
<1> QED
  BY <1>1, <1>2

\* Mailboxes after a cancelled request.
LEMMA CancelledTypes ==
    ASSUME TypeOK, NEW k, NEW d \in Conn
    PROVE  /\ Cancelled(k)[d] \in Seq(Call \ todo)
           /\ ToSet(Cancelled(k)[d]) \subseteq ToSet(mailbox[d])
           /\ Distinct(mailbox[d]) => k \notin ToSet(Cancelled(k)[d])
           /\ Thinned(arrived[d] \o held[d] \o Cancelled(k)[d], ForwardQueue(d))
<1> DEFINE m == mailbox[d]
           X == Call \ todo
<1> arrived[d] \in Seq(X) /\ held[d] \in Seq(X) /\ m \in Seq(X)
  BY DEF TypeOK
<1> HIDE DEF X
<1>1. CASE k \notin ToSet(m)
  <2>1. Cancelled(k)[d] = m
    BY <1>1 DEF Cancelled
  <2>2. arrived[d] \o held[d] \o m \in Seq(X)
    BY ThreeParts
  <2>3. Thinned(ForwardQueue(d), ForwardQueue(d))
    BY <2>2, ThinnedSelf DEF ForwardQueue
  <2> QED
    BY <1>1, <2>1, <2>3 DEF X, ForwardQueue
<1>2. CASE k \in ToSet(m)
  <2> DEFINE i == CHOOSE j \in 1 .. Len(m) : m[j] = k
  <2>1. \E j \in 1 .. Len(m) : m[j] = k
    BY <1>2, InToSet
  <2>2. i \in 1 .. Len(m) /\ m[i] = k
    BY <2>1
  <2>3. Cancelled(k)[d] = RemoveAt(m, i)
    BY <1>2 DEF Cancelled
  <2> HIDE DEF i, m
  <2>4. /\ Thinned(arrived[d] \o held[d] \o RemoveAt(m, i), arrived[d] \o held[d] \o m)
        /\ RemoveAt(m, i) \in Seq(X)
        /\ ToSet(RemoveAt(m, i)) \subseteq ToSet(m)
        /\ Distinct(m) => m[i] \notin ToSet(RemoveAt(m, i))
    BY <2>2, MoveRemoved
  <2> QED
    BY <2>2, <2>3, <2>4 DEF ForwardQueue, m, X
<1> QED
  BY <1>1, <1>2

LEMMA ResolveType ==
    ASSUME TypeOK, NEW k \in Call, Resolve(k) # None
    PROVE  Resolve(k) \in Conn
<1> DEFINE j == CHOOSE i \in Longest(k) : TRUE
<1>1. Longest(k) # {} /\ Resolve(k) = owner[NamesOf[k][j]]
  BY DEF Resolve
<1>2. j \in Longest(k)
  BY <1>1
<1> HIDE DEF j
<1>3. NamesOf[k][j] \in Service /\ owner[NamesOf[k][j]] # None
  BY <1>2, CallsAssumption DEF Longest
<1> QED
  BY <1>1, <1>3 DEF TypeOK

LEMMA ReplyType ==
    ASSUME NEW k \in Call, NEW type \in {"partial", "full"},
           NEW code \in {"ok", "bad_request", "request canceled", "lost connection",
                         "stalled connection"}
    PROVE  /\ Reply(k, type, code) \in ReplyRecord
           /\ Reply(k, type, code).of = k
           /\ Reply(k, type, code).type = type /\ Reply(k, type, code).code = code
  BY CallsAssumption DEF Reply, ReplyRecord

\* What the caller is told about the outcome of forwarding.
LEMMA ForwardReplyType ==
    ASSUME NEW k \in Call, NEW r \in {"ok", "canceled", "closed", "timeout"}
    PROVE  /\ ForwardReply(k, r) \in Seq(ReplyRecord)
           /\ r = "ok" \/ k \in Push => ForwardReply(k, r) = <<>>
           /\ ~(r = "ok" \/ k \in Push) =>
                 \E code \in {"request canceled", "lost connection", "stalled connection"} :
                     /\ ForwardReply(k, r) = <<Reply(k, "full", code)>>
                     /\ code = "stalled connection" <=> r = "timeout"
<1> DEFINE code == CASE r = "canceled" -> "request canceled"
                     [] r = "closed" -> "lost connection"
                     [] r = "timeout" -> "stalled connection"
<1>1. CASE r = "ok" \/ k \in Push
  <2>1. ForwardReply(k, r) = <<>>
    BY <1>1 DEF ForwardReply
  <2> QED
    BY <1>1, <2>1
<1>2. CASE ~(r = "ok" \/ k \in Push)
  <2>1. ForwardReply(k, r) = <<Reply(k, "full", code)>>
    BY <1>2 DEF ForwardReply
  <2>2. /\ code \in {"request canceled", "lost connection", "stalled connection"}
        /\ code = "stalled connection" <=> r = "timeout"
    BY <1>2
  <2>3. Reply(k, "full", code) \in ReplyRecord
    BY <2>2, ReplyType
  <2> HIDE DEF code
  <2>4. <<Reply(k, "full", code)>> \in Seq(ReplyRecord)
    BY <2>3
  <2> QED
    BY <1>2, <2>1, <2>2, <2>4
<1> QED
  BY <1>1, <1>2

LEMMA NextTypes ==
    ASSUME TypeOK, [Next]_vars
    PROVE  TypeOK'
<1> USE DEF registry, forwarding, answering
<1>1. ASSUME UNCHANGED vars PROVE TypeOK'
  BY <1>1 DEF TypeOK, vars
<1>2. ASSUME NEW c \in Conn, RegistryStep(c) PROVE TypeOK'
  <2>1. /\ owner' \in [Service -> Conn \cup {None}] /\ joined' \subseteq Conn
        /\ left' \subseteq joined'
    <3>1. Offers[c] \subseteq Service
      BY CallsAssumption
    <3> QED
      BY <1>2, <3>1, ZenonT(40) DEF TypeOK, RegistryStep, Registry!Join, Registry!Claim, Registry!Release
  <2> QED
    BY <1>2, <2>1 DEF TypeOK, RegistryStep
<1>3. ASSUME NEW c \in Conn, Leave(c) PROVE TypeOK'
  <2>1. /\ owner' \in [Service -> Conn \cup {None}] /\ joined' \subseteq Conn
        /\ left' \subseteq joined'
    BY <1>3 DEF TypeOK, Leave, Registry!Leave
  <2>2. result' \in [Call -> {"none", "ok", "canceled", "closed"}]
    BY <1>3 DEF TypeOK, Leave, LeaveResult
  <2>3. mailbox' \in [Conn -> Seq(Call \ todo)]
    <3>1. \A d \in Conn : Cancelled(reader[c])[d] \in Seq(Call \ todo)
      BY CancelledTypes
    <3>2. mailbox' = [Cancelled(reader[c]) EXCEPT ![c] = <<>>] /\ <<>> \in Seq(Call \ todo)
      BY <1>3 DEF Leave
    <3>3. Cancelled(reader[c]) \in [Conn -> Seq(Call \ todo)]
      BY <3>1 DEF Cancelled
    <3> QED
      BY <3>2, <3>3
  <2>4. held' \in [Conn -> Seq(Call \ todo)] /\ reply_stream' \in [Conn -> Seq(ReplyRecord)]
    <3>1. <<>> \in Seq(Call \ todo) /\ <<>> \in Seq(ReplyRecord)
      OBVIOUS
    <3> QED
      BY <1>3, <3>1 DEF TypeOK, Leave
  <2>5. reader' \in [Conn -> (Call \ todo) \cup {None}]
    BY <1>3 DEF TypeOK, Leave
  <2>6. /\ reply_map' \in [Conn -> [ReqId -> Conn \cup {None}]]
        /\ unanswered' \in [Conn -> SUBSET (Call \ Push)]
    BY <1>3 DEF TypeOK, Leave
  <2> QED
    BY <1>3, <2>1, <2>2, <2>3, <2>4, <2>5, <2>6 DEF TypeOK, Leave
<1>4. ASSUME NEW k \in Call, CallNotFound(k) PROVE TypeOK'
  <2> DEFINE c == CallerOf[k]
  <2>1. c \in Conn
    BY CallsAssumption
  <2>2. replies' \in [Conn -> [Call -> Seq(ReplyRecord)]]
    <3>1. Reply(k, "full", "bad_request") \in ReplyRecord
      BY ReplyType
    <3>2. replies[c][k] \in Seq(ReplyRecord)
      BY <2>1 DEF TypeOK
    <3>3. Append(replies[c][k], Reply(k, "full", "bad_request")) \in Seq(ReplyRecord)
      BY <3>1, <3>2
    <3> QED
      BY <1>4, <2>1, <3>2, <3>3 DEF TypeOK, CallNotFound
  <2>3. TypeOK /\ todo' \subseteq todo
    BY <1>4 DEF CallNotFound
  <2>4. /\ todo' \subseteq Call /\ reader' \in [Conn -> (Call \ todo') \cup {None}]
        /\ mailbox' \in [Conn -> Seq(Call \ todo')] /\ held' \in [Conn -> Seq(Call \ todo')]
        /\ arrived' \in [Conn -> Seq(Call \ todo')]
    <3>1. \A s \in Seq(Call \ todo) : s \in Seq(Call \ todo')
      BY <2>3, SeqMonotonic
    <3> QED
      BY <1>4, <2>3, <3>1 DEF TypeOK, CallNotFound
  <2> QED
    BY <1>4, <2>2, <2>4 DEF TypeOK, CallNotFound
<1>5. ASSUME NEW k \in Call, CallForward(k) PROVE TypeOK'
  <2> DEFINE c == CallerOf[k]
             d == Resolve(k)
  <2>1. c \in Conn /\ d \in Conn
    BY <1>5, CallsAssumption, ResolveType DEF CallForward
  <2>2. /\ k \in todo /\ todo' = todo \ {k}
        /\ mailbox' = [mailbox EXCEPT ![d] = Append(@, k)] /\ reader' = [reader EXCEPT ![c] = k]
        /\ UNCHANGED <<registry, result, held, answering, arrived, replies>>
    BY <1>5 DEF CallForward
  <2> HIDE DEF c, d
  <2>3. \A s \in Seq(Call \ todo) : s \in Seq(Call \ todo')
    BY <2>2, SeqMonotonic
  <2>4. Append(mailbox[d], k) \in Seq(Call \ todo')
    <3>1. mailbox[d] \in Seq(Call \ todo') /\ k \in Call \ todo'
      BY <2>1, <2>2, <2>3 DEF TypeOK
    <3> QED
      BY <3>1
  <2>5. /\ todo' \subseteq Call /\ reader' \in [Conn -> (Call \ todo') \cup {None}]
        /\ mailbox' \in [Conn -> Seq(Call \ todo')] /\ held' \in [Conn -> Seq(Call \ todo')]
        /\ arrived' \in [Conn -> Seq(Call \ todo')]
    BY <2>1, <2>2, <2>3, <2>4 DEF TypeOK
  <2> QED
    BY <2>2, <2>5 DEF TypeOK
<1>6. ASSUME NEW c \in Conn, NEW k \in Call, NEW r \in {"ok", "canceled", "closed", "timeout"},
             replies' = [replies EXCEPT ![c][k] = @ \o ForwardReply(k, r)]
      PROVE  replies' \in [Conn -> [Call -> Seq(ReplyRecord)]]
  <2>1. replies[c][k] \in Seq(ReplyRecord) /\ ForwardReply(k, r) \in Seq(ReplyRecord)
    BY ForwardReplyType DEF TypeOK
  <2>2. replies[c][k] \o ForwardReply(k, r) \in Seq(ReplyRecord)
    BY <2>1
  <2> QED
    BY <1>6, <2>2 DEF TypeOK
<1>7. ASSUME NEW c \in Conn, ForwardDone(c) PROVE TypeOK'
  <2>1. reader[c] \in Call /\ result[reader[c]] \in {"ok", "canceled", "closed", "timeout"}
    BY <1>7 DEF TypeOK, ForwardDone
  <2>2. replies' \in [Conn -> [Call -> Seq(ReplyRecord)]]
    BY <1>6, <1>7, <2>1 DEF ForwardDone
  <2> QED
    BY <1>7, <2>2 DEF TypeOK, ForwardDone
<1>8. ASSUME NEW c \in Conn, ForwardTimeout(c) PROVE TypeOK'
  <2>1. reader[c] \in Call
    BY <1>8 DEF TypeOK, ForwardTimeout
  <2>2. replies' \in [Conn -> [Call -> Seq(ReplyRecord)]]
    BY <1>6, <1>8, <2>1 DEF ForwardTimeout
  <2>3. mailbox' \in [Conn -> Seq(Call \ todo)]
    <3>1. \A d \in Conn : Cancelled(reader[c])[d] \in Seq(Call \ todo)
      BY CancelledTypes
    <3> QED
      BY <1>8, <3>1 DEF ForwardTimeout, Cancelled
  <2> QED
    BY <1>8, <2>2, <2>3 DEF TypeOK, ForwardTimeout
<1>9. ASSUME NEW c \in Conn, NEW k \in Call
      PROVE  [reply_map EXCEPT ![c][IdOf[k]] = RememberCaller(c, k)]
                \in [Conn -> [ReqId -> Conn \cup {None}]]
  <2>1. IdOf[k] \in ReqId /\ CallerOf[k] \in Conn
    BY CallsAssumption
  <2>2. RememberCaller(c, k) \in Conn \cup {None}
    BY <2>1 DEF TypeOK, RememberCaller
  <2> QED
    BY <2>1, <2>2 DEF TypeOK
<1>10. ASSUME NEW c \in Conn, NEW ks \in Seq(Call \ todo), Write(c, ks)
      PROVE  /\ arrived' \in [Conn -> Seq(Call \ todo)]
             /\ unanswered' \in [Conn -> SUBSET (Call \ Push)]
  <2>1. arrived[c] \o ks \in Seq(Call \ todo)
    <3>1. arrived[c] \in Seq(Call \ todo)
      BY DEF TypeOK
    <3> QED
      BY <3>1
  <2>2. ToSet(ks) \subseteq Call
    BY InToSet
  <2> QED
    BY <1>10, <2>1, <2>2 DEF TypeOK, Write
<1>11. ASSUME NEW c \in Conn, mailbox[c] # <<>>
      PROVE  /\ Head(mailbox[c]) \in Call \ todo /\ Tail(mailbox[c]) \in Seq(Call \ todo)
             /\ <<Head(mailbox[c])>> \in Seq(Call \ todo)
  <2>1. mailbox[c] \in Seq(Call \ todo)
    BY DEF TypeOK
  <2> QED
    BY <1>11, <2>1
<1>12. ASSUME NEW c \in Conn, ForwardNow(c) PROVE TypeOK'
  <2> DEFINE k == Head(mailbox[c])
  <2>1. /\ k \in Call \ todo /\ Tail(mailbox[c]) \in Seq(Call \ todo)
        /\ <<k>> \in Seq(Call \ todo)
    BY <1>11, <1>12 DEF ForwardNow, Takes
  <2>2. /\ mailbox' = [mailbox EXCEPT ![c] = Tail(@)]
        /\ reply_map' = [reply_map EXCEPT ![c][IdOf[k]] = RememberCaller(c, k)]
        /\ Write(c, <<k>>)
        /\ result' = [result EXCEPT ![k] = "ok"]
        /\ UNCHANGED <<registry, todo, reader, held, reply_stream, partial, replies>>
    BY <1>12 DEF ForwardNow, Takes
  <2> HIDE DEF k
  <2>3. /\ arrived' \in [Conn -> Seq(Call \ todo)]
        /\ unanswered' \in [Conn -> SUBSET (Call \ Push)]
    BY <1>10, <2>1, <2>2
  <2>4. reply_map' \in [Conn -> [ReqId -> Conn \cup {None}]]
    BY <1>9, <2>1, <2>2
  <2>5. /\ mailbox' \in [Conn -> Seq(Call \ todo)]
        /\ result' \in [Call -> {"none", "ok", "canceled", "closed"}]
    BY <2>1, <2>2 DEF TypeOK
  <2> QED
    BY <2>2, <2>3, <2>4, <2>5 DEF TypeOK
<1>13. ASSUME NEW c \in Conn, ForwardHeld(c) PROVE TypeOK'
  <2> DEFINE k == Head(mailbox[c])
  <2>1. k \in Call \ todo /\ Tail(mailbox[c]) \in Seq(Call \ todo)
    BY <1>11, <1>13 DEF ForwardHeld, Takes
  <2>2. /\ mailbox' = [mailbox EXCEPT ![c] = Tail(@)]
        /\ reply_map' = [reply_map EXCEPT ![c][IdOf[k]] = RememberCaller(c, k)]
        /\ held' = [held EXCEPT ![c] = Append(@, k)]
        /\ UNCHANGED <<registry, todo, reader, result, reply_stream, unanswered,
                       partial, arrived, replies>>
    BY <1>13 DEF ForwardHeld, Takes
  <2> HIDE DEF k
  <2>3. Append(held[c], k) \in Seq(Call \ todo)
    <3>1. held[c] \in Seq(Call \ todo)
      BY DEF TypeOK
    <3> QED
      BY <2>1, <3>1
  <2>4. reply_map' \in [Conn -> [ReqId -> Conn \cup {None}]]
    BY <1>9, <2>1, <2>2
  <2>5. mailbox' \in [Conn -> Seq(Call \ todo)] /\ held' \in [Conn -> Seq(Call \ todo)]
    BY <2>1, <2>2, <2>3 DEF TypeOK
  <2> QED
    BY <2>2, <2>4, <2>5 DEF TypeOK
<1>14. ASSUME NEW c \in Conn, Refill(c) PROVE TypeOK'
  <2>1. PICK n \in 1 .. Len(held[c]) :
            Write(c, SubSeq(held[c], 1, n)) /\ result' = [k \in Call |-> DropResult(c, n, k)]
    BY <1>14 DEF Refill
  <2>2. SubSeq(held[c], 1, n) \in Seq(Call \ todo)
    <3>1. held[c] \in Seq(Call \ todo) /\ <<>> \in Seq(Call \ todo)
      BY DEF TypeOK
    <3> QED
      BY <3>1, MoveDrained
  <2>3. /\ arrived' \in [Conn -> Seq(Call \ todo)]
        /\ unanswered' \in [Conn -> SUBSET (Call \ Push)]
    BY <1>10, <2>1, <2>2
  <2>4. result' \in [Call -> {"none", "ok", "canceled", "closed"}]
    BY <2>1 DEF TypeOK, DropResult
  <2>5. held' \in [Conn -> Seq(Call \ todo)]
    <3>1. <<>> \in Seq(Call \ todo)
      OBVIOUS
    <3> QED
      BY <1>14, <3>1 DEF TypeOK, Refill, AfterRefill
  <2> QED
    BY <1>14, <2>3, <2>4, <2>5 DEF TypeOK, Refill
<1>15. ASSUME NEW c \in Conn, reply_stream[c] # <<>>
      PROVE  /\ Head(reply_stream[c]) \in ReplyRecord
             /\ [reply_stream EXCEPT ![c] = Tail(@)] \in [Conn -> Seq(ReplyRecord)]
  <2>1. reply_stream[c] \in Seq(ReplyRecord)
    BY DEF TypeOK
  <2>2. Head(reply_stream[c]) \in ReplyRecord /\ Tail(reply_stream[c]) \in Seq(ReplyRecord)
    BY <1>15, <2>1
  <2> QED
    BY <2>2 DEF TypeOK
<1>16. ASSUME NEW c \in Conn, DeliverReply(c) PROVE TypeOK'
  <2> DEFINE r == Head(reply_stream[c])
  <2>1. r \in ReplyRecord /\ reply_stream' \in [Conn -> Seq(ReplyRecord)]
    BY <1>15, <1>16 DEF DeliverReply
  <2>2. replies' = [replies EXCEPT ![c][r.of] = Append(@, r)]
    BY <1>16 DEF DeliverReply
  <2> HIDE DEF r
  <2>3. r.of \in Call
    BY <2>1 DEF ReplyRecord
  <2>4. Append(replies[c][r.of], r) \in Seq(ReplyRecord)
    <3>1. replies[c][r.of] \in Seq(ReplyRecord)
      BY <2>3 DEF TypeOK
    <3> QED
      BY <2>1, <3>1
  <2>5. replies' \in [Conn -> [Call -> Seq(ReplyRecord)]]
    BY <2>2, <2>3, <2>4 DEF TypeOK
  <2> QED
    BY <1>16, <2>1, <2>5 DEF TypeOK, DeliverReply
<1>17. ASSUME NEW c \in Conn, LoseReply(c) PROVE TypeOK'
  BY <1>15, <1>17 DEF TypeOK, LoseReply
<1>18. ASSUME NEW c \in Conn, PurgeReplyMap(c) PROVE TypeOK'
  <2>1. reply_map' \in [Conn -> [ReqId -> Conn \cup {None}]]
    BY <1>18 DEF TypeOK, PurgeReplyMap
  <2> QED
    BY <1>18, <2>1 DEF TypeOK, PurgeReplyMap
<1>19. ASSUME NEW r \in ReplyRecord, NEW D
      PROVE  [d \in Conn |-> IF d \in D THEN Append(reply_stream[d], r) ELSE reply_stream[d]]
                \in [Conn -> Seq(ReplyRecord)]
  <2>1. \A d \in Conn : reply_stream[d] \in Seq(ReplyRecord)
    BY DEF TypeOK
  <2>2. \A d \in Conn : Append(reply_stream[d], r) \in Seq(ReplyRecord)
    BY <2>1
  <2> QED
    BY <2>1, <2>2
<1>20. ASSUME NEW c \in Conn, NEW k \in Call, FullReply(c, k) PROVE TypeOK'
  <2>1. reply_stream' \in [Conn -> Seq(ReplyRecord)]
    <3>1. Reply(k, "full", "ok") \in ReplyRecord
      BY ReplyType
    <3>2. reply_stream' = [d \in Conn |-> IF d \in ReplyTo(c, IdOf[k])
                                          THEN Append(reply_stream[d], Reply(k, "full", "ok"))
                                          ELSE reply_stream[d]]
      BY <1>20 DEF FullReply
    <3> QED
      BY <1>19, <3>1, <3>2, Zenon
  <2>2. reply_map' \in [Conn -> [ReqId -> Conn \cup {None}]]
    BY <1>20, CallsAssumption DEF TypeOK, FullReply, Forgotten
  <2>3. unanswered' \in [Conn -> SUBSET (Call \ Push)]
    BY <1>20 DEF TypeOK, FullReply
  <2> QED
    BY <1>20, <2>1, <2>2, <2>3 DEF TypeOK, FullReply
<1>21. ASSUME NEW c \in Conn, NEW k \in Call, PartialReply(c, k) PROVE TypeOK'
  <2>1. reply_stream' \in [Conn -> Seq(ReplyRecord)]
    <3>1. Reply(k, "partial", "ok") \in ReplyRecord
      BY ReplyType
    <3>2. reply_stream' = [d \in Conn |-> IF d \in ReplyTo(c, IdOf[k])
                                          THEN Append(reply_stream[d], Reply(k, "partial", "ok"))
                                          ELSE reply_stream[d]]
      BY <1>21 DEF PartialReply
    <3> QED
      BY <1>19, <3>1, <3>2, Zenon
  <2> QED
    BY <1>21, <2>1 DEF TypeOK, PartialReply
<1> QED
  BY <1>1, <1>2, <1>3, <1>4, <1>5, <1>7, <1>8, <1>12, <1>13, <1>14, <1>16, <1>17, <1>18,
     <1>20, <1>21 DEF Next

-----------------------------------------------------------------------------
(* The queues.                                                             *)

LEMMA QueueIsSeq ==
    ASSUME TypeOK, NEW c \in Conn
    PROVE  /\ ForwardQueue(c) \in Seq(Call \ todo)
           /\ ForwardQueue(c) \in Seq(Call)
           /\ ToSet(ForwardQueue(c)) \subseteq Call \ todo
           /\ ToSet(ForwardQueue(c)) = ToSet(arrived[c]) \cup ToSet(held[c]) \cup ToSet(mailbox[c])
           /\ Thinned(ForwardQueue(c), ForwardQueue(c))
<1> DEFINE X == Call \ todo
<1> arrived[c] \in Seq(X) /\ held[c] \in Seq(X) /\ mailbox[c] \in Seq(X)
  BY DEF TypeOK
<1>1. X \subseteq Call
  OBVIOUS
<1> HIDE DEF X
<1>2. ForwardQueue(c) \in Seq(X)
  BY ThreeParts DEF ForwardQueue
<1>3. ForwardQueue(c) \in Seq(Call)
  BY <1>1, <1>2, SeqMonotonic
<1>4. ToSet(ForwardQueue(c)) \subseteq X
  BY <1>2, InToSet
<1>5. ToSet(ForwardQueue(c)) = ToSet(arrived[c]) \cup ToSet(held[c]) \cup ToSet(mailbox[c])
  BY PartsApart DEF ForwardQueue
<1>6. Thinned(ForwardQueue(c), ForwardQueue(c))
  BY <1>2, ThinnedSelf
<1> QED
  BY <1>2, <1>3, <1>4, <1>5, <1>6 DEF X

\* What a step does to the queues.
LEMMA NextQueues ==
    ASSUME TypeOK, [Next]_vars
    PROVE  \/ \A c \in Conn : Thinned(ForwardQueue(c)', ForwardQueue(c))
           \/ \E d \in Conn, k \in todo :
                 /\ todo' = todo \ {k}
                 /\ ForwardQueue(d)' = Append(ForwardQueue(d), k)
                 /\ \A c \in Conn : c # d => ForwardQueue(c)' = ForwardQueue(c)
<1> DEFINE Thin == \A c \in Conn : Thinned(ForwardQueue(c)', ForwardQueue(c))
<1> USE DEF forwarding, answering
<1>1. ASSUME UNCHANGED <<arrived, held, mailbox>> PROVE Thin
  <2>1. \A c \in Conn : ForwardQueue(c)' = ForwardQueue(c)
    BY <1>1 DEF ForwardQueue
  <2> QED
    BY <2>1, QueueIsSeq
<1>2. ASSUME NEW c \in Conn, ForwardQueue(c)' = ForwardQueue(c),
             \A d \in Conn : d # c => /\ arrived'[d] = arrived[d] /\ held'[d] = held[d]
                                       /\ mailbox'[d] = mailbox[d]
      PROVE  Thin
  <2>1. ASSUME NEW d \in Conn PROVE ForwardQueue(d)' = ForwardQueue(d)
    <3>1. CASE d = c
      BY <1>2, <3>1
    <3>2. CASE d # c
      BY <1>2, <3>2 DEF ForwardQueue
    <3> QED
      BY <3>1, <3>2
  <2> QED
    BY <2>1, QueueIsSeq
<1>3. ASSUME NEW c \in Conn, Leave(c) PROVE Thin
  <2>1. /\ arrived' = arrived /\ held' = [held EXCEPT ![c] = <<>>]
        /\ mailbox' = [Cancelled(reader[c]) EXCEPT ![c] = <<>>]
    BY <1>3 DEF Leave
  <2>2. ASSUME NEW d \in Conn PROVE Thinned(ForwardQueue(d)', ForwardQueue(d))
    <3>1. CASE d = c
      <4> DEFINE X == Call \ todo
                 a == arrived[c]
      <4> a \in Seq(X) /\ held[c] \in Seq(X) /\ mailbox[c] \in Seq(X)
        BY DEF TypeOK
      <4>1. held'[c] = <<>> /\ mailbox'[c] = <<>> /\ arrived'[c] = a
        BY <2>1 DEF TypeOK, Cancelled
      <4>2. ForwardQueue(c) = a \o held[c] \o mailbox[c]
        BY DEF ForwardQueue
      <4>3. ForwardQueue(c)' = a \o <<>> \o <<>>
        BY <4>1 DEF ForwardQueue
      <4> HIDE DEF X, a
      <4>4. Thinned(a \o <<>> \o <<>>, a \o held[c] \o mailbox[c])
        BY MoveCleared
      <4>9. Thinned(ForwardQueue(c)', ForwardQueue(c))
        BY <4>2, <4>3, <4>4
      <4> QED
        BY <3>1, <4>9
    <3>2. CASE d # c
      <4>1. ForwardQueue(d)' = arrived[d] \o held[d] \o Cancelled(reader[c])[d]
        BY <2>1, <3>2 DEF TypeOK, Cancelled, ForwardQueue
      <4> QED
        BY <4>1, CancelledTypes
    <3> QED
      BY <3>1, <3>2
  <2> QED
    BY <2>2
<1>4. ASSUME NEW k \in Call, CallForward(k)
      PROVE  \E d \in Conn, j \in todo :
                 /\ todo' = todo \ {j}
                 /\ ForwardQueue(d)' = Append(ForwardQueue(d), j)
                 /\ \A c \in Conn : c # d => ForwardQueue(c)' = ForwardQueue(c)
  <2>0. PICK d \in Conn : d = Resolve(k)
    BY <1>4, ResolveType DEF CallForward
  <2>1. /\ k \in todo /\ todo' = todo \ {k}
        /\ mailbox' = [mailbox EXCEPT ![d] = Append(@, k)] /\ UNCHANGED <<held, arrived>>
    BY <1>4, <2>0 DEF CallForward
  <2>2. ForwardQueue(d)' = Append(ForwardQueue(d), k)
    <3> arrived[d] \in Seq(Call) /\ held[d] \in Seq(Call) /\ mailbox[d] \in Seq(Call)
      BY QueueTypes
    <3>2. arrived[d] \o held[d] \o Append(mailbox[d], k)
             = Append(arrived[d] \o held[d] \o mailbox[d], k)
      <4> DEFINE a == arrived[d]
                 h == held[d]
                 m == mailbox[d]
      <4> a \in Seq(Call) /\ h \in Seq(Call) /\ m \in Seq(Call)
        OBVIOUS
      <4> HIDE DEF a, h, m
      <4>1. a \o h \o Append(m, k) = Append(a \o h \o m, k)
        BY MoveAppended, SMTT(40)
      <4> QED
        BY <4>1 DEF a, h, m
    <3>3. mailbox'[d] = Append(mailbox[d], k)
      BY <2>1 DEF TypeOK
    <3>4. ForwardQueue(d)' = arrived[d] \o held[d] \o Append(mailbox[d], k)
      BY <2>1, <3>3 DEF ForwardQueue
    <3> QED
      BY <3>2, <3>4 DEF ForwardQueue
  <2>3. \A c \in Conn : c # d => ForwardQueue(c)' = ForwardQueue(c)
    BY <2>1 DEF TypeOK, ForwardQueue
  <2> QED
    BY <2>1, <2>2, <2>3
<1>5. ASSUME NEW c \in Conn, ForwardTimeout(c) PROVE Thin
  <2>1. ASSUME NEW d \in Conn PROVE Thinned(ForwardQueue(d)', ForwardQueue(d))
    <3>1. ForwardQueue(d)' = arrived[d] \o held[d] \o Cancelled(reader[c])[d]
      BY <1>5 DEF ForwardTimeout, ForwardQueue
    <3> QED
      BY <3>1, CancelledTypes
  <2> QED
    BY <2>1
<1>6. ASSUME NEW c \in Conn, ForwardNow(c) PROVE Thin
  <2>1. /\ mailbox[c] # <<>> /\ held[c] = <<>> /\ held' = held
        /\ mailbox' = [mailbox EXCEPT ![c] = Tail(@)]
        /\ arrived' = [arrived EXCEPT ![c] = @ \o <<Head(mailbox[c])>>]
    BY <1>6 DEF ForwardNow, Takes, WriteNow, Write
  <2>2. ForwardQueue(c)' = (arrived[c] \o <<Head(mailbox[c])>>) \o <<>> \o Tail(mailbox[c])
    BY <2>1 DEF TypeOK, ForwardQueue
  <2>3. ForwardQueue(c) = arrived[c] \o <<>> \o mailbox[c]
    BY <2>1 DEF ForwardQueue
  <2>4. arrived[c] \in Seq(Call) /\ mailbox[c] \in Seq(Call)
    BY QueueTypes
  <2>5. ForwardQueue(c)' = ForwardQueue(c)
    BY <2>1, <2>2, <2>3, <2>4, MoveNow
  <2>6. \A d \in Conn : d # c => /\ arrived'[d] = arrived[d] /\ held'[d] = held[d]
                                   /\ mailbox'[d] = mailbox[d]
    BY <2>1 DEF TypeOK
  <2> QED
    BY <1>2, <2>5, <2>6
<1>7. ASSUME NEW c \in Conn, ForwardHeld(c) PROVE Thin
  <2>1. /\ mailbox[c] # <<>> /\ arrived' = arrived
        /\ mailbox' = [mailbox EXCEPT ![c] = Tail(@)]
        /\ held' = [held EXCEPT ![c] = Append(@, Head(mailbox[c]))]
    BY <1>7 DEF ForwardHeld, Takes
  <2>2. ForwardQueue(c)' = arrived[c] \o Append(held[c], Head(mailbox[c])) \o Tail(mailbox[c])
    BY <2>1 DEF TypeOK, ForwardQueue
  <2>3. arrived[c] \in Seq(Call) /\ held[c] \in Seq(Call) /\ mailbox[c] \in Seq(Call)
    BY QueueTypes
  <2>4. ForwardQueue(c)' = ForwardQueue(c)
    <3>1. MovesHeld(arrived[c], held[c], mailbox[c])
      BY <2>1, <2>3, MoveHeld
    <3> QED
      BY <2>2, <3>1 DEF ForwardQueue, MovesHeld
  <2>5. \A d \in Conn : d # c => /\ arrived'[d] = arrived[d] /\ held'[d] = held[d]
                                   /\ mailbox'[d] = mailbox[d]
    BY <2>1 DEF TypeOK
  <2> QED
    BY <1>2, <2>4, <2>5
<1>8. ASSUME NEW c \in Conn, Refill(c) PROVE Thin
  <2>1. PICK n \in 1 .. Len(held[c]) : Write(c, SubSeq(held[c], 1, n))
    BY <1>8 DEF Refill
  <2>2. /\ arrived' = [arrived EXCEPT ![c] = @ \o SubSeq(held[c], 1, n)]
        /\ held' = [held EXCEPT ![c] = <<>>] /\ mailbox' = mailbox
    BY <1>8, <2>1 DEF Refill, AfterRefill, Write
  <2>3. ForwardQueue(c)' = (arrived[c] \o SubSeq(held[c], 1, n)) \o <<>> \o mailbox[c]
    BY <2>2 DEF TypeOK, ForwardQueue
  <2>4. arrived[c] \in Seq(Call) /\ held[c] \in Seq(Call) /\ mailbox[c] \in Seq(Call)
    BY QueueTypes
  <2>5. Thinned(ForwardQueue(c)', ForwardQueue(c))
    BY <2>3, <2>4, MoveDrained DEF ForwardQueue
  <2>6. ASSUME NEW d \in Conn, d # c PROVE ForwardQueue(d)' = ForwardQueue(d)
    BY <2>2, <2>6 DEF TypeOK, ForwardQueue
  <2> QED
    BY <2>5, <2>6, QueueIsSeq
<1>9. ASSUME NEW c \in Conn,
             \/ RegistryStep(c) \/ ForwardDone(c) \/ DeliverReply(c) \/ LoseReply(c)
             \/ PurgeReplyMap(c) \/ \E k \in Call : FullReply(c, k) \/ PartialReply(c, k)
      PROVE  UNCHANGED <<arrived, held, mailbox>>
  BY <1>9 DEF RegistryStep, ForwardDone, DeliverReply, LoseReply, PurgeReplyMap, FullReply,
     PartialReply
<1>10. ASSUME NEW k \in Call, CallNotFound(k) PROVE UNCHANGED <<arrived, held, mailbox>>
  BY <1>10 DEF CallNotFound
<1>11. ASSUME UNCHANGED vars PROVE UNCHANGED <<arrived, held, mailbox>>
  BY <1>11 DEF vars
<1> QED
  BY <1>1, <1>3, <1>4, <1>5, <1>6, <1>7, <1>8, <1>9, <1>10, <1>11 DEF Next

-----------------------------------------------------------------------------
(* No call is in two places, and none moves back.                          *)

\* Requests overtake nobody, and a new one is in no queue yet.
LEMMA NextQueueInv ==
    ASSUME TypeOK, QueueInv, [Next]_vars
    PROVE  /\ QueueInv'
           /\ \A c \in Conn :
                 \A j, k \in 1 .. Len(ForwardQueue(c)) :
                     \A x, y \in 1 .. Len(ForwardQueue(c)') :
                         /\ j < k
                         /\ ForwardQueue(c)'[x] = ForwardQueue(c)[j]
                         /\ ForwardQueue(c)'[y] = ForwardQueue(c)[k]
                         => x < y
<1> DEFINE Ordered(c) ==
              \A j, k \in 1 .. Len(ForwardQueue(c)) : \A x, y \in 1 .. Len(ForwardQueue(c)') :
                  j < k /\ ForwardQueue(c)'[x] = ForwardQueue(c)[j]
                        /\ ForwardQueue(c)'[y] = ForwardQueue(c)[k] => x < y
<1>1. TypeOK'
  BY NextTypes
<1>2. \A c \in Conn : ForwardQueue(c) \in Seq(Call) /\ ToSet(ForwardQueue(c)) \subseteq Call \ todo
  BY QueueIsSeq
<1>3. ASSUME NEW c \in Conn PROVE ForwardQueue(c)' \in Seq(Call)
  <2> DEFINE X == Call \ todo'
  <2>1. arrived'[c] \in Seq(X) /\ held'[c] \in Seq(X) /\ mailbox'[c] \in Seq(X) /\ X \subseteq Call
    BY <1>1 DEF TypeOK
  <2> HIDE DEF X
  <2>2. arrived'[c] \o held'[c] \o mailbox'[c] \in Seq(X)
    BY <2>1, ThreeParts
  <2> QED
    BY <2>1, <2>2, SeqMonotonic DEF ForwardQueue
<1>4. \A c \in Conn : Distinct(ForwardQueue(c))
  BY DEF QueueInv
<1>5. \A c, d \in Conn : c # d => ToSet(ForwardQueue(c)) \cap ToSet(ForwardQueue(d)) = {}
  BY DEF QueueInv
<1>6. CASE \A c \in Conn : Thinned(ForwardQueue(c)', ForwardQueue(c))
  <2>1. ASSUME NEW c \in Conn PROVE Follows(ForwardQueue(c)', ForwardQueue(c))
    BY <1>2, <1>3, <1>4, <1>6, ThinnedFollows
  <2>2. \A c \in Conn : Distinct(ForwardQueue(c)') /\ Ordered(c)
                         /\ ToSet(ForwardQueue(c)') \subseteq ToSet(ForwardQueue(c))
    BY <2>1 DEF Follows
  <2>3. \A c, d \in Conn : c # d => ToSet(ForwardQueue(c)') \cap ToSet(ForwardQueue(d)') = {}
    BY <1>5, <2>2, Zenon
  <2> QED
    BY <2>2, <2>3 DEF QueueInv
<1>7. CASE \E d \in Conn, k \in todo :
               /\ todo' = todo \ {k}
               /\ ForwardQueue(d)' = Append(ForwardQueue(d), k)
               /\ \A c \in Conn : c # d => ForwardQueue(c)' = ForwardQueue(c)
  <2>1. PICK d \in Conn, k \in todo :
               /\ ForwardQueue(d)' = Append(ForwardQueue(d), k)
               /\ \A c \in Conn : c # d => ForwardQueue(c)' = ForwardQueue(c)
    BY <1>7
  <2>2. k \in Call /\ \A c \in Conn : k \notin ToSet(ForwardQueue(c))
    BY <1>2 DEF TypeOK
  <2>3. /\ Distinct(ForwardQueue(d)') /\ Ordered(d)
        /\ ToSet(ForwardQueue(d)') = ToSet(ForwardQueue(d)) \cup {k}
    <3> DEFINE q == ForwardQueue(d)
    <3>1. q \in Seq(Call) /\ Distinct(q) /\ k \notin ToSet(q)
      BY <1>2, <1>4, <2>2
    <3> HIDE DEF q
    <3>2. /\ Distinct(Append(q, k)) /\ ToSet(Append(q, k)) = ToSet(q) \cup {k}
          /\ \A i, j \in 1 .. Len(q) : \A x, y \in 1 .. Len(Append(q, k)) :
                 i < j /\ Append(q, k)[x] = q[i] /\ Append(q, k)[y] = q[j] => x < y
      BY <2>2, <3>1, AppendFollows
    <3> QED
      BY <2>1, <3>2, Zenon DEF q
  <2>4. ASSUME NEW c \in Conn, c # d
        PROVE  Distinct(ForwardQueue(c)') /\ Ordered(c)
    <3>1. ForwardQueue(c)' = ForwardQueue(c)
      BY <2>1, <2>4
    <3>2. Follows(ForwardQueue(c), ForwardQueue(c))
      BY <1>2, <1>4, ThinnedFollows, QueueIsSeq
    <3> QED
      BY <3>1, <3>2 DEF Follows
  <2>5. ASSUME NEW c \in Conn, NEW e \in Conn, c # e
        PROVE  ToSet(ForwardQueue(c)') \cap ToSet(ForwardQueue(e)') = {}
    <3>1. CASE c = d
      <4>1. ToSet(ForwardQueue(e)') = ToSet(ForwardQueue(e)) /\ k \notin ToSet(ForwardQueue(e))
        BY <2>1, <2>2, <2>5, <3>1
      <4> QED
        BY <1>5, <2>3, <2>5, <3>1, <4>1
    <3>2. CASE e = d
      <4>1. ToSet(ForwardQueue(c)') = ToSet(ForwardQueue(c)) /\ k \notin ToSet(ForwardQueue(c))
        BY <2>1, <2>2, <2>5, <3>2
      <4> QED
        BY <1>5, <2>3, <2>5, <3>2, <4>1
    <3>3. CASE c # d /\ e # d
      <4>1. ForwardQueue(c)' = ForwardQueue(c) /\ ForwardQueue(e)' = ForwardQueue(e)
        BY <2>1, <3>3
      <4> QED
        BY <1>5, <2>5, <4>1
    <3> QED
      BY <3>1, <3>2, <3>3
  <2>6. QueueInv'
    BY <2>3, <2>4, <2>5 DEF QueueInv
  <2>7. \A c \in Conn : Ordered(c)
    BY <2>3, <2>4
  <2> QED
    BY <2>6, <2>7
<1> QED
  BY <1>6, <1>7, NextQueues

\* Where a call is.
LEMMA Apart ==
    ASSUME TypeOK, QueueInv
    PROVE  /\ \A c \in Conn : Distinct(mailbox[c]) /\ Distinct(held[c])
           /\ \A c \in Conn : /\ ToSet(arrived[c]) \cap ToSet(held[c]) = {}
                              /\ ToSet(arrived[c]) \cap ToSet(mailbox[c]) = {}
                              /\ ToSet(held[c]) \cap ToSet(mailbox[c]) = {}
           /\ \A c, d \in Conn : \A k :
                 /\ k \in ToSet(arrived[c]) \cup ToSet(held[c]) \cup ToSet(mailbox[c])
                 /\ k \in ToSet(arrived[d]) \cup ToSet(held[d]) \cup ToSet(mailbox[d])
                 => c = d
           /\ \A k : Arrived(k) => ~Waiting(k)
           /\ \A k \in todo : ~Arrived(k) /\ ~Waiting(k)
           /\ \A k : Arrived(k) \/ Waiting(k) => k \in Call
<1>1. ASSUME NEW c \in Conn
      PROVE  /\ Distinct(mailbox[c]) /\ Distinct(held[c])
             /\ ToSet(arrived[c]) \cap ToSet(held[c]) = {}
             /\ ToSet(arrived[c]) \cap ToSet(mailbox[c]) = {}
             /\ ToSet(held[c]) \cap ToSet(mailbox[c]) = {}
  <2>1. arrived[c] \in Seq(Call) /\ held[c] \in Seq(Call) /\ mailbox[c] \in Seq(Call)
    BY QueueTypes
  <2>2. Distinct(arrived[c] \o held[c] \o mailbox[c])
    BY DEF QueueInv, ForwardQueue
  <2> QED
    BY <2>1, <2>2, PartsApart
<1>2. ASSUME NEW c \in Conn, NEW d \in Conn, NEW k,
             k \in ToSet(arrived[c]) \cup ToSet(held[c]) \cup ToSet(mailbox[c]),
             k \in ToSet(arrived[d]) \cup ToSet(held[d]) \cup ToSet(mailbox[d])
      PROVE  c = d
  <2>1. k \in ToSet(ForwardQueue(c)) /\ k \in ToSet(ForwardQueue(d))
    BY <1>2, QueueIsSeq
  <2> QED
    BY <2>1 DEF QueueInv
<1>3. \A k : Arrived(k) => ~Waiting(k)
  BY <1>1, <1>2, Zenon DEF Arrived, Waiting
<1>4. \A c \in Conn : /\ ToSet(arrived[c]) \subseteq Call \ todo
                      /\ ToSet(held[c]) \subseteq Call \ todo
                      /\ ToSet(mailbox[c]) \subseteq Call \ todo
  BY QueueTypes
<1>5. /\ \A k \in todo : ~Arrived(k) /\ ~Waiting(k)
      /\ \A k : Arrived(k) \/ Waiting(k) => k \in Call
  BY <1>4, Zenon DEF Arrived, Waiting
<1> QED
  BY <1>1, <1>2, <1>3, <1>5, Zenon

LEMMA HeadAndTail ==
    ASSUME NEW X, NEW m \in Seq(X), m # <<>>
    PROVE  /\ Head(m) \in ToSet(m)
           /\ ToSet(m) = {Head(m)} \cup ToSet(Tail(m))
           /\ Distinct(m) => Head(m) \notin ToSet(Tail(m))
<1> DEFINE n == Tail(m)
           h == Head(m)
<1>1. n \in Seq(X) /\ Len(m) \in Nat /\ Len(m) >= 1 /\ Len(n) = Len(m) - 1 /\ h = m[1]
      /\ \A i \in 1 .. Len(n) : n[i] = m[i + 1]
  OBVIOUS
<1> HIDE DEF n, h
<1>2. \A x : x \in ToSet(m) <=> \E i \in 1 .. Len(m) : x = m[i]
  BY InToSet
<1>3. \A x : x \in ToSet(n) <=> \E i \in 1 .. Len(n) : x = n[i]
  BY <1>1, InToSet
<1>4. h \in ToSet(m)
  BY <1>1, <1>2
<1>5. ASSUME NEW x \in ToSet(n) PROVE x \in ToSet(m)
  <2>1. PICK i \in 1 .. Len(n) : x = n[i]
    BY <1>3
  <2>2. i + 1 \in 1 .. Len(m) /\ x = m[i + 1]
    BY <1>1, <2>1
  <2> QED
    BY <1>2, <2>2
<1>6. ASSUME NEW x \in ToSet(m), x # h PROVE x \in ToSet(n)
  <2>1. PICK i \in 1 .. Len(m) : x = m[i]
    BY <1>2
  <2>2. i - 1 \in 1 .. Len(n) /\ x = n[i - 1]
    BY <1>1, <1>6, <2>1
  <2> QED
    BY <1>3, <2>2
<1>7. ASSUME Distinct(m), h \in ToSet(n) PROVE FALSE
  <2>1. PICK i \in 1 .. Len(n) : h = n[i]
    BY <1>3, <1>7
  <2>2. i + 1 \in 1 .. Len(m) /\ 1 \in 1 .. Len(m) /\ m[i + 1] = m[1] /\ i + 1 # 1
    BY <1>1, <2>1
  <2> QED
    BY <1>7, <2>2 DEF Distinct
<1> QED
  BY <1>4, <1>5, <1>6, <1>7 DEF n, h

LEMMA EmptySet == ToSet(<<>>) = {}
  BY DEF ToSet

\* A call goes from todo to a queue, from there to a client, and its result
\* is set when it leaves the queue.
LEMMA NextFlow ==
    ASSUME TypeOK, QueueInv, [Next]_vars
    PROVE  /\ \A k \in Call :
                 /\ Arrived(k) => Arrived(k)' /\ result'[k] = result[k]
                 /\ Arrived(k)' => Arrived(k) \/ (Waiting(k) /\ result'[k] = "ok")
                 /\ Waiting(k)' => (Waiting(k) \/ k \in todo) /\ result'[k] = result[k]
                 /\ k \in todo' => k \in todo /\ result'[k] = result[k]
           /\ \A c \in Conn : ToSet(arrived[c]) \subseteq ToSet(arrived'[c])
           /\ \A c \in Conn : \A k \in unanswered'[c] :
                 k \in unanswered[c] \/ (Waiting(k) /\ k \in ToSet(arrived'[c]))
<1> DEFINE Moves(k) ==
              /\ Arrived(k) => Arrived(k)' /\ result'[k] = result[k]
              /\ Arrived(k)' => Arrived(k) \/ (Waiting(k) /\ result'[k] = "ok")
              /\ Waiting(k)' => (Waiting(k) \/ k \in todo) /\ result'[k] = result[k]
              /\ k \in todo' => k \in todo /\ result'[k] = result[k]
           Grows == \A c \in Conn : ToSet(arrived[c]) \subseteq ToSet(arrived'[c])
           Asks == \A c \in Conn : \A k \in unanswered'[c] :
                       k \in unanswered[c] \/ (Waiting(k) /\ k \in ToSet(arrived'[c]))
           Goal == (\A k \in Call : Moves(k)) /\ Grows /\ Asks
<1> USE DEF forwarding, answering
<1>1. ASSUME UNCHANGED <<arrived, held, mailbox, result>>, todo' \subseteq todo,
             \A c \in Conn : unanswered'[c] \subseteq unanswered[c]
      PROVE  Goal
  BY <1>1 DEF Arrived, Waiting
<1>2. ASSUME UNCHANGED vars PROVE Goal
  BY <1>1, <1>2 DEF vars
<1>3. ASSUME NEW c \in Conn,
             \/ RegistryStep(c) \/ ForwardDone(c) \/ DeliverReply(c) \/ LoseReply(c)
             \/ PurgeReplyMap(c) \/ \E k \in Call : FullReply(c, k) \/ PartialReply(c, k)
      PROVE  Goal
  <2>1. UNCHANGED <<arrived, held, mailbox, result, todo>>
    BY <1>3 DEF RegistryStep, ForwardDone, DeliverReply, LoseReply, PurgeReplyMap, FullReply,
       PartialReply
  <2>2. \A d \in Conn : unanswered'[d] \subseteq unanswered[d]
    <3>1. CASE \E k \in Call : FullReply(c, k)
      BY <3>1 DEF FullReply, TypeOK
    <3>2. CASE \E k \in Call : PartialReply(c, k)
      BY <3>2 DEF PartialReply
    <3>3. CASE RegistryStep(c) \/ ForwardDone(c) \/ DeliverReply(c) \/ LoseReply(c)
               \/ PurgeReplyMap(c)
      BY <3>3 DEF RegistryStep, ForwardDone, DeliverReply, LoseReply, PurgeReplyMap
    <3> QED
      BY <1>3, <3>1, <3>2, <3>3
  <2> QED
    BY <1>1, <2>1, <2>2
<1>4. ASSUME NEW k \in Call, CallNotFound(k) PROVE Goal
  <2>1. UNCHANGED <<arrived, held, mailbox, result, unanswered>> /\ todo' \subseteq todo
    BY <1>4 DEF CallNotFound
  <2> QED
    BY <1>1, <2>1
<1>5. ASSUME NEW k \in Call, CallForward(k) PROVE Goal
  <2>1. PICK d \in Conn : d = Resolve(k)
    BY <1>5, ResolveType DEF CallForward
  <2>2. /\ k \in todo /\ todo' = todo \ {k} /\ UNCHANGED <<held, arrived, result, unanswered>>
        /\ mailbox' = [mailbox EXCEPT ![d] = Append(@, k)]
    BY <1>5, <2>1 DEF CallForward
  <2>3. ASSUME NEW e \in Conn PROVE ToSet(mailbox'[e]) \subseteq ToSet(mailbox[e]) \cup {k}
    <3>1. CASE e = d
      <4> DEFINE m == mailbox[d]
      <4>1. m \in Seq(Call) /\ <<k>> \in Seq(Call)
        BY QueueTypes
      <4>2. mailbox'[d] = Append(m, k)
        BY <2>2 DEF TypeOK
      <4> HIDE DEF m
      <4>3. Append(m, k) = m \o <<k>>
        BY <4>1, AppendIsConcat
      <4>4. ToSet(m \o <<k>>) = ToSet(m) \cup ToSet(<<k>>)
        BY <4>1, ToSetConcat, ZenonT(40)
      <4>5. ToSet(<<k>>) = {k}
        BY DEF ToSet
      <4> QED
        BY <3>1, <4>2, <4>3, <4>4, <4>5 DEF m
    <3>2. CASE e # d
      BY <2>2, <3>2 DEF TypeOK
    <3> QED
      BY <3>1, <3>2
  <2>4. \A j : Waiting(j)' => Waiting(j) \/ j = k
    BY <2>2, <2>3 DEF Waiting
  <2>5. \A j : Arrived(j)' <=> Arrived(j)
    BY <2>2 DEF Arrived
  <2> QED
    BY <2>2, <2>4, <2>5
<1>6. ASSUME NEW c \in Conn, ForwardTimeout(c) PROVE Goal
  <2>1. UNCHANGED <<todo, arrived, held, result, unanswered>> /\ mailbox' = Cancelled(reader[c])
    BY <1>6 DEF ForwardTimeout
  <2>2. \A d \in Conn : ToSet(mailbox'[d]) \subseteq ToSet(mailbox[d])
    BY <2>1, CancelledTypes
  <2>3. \A j : Waiting(j)' => Waiting(j)
    BY <2>1, <2>2 DEF Waiting
  <2>4. \A j : Arrived(j)' <=> Arrived(j)
    BY <2>1 DEF Arrived
  <2> QED
    BY <2>1, <2>3, <2>4
<1>7. ASSUME NEW c \in Conn, Leave(c) PROVE Goal
  <2>1. /\ UNCHANGED <<todo, arrived>> /\ held' = [held EXCEPT ![c] = <<>>]
        /\ mailbox' = [Cancelled(reader[c]) EXCEPT ![c] = <<>>]
        /\ result' = [k \in Call |-> LeaveResult(c, k)]
        /\ unanswered' = [unanswered EXCEPT ![c] = {}]
    BY <1>7 DEF Leave
  <2>2. ASSUME NEW d \in Conn
        PROVE  /\ ToSet(held'[d]) \subseteq ToSet(held[d])
               /\ ToSet(mailbox'[d]) \subseteq ToSet(mailbox[d])
               /\ d = c => ToSet(held'[d]) = {} /\ ToSet(mailbox'[d]) = {}
    <3>1. CASE d = c
      <4>1. held'[d] = <<>> /\ mailbox'[d] = <<>>
        BY <2>1, <3>1 DEF TypeOK, Cancelled
      <4> QED
        BY <3>1, <4>1, EmptySet
    <3>2. CASE d # c
      <4>1. held'[d] = held[d] /\ mailbox'[d] = Cancelled(reader[c])[d]
        BY <2>1, <3>2 DEF TypeOK, Cancelled
      <4> QED
        BY <3>2, <4>1, CancelledTypes
    <3> QED
      BY <3>1, <3>2
  <2>3. \A j : Arrived(j)' <=> Arrived(j)
    BY <2>1 DEF Arrived
  <2>4. ASSUME NEW j \in Call, j \notin ToSet(mailbox[c]), j \notin ToSet(held[c])
        PROVE  result'[j] = result[j]
    BY <2>1, <2>4 DEF LeaveResult
  <2>5. ASSUME NEW j \in Call, Waiting(j)' PROVE Waiting(j) /\ result'[j] = result[j]
    <3>1. PICK d \in Conn : j \in ToSet(held'[d]) \cup ToSet(mailbox'[d])
      BY <2>5 DEF Waiting
    <3>2. d # c /\ j \in ToSet(held[d]) \cup ToSet(mailbox[d])
      BY <2>2, <3>1
    <3>3. j \notin ToSet(mailbox[c]) /\ j \notin ToSet(held[c])
      BY <3>2, Apart
    <3> QED
      BY <2>4, <3>2, <3>3 DEF Waiting
  <2>6. ASSUME NEW j \in Call, Arrived(j) \/ j \in todo PROVE result'[j] = result[j]
    <3>1. ~Waiting(j)
      BY <2>6, Apart
    <3> QED
      BY <2>4, <3>1 DEF Waiting
  <2>7. \A d \in Conn : unanswered'[d] \subseteq unanswered[d]
    BY <2>1 DEF TypeOK
  <2>8. Grows
    BY <2>1
  <2> QED
    BY <2>1, <2>3, <2>5, <2>6, <2>7, <2>8
<1>8. ASSUME NEW c \in Conn, ForwardNow(c) PROVE Goal
  <2> DEFINE m == mailbox[c]
  <2>1. /\ m # <<>> /\ UNCHANGED <<todo, held>>
        /\ mailbox' = [mailbox EXCEPT ![c] = Tail(@)]
        /\ arrived' = [arrived EXCEPT ![c] = @ \o <<Head(m)>>]
        /\ unanswered' = [unanswered EXCEPT ![c] = @ \cup (ToSet(<<Head(m)>>) \ Push)]
        /\ result' = [result EXCEPT ![Head(m)] = "ok"]
    BY <1>8 DEF ForwardNow, Takes, WriteNow, Write
  <2>2. PICK k : k = Head(m)
    OBVIOUS
  <2>3. /\ m \in Seq(Call) /\ Head(m) \in ToSet(m) /\ ToSet(m) = {Head(m)} \cup ToSet(Tail(m))
        /\ Head(m) \notin ToSet(Tail(m))
    BY <2>1, QueueTypes, Apart, HeadAndTail
  <2>4. k \in Call /\ k \in ToSet(m) /\ ToSet(<<k>>) = {k}
    <3>1. ToSet(<<k>>) = {k}
      BY DEF ToSet
    <3> QED
      BY <2>2, <2>3, <3>1, QueueTypes
  <2>5. /\ ToSet(arrived'[c]) = ToSet(arrived[c]) \cup {k}
        /\ ToSet(mailbox'[c]) = ToSet(m) \ {k}
        /\ \A d \in Conn : d # c => arrived'[d] = arrived[d] /\ mailbox'[d] = mailbox[d]
    <3>1. arrived'[c] = arrived[c] \o <<k>> /\ mailbox'[c] = Tail(m)
      BY <2>1, <2>2 DEF TypeOK
    <3>2. arrived[c] \in Seq(Call) /\ <<k>> \in Seq(Call)
      BY <2>4, QueueTypes
    <3>3. ToSet(arrived[c] \o <<k>>) = ToSet(arrived[c]) \cup {k}
      <4>1. ToSet(arrived[c] \o <<k>>) = ToSet(arrived[c]) \cup ToSet(<<k>>)
        BY <3>2, ToSetConcat, ZenonT(40)
      <4> QED
        BY <2>4, <4>1, Zenon
    <3>4. \A d \in Conn : d # c => arrived'[d] = arrived[d] /\ mailbox'[d] = mailbox[d]
      BY <2>1 DEF TypeOK
    <3> QED
      BY <2>2, <2>3, <3>1, <3>3, <3>4
  <2>6. Waiting(k) /\ result'[k] = "ok" /\ \A j \in Call : j # k => result'[j] = result[j]
    BY <2>1, <2>2, <2>4 DEF Waiting, TypeOK
  <2> HIDE DEF m
  <2>7. \A j : Arrived(j)' <=> Arrived(j) \/ j = k
    BY <2>5, Zenon DEF Arrived
  <2>8. \A j : Waiting(j)' => Waiting(j) /\ j # k
    <3>1. ASSUME NEW j, Waiting(j)' PROVE Waiting(j) /\ j # k
      <4>1. PICK d \in Conn : j \in ToSet(held[d]) \cup ToSet(mailbox'[d])
        BY <2>1, <3>1 DEF Waiting
      <4>2. j \in ToSet(held[d]) \cup ToSet(mailbox[d])
        BY <2>5, <4>1 DEF m
      <4>3. j # k
        <5>1. CASE d = c
          <6>1. k \notin ToSet(held[c])
            BY <2>4, Apart DEF m
          <6> QED
            BY <2>5, <4>1, <5>1, <6>1
        <5>2. CASE d # c
          BY <2>4, <4>2, <5>2, Apart DEF m
        <5> QED
          BY <5>1, <5>2
      <4> QED
        BY <4>2, <4>3 DEF Waiting
    <3> QED
      BY <3>1
  <2>9. \A j : Arrived(j) => j # k
    BY <2>6, Apart
  <2>10. Asks
    BY <2>1, <2>2, <2>4, <2>5, <2>6 DEF TypeOK
  <2>11. Grows
    BY <2>5
  <2>12. \A j \in todo : j # k
    BY <2>6, Apart
  <2>13. todo' = todo
    BY <2>1
  <2> QED
    BY <2>6, <2>7, <2>8, <2>9, <2>10, <2>11, <2>12, <2>13
<1>9. ASSUME NEW c \in Conn, ForwardHeld(c) PROVE Goal
  <2> DEFINE m == mailbox[c]
  <2>1. /\ m # <<>> /\ UNCHANGED <<todo, arrived, result, unanswered>>
        /\ mailbox' = [mailbox EXCEPT ![c] = Tail(@)]
        /\ held' = [held EXCEPT ![c] = Append(@, Head(m))]
    BY <1>9 DEF ForwardHeld, Takes
  <2>2. PICK k : k = Head(m)
    OBVIOUS
  <2>3. k \in ToSet(m) /\ ToSet(Tail(m)) \subseteq ToSet(m) /\ k \in Call
    BY <2>1, <2>2, QueueTypes, HeadAndTail
  <2>4. ToSet(held'[c]) = ToSet(held[c]) \cup {k}
    <3> DEFINE h == held[c]
    <3>1. held'[c] = Append(h, k) /\ h \in Seq(Call) /\ <<k>> \in Seq(Call)
      BY <2>1, <2>2, <2>3, QueueTypes, SMTT(40) DEF TypeOK
    <3> HIDE DEF h
    <3>2. Append(h, k) = h \o <<k>>
      BY <2>3, <3>1, AppendIsConcat
    <3>3. ToSet(h \o <<k>>) = ToSet(h) \cup ToSet(<<k>>)
      BY <3>1, ToSetConcat, SMTT(40)
    <3>4. ToSet(<<k>>) = {k}
      BY DEF ToSet
    <3> QED
      BY <3>1, <3>2, <3>3, <3>4 DEF h
  <2>5. /\ ToSet(mailbox'[c]) \subseteq ToSet(m)
        /\ \A d \in Conn : d # c => held'[d] = held[d] /\ mailbox'[d] = mailbox[d]
    BY <2>1, <2>3 DEF TypeOK
  <2>6. \A j : Waiting(j)' => Waiting(j)
    BY <2>3, <2>4, <2>5, Zenon DEF Waiting
  <2>7. \A j : Arrived(j)' <=> Arrived(j)
    BY <2>1 DEF Arrived
  <2>8. UNCHANGED <<todo, arrived, result, unanswered>>
    BY <2>1
  <2> HIDE DEF m
  <2> QED
    BY <2>6, <2>7, <2>8
<1>10. ASSUME NEW c \in Conn, Refill(c) PROVE Goal
  <2> DEFINE h == held[c]
  <2>1. PICK n \in 1 .. Len(h) :
           /\ Write(c, SubSeq(h, 1, n))
           /\ result' = [k \in Call |-> DropResult(c, n, k)]
    BY <1>10 DEF Refill
  <2>2. PICK s : s = SubSeq(h, 1, n)
    OBVIOUS
  <2>3. /\ UNCHANGED <<todo, mailbox>> /\ held' = [held EXCEPT ![c] = <<>>]
        /\ arrived' = [arrived EXCEPT ![c] = @ \o s]
        /\ unanswered' = [unanswered EXCEPT ![c] = @ \cup (ToSet(s) \ Push)]
    BY <1>10, <2>1, <2>2 DEF Refill, AfterRefill, Write
  <2>4. /\ s \in Seq(Call) /\ ToSet(s) \subseteq ToSet(h)
        /\ ToSet(SubSeq(h, n + 1, Len(h))) \subseteq ToSet(h)
        /\ ToSet(s) \cap ToSet(SubSeq(h, n + 1, Len(h))) = {}
    <3>1. h \in Seq(Call) /\ Distinct(h)
      BY QueueTypes, Apart
    <3> HIDE DEF h
    <3> QED
      BY <2>2, <3>1, MoveDrained
  <2>5. /\ \A j \in Call : j \in ToSet(s) => result'[j] = "ok"
        /\ \A j \in Call : j \notin ToSet(h) => result'[j] = result[j]
    <3>1. ASSUME NEW j \in Call PROVE result'[j] = DropResult(c, n, j)
      BY <2>1
    <3>2. ASSUME NEW j \in Call, j \in ToSet(s) PROVE DropResult(c, n, j) = "ok"
      <4>1. j \in ToSet(SubSeq(h, 1, n)) /\ j \notin ToSet(SubSeq(h, n + 1, Len(h)))
        BY <2>2, <2>4, <3>2, Zenon
      <4> QED
        BY <4>1 DEF DropResult
    <3>3. ASSUME NEW j \in Call, j \notin ToSet(h) PROVE DropResult(c, n, j) = result[j]
      <4>1. j \notin ToSet(SubSeq(h, 1, n)) /\ j \notin ToSet(SubSeq(h, n + 1, Len(h)))
        BY <2>2, <2>4, <3>3
      <4> QED
        BY <4>1 DEF DropResult
    <3> QED
      BY <3>1, <3>2, <3>3
  <2>6. /\ ToSet(arrived'[c]) = ToSet(arrived[c]) \cup ToSet(s)
        /\ ToSet(held'[c]) = {}
        /\ \A d \in Conn : d # c => arrived'[d] = arrived[d] /\ held'[d] = held[d]
    <3>1. arrived'[c] = arrived[c] \o s /\ held'[c] = <<>>
      BY <2>3 DEF TypeOK
    <3>2. ToSet(arrived[c] \o s) = ToSet(arrived[c]) \cup ToSet(s)
      BY <2>4, QueueTypes, ToSetConcat
    <3>3. \A d \in Conn : d # c => arrived'[d] = arrived[d] /\ held'[d] = held[d]
      BY <2>3 DEF TypeOK
    <3> QED
      BY <3>1, <3>2, <3>3, EmptySet
  <2>7. \A j \in ToSet(h) : Waiting(j)
    BY DEF Waiting
  <2>8. \A j : Arrived(j)' <=> Arrived(j) \/ j \in ToSet(s)
    BY <2>6, Zenon DEF Arrived
  <2>9. ASSUME NEW j, Waiting(j)' PROVE Waiting(j) /\ j \notin ToSet(h)
    <3>1. PICK d \in Conn : j \in ToSet(held'[d]) \cup ToSet(mailbox[d])
      BY <2>3, <2>9 DEF Waiting
    <3>2. j \in ToSet(held[d]) \cup ToSet(mailbox[d])
      BY <2>6, <3>1
    <3>3. j \notin ToSet(h)
      <4>1. CASE d = c
        <5>1. j \in ToSet(mailbox[c])
          BY <2>6, <3>1, <4>1
        <5> QED
          BY <5>1, Apart
      <4>2. CASE d # c
        BY <3>2, <4>2, Apart
      <4> QED
        BY <4>1, <4>2
    <3> QED
      BY <3>2, <3>3 DEF Waiting
  <2>10. Asks
    BY <2>3, <2>4, <2>6, <2>7 DEF TypeOK
  <2>11. Grows
    BY <2>6
  <2>12. \A j : Arrived(j) \/ j \in todo => j \notin ToSet(h)
    BY <2>7, Apart
  <2>13. todo' = todo
    BY <2>3
  <2> HIDE DEF h
  <2>14. \A j \in Call : Moves(j)
    BY <2>4, <2>5, <2>7, <2>8, <2>9, <2>12, <2>13
  <2> QED
    BY <2>10, <2>11, <2>14
<1> QED
  BY <1>2, <1>3, <1>4, <1>5, <1>6, <1>7, <1>8, <1>9, <1>10 DEF Next

-----------------------------------------------------------------------------
(* What the callers hear.                                                  *)

\* The step tells c's client r about k: the outcome of forwarding, of which
\* nothing was heard before, or the service's next reply.
Outcome(c, k, r) ==
    /\ r.type = "full" /\ r.code # "ok"
    /\ replies[c][k] = <<>>
    /\ ~Arrived(k)
    /\ r.code # "stalled connection" => ~Waiting(k)'
    /\ reader'[c] = None
    /\ UNCHANGED reply_stream

Answer(c, k, r) ==
    /\ reply_stream[c] # <<>> /\ r = Head(reply_stream[c]) /\ r.of = k
    /\ reply_stream' = [reply_stream EXCEPT ![c] = Tail(@)]
    /\ UNCHANGED reader

Tells(c, k, r) ==
    /\ replies' = [replies EXCEPT ![c][k] = Append(@, r)]
    /\ CallerOf[k] = c /\ k \notin Push /\ k \notin todo'
    /\ UNCHANGED <<arrived, unanswered>>
    /\ Outcome(c, k, r) \/ Answer(c, k, r)

LEMMA FirstEntry ==
    ASSUME NEW X, NEW s \in Seq(X), s # <<>>
    PROVE  /\ Head(s) \in X /\ 1 \in 1 .. Len(s) /\ s[1] = Head(s)
           /\ Tail(s) \in Seq(X) /\ Len(s) \in Nat /\ Len(Tail(s)) = Len(s) - 1
           /\ \A i \in 1 .. Len(Tail(s)) : Tail(s)[i] = s[i + 1] /\ i + 1 \in 1 .. Len(s)
  OBVIOUS

\* While nothing was written and nobody refused, nothing was heard.
LEMMA NothingHeard ==
    ASSUME TypeOK, ReaderInv, HeardInv, NEW c \in Conn, reader[c] # None, ~Arrived(reader[c])
    PROVE  /\ reader[c] \in Call \ todo /\ CallerOf[reader[c]] = c
           /\ replies[c][reader[c]] = <<>>
<1>0. PICK k : k = reader[c]
  OBVIOUS
<1> DEFINE s == replies[c][k]
<1>1. k \in Call \ todo /\ CallerOf[k] = c
  BY <1>0 DEF TypeOK, ReaderInv
<1>2. s \in Seq(ReplyRecord)
  BY <1>1 DEF TypeOK
<1>3. \A i \in 1 .. Len(s) : s[i].code = "ok"
  BY <1>0 DEF ReaderInv
<1>4. ASSUME NEW i \in 1 .. Len(s), s[i].code = "ok" PROVE Arrived(k)
  <2>1. k \in Call /\ i \in 1 .. Len(replies[c][k]) /\ replies[c][k][i].code = "ok"
    BY <1>1, <1>4
  <2> HIDE DEF s
  <2> QED
    BY <2>1 DEF HeardInv, TruthInv
<1>5. ~(1 \in 1 .. Len(s))
  BY <1>0, <1>3, <1>4
<1> HIDE DEF s
<1>6. s = <<>>
  BY <1>2, <1>5, FirstEntry
<1> QED
  BY <1>0, <1>1, <1>6 DEF s

LEMMA NextReplies ==
    ASSUME TypeOK, QueueInv, ResultInv, ReaderInv, HeardInv, StreamInv, [Next]_vars
    PROVE  \/ UNCHANGED replies
           \/ \E c \in Conn, k \in Call, r \in ReplyRecord : Tells(c, k, r)
<1> DEFINE Goal == \/ UNCHANGED replies
                   \/ \E c \in Conn, k \in Call, r \in ReplyRecord : Tells(c, k, r)
<1> USE DEF forwarding, answering
<1>1. ASSUME NEW c \in Conn, NEW k \in Call
      PROVE  replies \in [Conn -> [Call -> Seq(ReplyRecord)]] /\ replies[c][k] \in Seq(ReplyRecord)
  BY DEF TypeOK
<1>2. ASSUME NEW k \in Call, CallNotFound(k) PROVE Goal
  <2> DEFINE c == CallerOf[k]
             r == Reply(k, "full", "bad_request")
  <2>0. c \in Conn
    BY CallsAssumption
  <2>1. /\ k \in todo /\ reader[c] = None /\ todo' = todo \ {k}
        /\ UNCHANGED <<arrived, unanswered, reply_stream, reader, held, mailbox>>
    BY <1>2 DEF CallNotFound, Reading
  <2>2. CASE k \in Push
    <3>1. replies' = [replies EXCEPT ![c][k] = @]
      BY <1>2, <2>2 DEF CallNotFound
    <3>2. replies' = replies
      BY <1>1, <2>0, <3>1
    <3> QED
      BY <3>2
  <2>3. CASE k \notin Push
    <3>1. replies' = [replies EXCEPT ![c][k] = Append(@, r)]
      BY <1>2, <2>3 DEF CallNotFound
    <3>2. r \in ReplyRecord /\ r.type = "full" /\ r.code = "bad_request"
      BY CallsAssumption DEF Reply, ReplyRecord
    <3>3. ~Arrived(k) /\ ~Waiting(k)'
      <4>1. Waiting(k)' <=> Waiting(k)
        BY <2>1 DEF Waiting
      <4> QED
        BY <2>1, <4>1, Apart
    <3>4. replies[c][k] = <<>>
      BY <2>0, <2>1 DEF HeardInv, TodoInv
    <3> HIDE DEF c, r
    <3>5. Outcome(c, k, r)
      BY <2>1, <3>2, <3>3, <3>4 DEF Outcome
    <3>6. Tells(c, k, r)
      BY <2>1, <2>3, <3>1, <3>5 DEF Tells, c
    <3> QED
      BY <2>0, <3>2, <3>6
  <2> QED
    BY <2>2, <2>3
<1>3. ASSUME NEW c \in Conn, NEW o \in {"ok", "canceled", "closed", "timeout"}, reader[c] # None,
             o # "ok" => ~Arrived(reader[c]),
             o \notin {"ok", "timeout"} => ~Waiting(reader[c]) /\ UNCHANGED <<held, mailbox>>,
             replies' = [replies EXCEPT ![c][reader[c]] = @ \o ForwardReply(reader[c], o)],
             reader' = [reader EXCEPT ![c] = None],
             UNCHANGED <<todo, arrived, unanswered, reply_stream>>
      PROVE  Goal
  <2>1. PICK k : k = reader[c]
    OBVIOUS
  <2>2. k \in Call
    BY <1>3, <2>1 DEF TypeOK
  <2>3. PICK s : s = replies[c][k]
    OBVIOUS
  <2>4. s \in Seq(ReplyRecord)
    BY <1>1, <2>2, <2>3
  <2>5. replies' = [replies EXCEPT ![c][k] = @ \o ForwardReply(k, o)]
    BY <1>3, <2>1
  <2>6. CASE o = "ok" \/ k \in Push
    <3>0. s \o <<>> = s
      BY <2>4, ConcatEmptySeq
    <3>1. ForwardReply(k, o) = <<>> /\ s \o <<>> = s
      BY <2>6, <3>0 DEF ForwardReply
    <3>2. replies' = [replies EXCEPT ![c][k] = s]
      BY <1>1, <2>2, <2>3, <2>5, <3>1
    <3>3. replies' = replies
      BY <1>1, <2>2, <2>3, <3>2
    <3> QED
      BY <3>3
  <2>7. CASE ~(o = "ok" \/ k \in Push)
    <3>1. PICK code \in {"request canceled", "lost connection", "stalled connection"} :
             /\ ForwardReply(k, o) = <<Reply(k, "full", code)>>
             /\ code = "stalled connection" <=> o = "timeout"
      BY <2>2, <2>7, ForwardReplyType
    <3>2. PICK r : r = Reply(k, "full", code)
      OBVIOUS
    <3>3. r \in ReplyRecord /\ r.type = "full" /\ r.code = code
      BY <2>2, <3>1, <3>2, CallsAssumption DEF Reply, ReplyRecord
    <3>4. s \o <<r>> = Append(s, r)
      BY <2>4, <3>3, AppendIsConcat
    <3>5. replies' = [replies EXCEPT ![c][k] = Append(@, r)]
      <4>1. replies' = [replies EXCEPT ![c][k] = @ \o <<r>>]
        BY <2>5, <3>1, <3>2
      <4> QED
        BY <1>1, <2>2, <2>3, <3>4, <4>1
    <3>6. k \notin todo /\ CallerOf[k] = c /\ replies[c][k] = <<>>
      BY <1>3, <2>1, <2>7, NothingHeard
    <3>7. Outcome(c, k, r)
      <4>1. reader'[c] = None
        BY <1>3 DEF TypeOK
      <4>2. ASSUME o # "timeout" PROVE ~Waiting(k)'
        <5>1. ~Waiting(k) /\ UNCHANGED <<held, mailbox>>
          BY <1>3, <2>1, <2>7, <4>2
        <5> QED
          BY <5>1 DEF Waiting
      <4> QED
        BY <1>3, <2>1, <2>7, <3>1, <3>3, <3>6, <4>1, <4>2 DEF Outcome
    <3>8. Tells(c, k, r)
      BY <1>3, <2>7, <3>5, <3>6, <3>7 DEF Tells
    <3> QED
      BY <2>2, <3>3, <3>8
  <2> QED
    BY <2>6, <2>7
<1>4. ASSUME NEW c \in Conn, ForwardDone(c) PROVE Goal
  <2>1. PICK o : o = result[reader[c]]
    OBVIOUS
  <2>2. reader[c] # None /\ reader[c] \in Call /\ o # "none"
    BY <1>4, <2>1 DEF ForwardDone, TypeOK
  <2>3. o \in {"ok", "canceled", "closed"}
    BY <2>1, <2>2 DEF TypeOK
  <2>4. /\ o # "ok" => ~Arrived(reader[c])
        /\ ~Waiting(reader[c])
    BY <2>1, <2>2 DEF ResultInv
  <2>5. /\ replies' = [replies EXCEPT ![c][reader[c]] = @ \o ForwardReply(reader[c], o)]
        /\ reader' = [reader EXCEPT ![c] = None]
        /\ UNCHANGED <<todo, arrived, unanswered, reply_stream, held, mailbox>>
    BY <1>4, <2>1 DEF ForwardDone
  <2> QED
    BY <1>3, <2>2, <2>3, <2>4, <2>5
<1>5. ASSUME NEW c \in Conn, ForwardTimeout(c) PROVE Goal
  <2>1. reader[c] # None /\ reader[c] \in Call /\ result[reader[c]] = "none"
    BY <1>5 DEF ForwardTimeout, TypeOK
  <2>2. ~Arrived(reader[c])
    BY <2>1 DEF ResultInv
  <2>3. /\ replies' = [replies EXCEPT ![c][reader[c]] = @ \o ForwardReply(reader[c], "timeout")]
        /\ reader' = [reader EXCEPT ![c] = None]
        /\ UNCHANGED <<todo, arrived, unanswered, reply_stream>>
    BY <1>5 DEF ForwardTimeout
  <2> QED
    BY <1>3, <2>1, <2>2, <2>3
<1>6. ASSUME NEW c \in Conn, DeliverReply(c) PROVE Goal
  <2>1. PICK r : r = Head(reply_stream[c])
    OBVIOUS
  <2>2. /\ reply_stream[c] # <<>>
        /\ replies' = [replies EXCEPT ![c][r.of] = Append(@, r)]
        /\ reply_stream' = [reply_stream EXCEPT ![c] = Tail(@)]
        /\ UNCHANGED <<todo, reader, arrived, unanswered>>
    BY <1>6, <2>1 DEF DeliverReply
  <2>3. /\ r \in ReplyRecord /\ 1 \in 1 .. Len(reply_stream[c]) /\ reply_stream[c][1] = r
    <3>1. reply_stream[c] \in Seq(ReplyRecord)
      BY DEF TypeOK
    <3> QED
      BY <2>1, <2>2, <3>1, FirstEntry
  <2>4. PICK k : k = r.of
    OBVIOUS
  <2>5. k \in Call
    BY <2>3, <2>4 DEF ReplyRecord
  <2>6. CallerOf[k] = c /\ k \notin Push /\ Arrived(k)
    BY <2>3, <2>4 DEF StreamInv, StreamEntry
  <2>7. k \notin todo
    BY <2>6, Apart
  <2>8. Tells(c, k, r)
    BY <2>1, <2>2, <2>4, <2>6, <2>7 DEF Tells, Answer
  <2> QED
    BY <2>3, <2>5, <2>8
<1>7. ASSUME NEW c \in Conn,
             \/ RegistryStep(c) \/ Leave(c) \/ ForwardNow(c) \/ ForwardHeld(c) \/ Refill(c)
             \/ LoseReply(c) \/ PurgeReplyMap(c)
             \/ \E k \in Call : FullReply(c, k) \/ PartialReply(c, k)
      PROVE  Goal
  BY <1>7 DEF RegistryStep, Leave, ForwardNow, ForwardHeld, Takes, Refill, LoseReply, PurgeReplyMap,
     FullReply, PartialReply
<1>8. ASSUME NEW k \in Call, CallForward(k) PROVE Goal
  BY <1>8 DEF CallForward
<1>9. ASSUME UNCHANGED vars PROVE Goal
  BY <1>9 DEF vars
<1> QED
  BY <1>2, <1>4, <1>5, <1>6, <1>7, <1>8, <1>9 DEF Next

LEMMA AppendEntries ==
    ASSUME NEW X, NEW s \in Seq(X), NEW r \in X
    PROVE  /\ Append(s, r) \in Seq(X) /\ Append(s, r) # <<>>
           /\ Len(s) \in Nat /\ Len(Append(s, r)) = Len(s) + 1
           /\ \A i \in 1 .. Len(s) : Append(s, r)[i] = s[i]
           /\ Append(s, r)[Len(s) + 1] = r
  OBVIOUS

LEMMA TellsEntries ==
    ASSUME TypeOK, NEW c \in Conn, NEW k \in Call, NEW r \in ReplyRecord, Tells(c, k, r)
    PROVE  /\ \A d \in Conn, j \in Call :
                 d # c \/ j # k => replies'[d][j] = replies[d][j]
           /\ replies'[c][k] # <<>>
           /\ \A i \in 1 .. Len(replies'[c][k]) :
                 \/ i \in 1 .. Len(replies[c][k]) /\ replies'[c][k][i] = replies[c][k][i]
                 \/ replies'[c][k][i] = r
<1>1. /\ \A d \in Conn, j \in Call : d # c \/ j # k => replies'[d][j] = replies[d][j]
      /\ replies'[c][k] = Append(replies[c][k], r)
  BY DEF Tells, TypeOK
<1> DEFINE s == replies[c][k]
           t == Append(s, r)
<1>2. s \in Seq(ReplyRecord)
  BY DEF TypeOK
<1> HIDE DEF s
<1>3. /\ t # <<>> /\ Len(s) \in Nat /\ Len(t) = Len(s) + 1
      /\ \A i \in 1 .. Len(s) : t[i] = s[i]
      /\ t[Len(s) + 1] = r
  BY <1>2, AppendEntries
<1> HIDE DEF t
<1>4. \A i \in 1 .. Len(t) : (i \in 1 .. Len(s) /\ t[i] = s[i]) \/ t[i] = r
  BY <1>3
<1> QED
  BY <1>1, <1>3, <1>4 DEF s, t

LEMMA NextResultInv ==
    ASSUME TypeOK, QueueInv, ResultInv, [Next]_vars
    PROVE  ResultInv'
<1>1. ASSUME NEW k \in Call
      PROVE  /\ Arrived(k)' => result'[k] = "ok"
             /\ k \in todo' \/ Waiting(k)' => result'[k] = "none"
  <2>1. /\ Arrived(k) => result[k] = "ok"
        /\ k \in todo \/ Waiting(k) => result[k] = "none"
    BY DEF ResultInv
  <2> QED
    BY <2>1, NextFlow
<1> QED
  BY <1>1 DEF ResultInv

LEMMA NextHeardInv ==
    ASSUME TypeOK, QueueInv, ResultInv, ReaderInv, HeardInv, StreamInv, [Next]_vars
    PROVE  HeardInv'
<1>1. \A k \in todo' : k \in todo /\ k \in Call
  <2>1. TypeOK'
    BY NextTypes
  <2> QED
    BY <2>1, NextFlow DEF TypeOK
<1>2. \A k \in Call : /\ Arrived(k) => Arrived(k)'
                      /\ Arrived(k)' => Arrived(k) \/ Waiting(k)
                      /\ Waiting(k)' => Waiting(k) \/ k \in todo
  BY NextFlow
<1>3. ASSUME NEW c \in Conn, NEW k \in Call, NEW i \in 1 .. Len(replies[c][k])
      PROVE  /\ replies[c][k][i].code = "ok" => Arrived(k)'
             /\ replies[c][k][i].code \notin {"ok", "stalled connection"} =>
                   ~Arrived(k)' /\ ~Waiting(k)'
  <2>1. k \notin todo
    <3>1. replies[c][k] # <<>>
      OBVIOUS
    <3> QED
      BY <3>1 DEF HeardInv, TodoInv
  <2>2. /\ replies[c][k][i].code = "ok" => Arrived(k)
        /\ replies[c][k][i].code \notin {"ok", "stalled connection"} => ~Arrived(k) /\ ~Waiting(k)
    BY DEF HeardInv, TruthInv
  <2> QED
    BY <1>2, <2>1, <2>2
<1>4. CASE UNCHANGED replies
  <2>1. TodoInv'
    BY <1>1, <1>4 DEF HeardInv, TodoInv
  <2>2. ReplyReachesCaller'
    BY <1>4 DEF HeardInv, ReplyReachesCaller
  <2>3. TruthInv'
    BY <1>3, <1>4 DEF TruthInv
  <2> QED
    BY <2>1, <2>2, <2>3 DEF HeardInv
<1>5. ASSUME NEW c \in Conn, NEW k \in Call, NEW r \in ReplyRecord, Tells(c, k, r)
      PROVE  HeardInv'
  <2>1. /\ \A d \in Conn, j \in Call :
                 d # c \/ j # k => replies'[d][j] = replies[d][j]
        /\ \A i \in 1 .. Len(replies'[c][k]) :
                 \/ i \in 1 .. Len(replies[c][k]) /\ replies'[c][k][i] = replies[c][k][i]
                 \/ replies'[c][k][i] = r
    BY <1>5, TellsEntries
  <2>2. CallerOf[k] = c /\ k \notin Push /\ k \notin todo' /\ UNCHANGED arrived
    BY <1>5 DEF Tells
  <2>3. TodoInv'
    BY <1>1, <2>1, <2>2 DEF HeardInv, TodoInv
  <2>4. ReplyReachesCaller'
    BY <2>1, <2>2 DEF HeardInv, ReplyReachesCaller
  <2>5. /\ r.code = "ok" => Arrived(k)'
        /\ r.code \notin {"ok", "stalled connection"} => ~Arrived(k)' /\ ~Waiting(k)'
    <3>1. CASE Outcome(c, k, r)
      <4>1. r.code # "ok" /\ ~Arrived(k) /\ (r.code # "stalled connection" => ~Waiting(k)')
        BY <3>1 DEF Outcome
      <4>2. ~Arrived(k)'
        BY <2>2, <4>1 DEF Arrived
      <4> QED
        BY <4>1, <4>2
    <3>2. CASE Answer(c, k, r)
      <4>1. reply_stream[c] # <<>> /\ r = Head(reply_stream[c]) /\ r.of = k
        BY <3>2 DEF Answer
      <4>2. 1 \in 1 .. Len(reply_stream[c]) /\ reply_stream[c][1] = r
        <5>1. reply_stream[c] \in Seq(ReplyRecord)
          BY DEF TypeOK
        <5> QED
          BY <4>1, <5>1, FirstEntry
      <4>3. r.code = "ok" /\ Arrived(k)
        BY <4>1, <4>2 DEF StreamInv, StreamEntry
      <4> QED
        BY <1>2, <4>3
    <3> QED
      BY <1>5, <3>1, <3>2 DEF Tells
  <2>6. ASSUME NEW d \in Conn, NEW j \in Call, NEW i \in 1 .. Len(replies'[d][j])
        PROVE  /\ replies'[d][j][i].code = "ok" => Arrived(j)'
               /\ replies'[d][j][i].code \notin {"ok", "stalled connection"} =>
                     ~Arrived(j)' /\ ~Waiting(j)'
    <3>1. CASE d # c \/ j # k
      <4>1. replies'[d][j] = replies[d][j]
        BY <2>1, <3>1
      <4> QED
        BY <1>3, <4>1
    <3>2. CASE d = c /\ j = k
      <4>1. CASE i \in 1 .. Len(replies[d][j]) /\ replies'[d][j][i] = replies[d][j][i]
        BY <1>3, <4>1
      <4>2. CASE replies'[d][j][i] = r
        BY <2>5, <3>2, <4>2
      <4> QED
        BY <2>1, <3>2, <4>1, <4>2
    <3> QED
      BY <3>1, <3>2
  <2>7. TruthInv'
    BY <2>6 DEF TruthInv
  <2> QED
    BY <2>3, <2>4, <2>7 DEF HeardInv
<1> QED
  BY <1>4, <1>5, NextReplies

\* The input of c goes on waiting, is free, or waits for a call just made.
LEMMA NextReader ==
    ASSUME TypeOK, [Next]_vars, NEW c \in Conn
    PROVE  \/ reader'[c] = reader[c]
           \/ reader'[c] = None
           \/ reader'[c] \in todo /\ CallerOf[reader'[c]] = c /\ UNCHANGED replies
<1> DEFINE Goal == \/ reader'[c] = reader[c]
                   \/ reader'[c] = None
                   \/ reader'[c] \in todo /\ CallerOf[reader'[c]] = c /\ UNCHANGED replies
<1> USE DEF forwarding, answering
<1>1. ASSUME NEW d \in Conn, Leave(d) \/ ForwardDone(d) \/ ForwardTimeout(d) PROVE Goal
  <2>1. reader' = [reader EXCEPT ![d] = None]
    BY <1>1 DEF Leave, ForwardDone, ForwardTimeout
  <2> QED
    BY <2>1 DEF TypeOK
<1>2. ASSUME NEW k \in Call, CallForward(k) PROVE Goal
  <2>1. /\ k \in todo /\ reader' = [reader EXCEPT ![CallerOf[k]] = k] /\ UNCHANGED replies
    BY <1>2 DEF CallForward
  <2>2. CASE c = CallerOf[k]
    BY <2>1, <2>2 DEF TypeOK
  <2>3. CASE c # CallerOf[k]
    BY <2>1, <2>3 DEF TypeOK
  <2> QED
    BY <2>2, <2>3
<1>3. ASSUME NEW d \in Conn,
             \/ RegistryStep(d) \/ ForwardNow(d) \/ ForwardHeld(d) \/ Refill(d)
             \/ DeliverReply(d) \/ LoseReply(d) \/ PurgeReplyMap(d)
             \/ \E k \in Call : FullReply(d, k) \/ PartialReply(d, k)
      PROVE  UNCHANGED reader
  BY <1>3 DEF RegistryStep, ForwardNow, ForwardHeld, Takes, Refill, DeliverReply, LoseReply,
     PurgeReplyMap, FullReply, PartialReply
<1>4. ASSUME NEW k \in Call, CallNotFound(k) PROVE UNCHANGED reader
  BY <1>4 DEF CallNotFound
<1>5. ASSUME UNCHANGED vars PROVE UNCHANGED reader
  BY <1>5 DEF vars
<1> QED
  BY <1>1, <1>2, <1>3, <1>4, <1>5 DEF Next

LEMMA NextReaderInv ==
    ASSUME TypeOK, QueueInv, ResultInv, ReaderInv, HeardInv, StreamInv, [Next]_vars
    PROVE  ReaderInv'
<1>1. ASSUME NEW c \in Conn, reader'[c] # None
      PROVE  /\ CallerOf[reader'[c]] = c
             /\ \A i \in 1 .. Len(replies'[c][reader'[c]]) : replies'[c][reader'[c]][i].code = "ok"
  <2>1. PICK k : k = reader'[c]
    OBVIOUS
  <2>2. CASE reader'[c] = reader[c]
    <3>1. /\ k \in Call \ todo /\ CallerOf[k] = c
          /\ \A i \in 1 .. Len(replies[c][k]) : replies[c][k][i].code = "ok"
      BY <1>1, <2>1, <2>2 DEF ReaderInv, TypeOK
    <3>2. CASE UNCHANGED replies
      BY <2>1, <3>1, <3>2
    <3>3. ASSUME NEW d \in Conn, NEW j \in Call, NEW r \in ReplyRecord, Tells(d, j, r)
          PROVE  \A i \in 1 .. Len(replies'[c][k]) : replies'[c][k][i].code = "ok"
      <4>1. /\ \A e \in Conn, l \in Call : e # d \/ l # j => replies'[e][l] = replies[e][l]
            /\ \A i \in 1 .. Len(replies'[d][j]) :
                 \/ i \in 1 .. Len(replies[d][j]) /\ replies'[d][j][i] = replies[d][j][i]
                 \/ replies'[d][j][i] = r
        BY <3>3, TellsEntries
      <4>2. CASE d # c \/ j # k
        <5>1. replies'[c][k] = replies[c][k]
          BY <3>1, <4>1, <4>2
        <5> QED
          BY <3>1, <5>1
      <4>3. CASE d = c /\ j = k
        <5>1. Answer(c, k, r)
          BY <1>1, <3>3, <4>3 DEF Tells, Outcome
        <5>2. r.code = "ok"
          <6>1. reply_stream[c] # <<>> /\ r = Head(reply_stream[c])
            BY <5>1 DEF Answer
          <6>2. 1 \in 1 .. Len(reply_stream[c]) /\ reply_stream[c][1] = r
            <7>1. reply_stream[c] \in Seq(ReplyRecord)
              BY DEF TypeOK
            <7> QED
              BY <6>1, <7>1, FirstEntry
          <6> QED
            BY <6>2 DEF StreamInv, StreamEntry
        <5> QED
          BY <3>1, <4>1, <4>3, <5>2
      <4> QED
        BY <4>2, <4>3
    <3> QED
      BY <2>1, <3>1, <3>2, <3>3, NextReplies
  <2>3. CASE reader'[c] \in todo /\ CallerOf[reader'[c]] = c /\ UNCHANGED replies
    <3>1. replies'[c][k] = <<>>
      BY <2>1, <2>3 DEF HeardInv, TodoInv
    <3> QED
      BY <2>1, <2>3, <3>1
  <2> QED
    BY <1>1, <2>2, <2>3, NextReader
<1> QED
  BY <1>1 DEF ReaderInv

\* An entry of reply_map stays, goes away or names the caller of its id.
LEMMA NextMapInv ==
    ASSUME TypeOK, MapInv, [Next]_vars
    PROVE  MapInv'
<1> USE DEF forwarding, answering
<1>1. ASSUME NEW c \in Conn, NEW j \in Call,
             reply_map' = [reply_map EXCEPT ![c][IdOf[j]] = RememberCaller(c, j)]
      PROVE  MapInv'
  <2>1. ASSUME NEW d \in Conn, NEW k \in Call \ Push
        PROVE  reply_map'[d][IdOf[k]] \in {None, CallerOf[k]}
    <3>0. IdOf[k] \in ReqId /\ IdOf[j] \in ReqId
      BY CallsAssumption
    <3>1. reply_map[d][IdOf[k]] \in {None, CallerOf[k]}
      BY DEF MapInv
    <3>2. CASE d = c /\ IdOf[k] = IdOf[j]
      <4>1. reply_map'[d][IdOf[k]] = RememberCaller(c, j)
        BY <1>1, <3>0, <3>2 DEF TypeOK
      <4>2. CASE j \in Push
        BY <3>1, <3>2, <4>1, <4>2 DEF RememberCaller
      <4>3. CASE j \notin Push
        <5>1. CallerOf[j] = CallerOf[k]
          BY <3>2, <4>3, IdAssumption
        <5> QED
          BY <4>1, <4>3, <5>1 DEF RememberCaller
      <4> QED
        BY <4>2, <4>3
    <3>3. CASE ~(d = c /\ IdOf[k] = IdOf[j])
      <4>1. reply_map'[d][IdOf[k]] = reply_map[d][IdOf[k]]
        BY <1>1, <3>0, <3>3 DEF TypeOK
      <4> QED
        BY <3>1, <4>1
    <3> QED
      BY <3>2, <3>3
  <2> QED
    BY <2>1 DEF MapInv
<1>2. ASSUME \A c \in Conn, id \in ReqId : reply_map'[c][id] \in {reply_map[c][id], None}
      PROVE  MapInv'
  <2>1. \A k \in Call : IdOf[k] \in ReqId
    BY CallsAssumption
  <2> QED
    BY <1>2, <2>1 DEF MapInv
<1>3. ASSUME NEW c \in Conn, ForwardNow(c) \/ ForwardHeld(c) PROVE MapInv'
  <2>1. /\ mailbox[c] # <<>>
        /\ reply_map' = [reply_map EXCEPT ![c][IdOf[Head(mailbox[c])]] =
                            RememberCaller(c, Head(mailbox[c]))]
    BY <1>3 DEF ForwardNow, ForwardHeld, Takes
  <2>2. PICK j : j = Head(mailbox[c])
    OBVIOUS
  <2>3. j \in Call
    BY <2>1, <2>2, QueueTypes
  <2> QED
    BY <1>1, <2>1, <2>2, <2>3
<1>4. ASSUME NEW c \in Conn, Leave(c) PROVE MapInv'
  <2>1. reply_map' = [reply_map EXCEPT ![c] = [id \in ReqId |-> None]]
    BY <1>4 DEF Leave
  <2>2. \A d \in Conn, id \in ReqId : reply_map'[d][id] \in {reply_map[d][id], None}
    BY <2>1 DEF TypeOK
  <2> QED
    BY <1>2, <2>2
<1>5. ASSUME NEW c \in Conn, PurgeReplyMap(c) PROVE MapInv'
  <2>1. reply_map' = [reply_map EXCEPT ![c] =
                        [id \in ReqId |-> IF @[id] \in left THEN None ELSE @[id]]]
    BY <1>5 DEF PurgeReplyMap
  <2>2. \A d \in Conn, id \in ReqId : reply_map'[d][id] \in {reply_map[d][id], None}
    BY <2>1 DEF TypeOK
  <2> QED
    BY <1>2, <2>2
<1>6. ASSUME NEW c \in Conn, NEW k \in Call, FullReply(c, k) PROVE MapInv'
  <2>0. IdOf[k] \in ReqId
    BY CallsAssumption
  <2>1. reply_map' = [reply_map EXCEPT ![c][IdOf[k]] = None]
    BY <1>6 DEF FullReply, Forgotten
  <2>2. \A d \in Conn, id \in ReqId : reply_map'[d][id] \in {reply_map[d][id], None}
    BY <2>0, <2>1 DEF TypeOK
  <2> QED
    BY <1>2, <2>2
<1>7. ASSUME UNCHANGED reply_map PROVE MapInv'
  BY <1>2, <1>7
<1>8. ASSUME NEW c \in Conn,
             \/ RegistryStep(c) \/ ForwardDone(c) \/ ForwardTimeout(c) \/ Refill(c)
             \/ DeliverReply(c) \/ LoseReply(c) \/ \E k \in Call : PartialReply(c, k)
      PROVE  UNCHANGED reply_map
  BY <1>8 DEF RegistryStep, ForwardDone, ForwardTimeout, Refill, DeliverReply, LoseReply,
     PartialReply
<1>9. ASSUME NEW k \in Call, CallNotFound(k) \/ CallForward(k) PROVE UNCHANGED reply_map
  BY <1>9 DEF CallNotFound, CallForward
<1>10. ASSUME UNCHANGED vars PROVE UNCHANGED reply_map
  BY <1>10 DEF vars
<1> QED
  BY <1>3, <1>4, <1>5, <1>6, <1>7, <1>8, <1>9, <1>10 DEF Next

\* A caller gets a full reply from its reply stream only.
LEMMA NextFull ==
    ASSUME TypeOK, QueueInv, ResultInv, ReaderInv, HeardInv, StreamInv, [Next]_vars,
           NEW c \in Conn, NEW k \in Call, HasFull(c, k)'
    PROVE  \/ HasFull(c, k)
           \/ /\ reply_stream[c] # <<>> /\ Head(reply_stream[c]).of = k
              /\ Final(Head(reply_stream[c]))
              /\ reply_stream'[c] = Tail(reply_stream[c])
              /\ UNCHANGED unanswered
<1>1. CASE UNCHANGED replies
  BY <1>1 DEF HasFull
<1>2. ASSUME NEW d \in Conn, NEW j \in Call, NEW r \in ReplyRecord, Tells(d, j, r)
      PROVE  \/ HasFull(c, k)
             \/ /\ reply_stream[c] # <<>> /\ Head(reply_stream[c]).of = k
                /\ Final(Head(reply_stream[c]))
                /\ reply_stream'[c] = Tail(reply_stream[c])
                /\ UNCHANGED unanswered
  <2>1. /\ \A e \in Conn, l \in Call : e # d \/ l # j => replies'[e][l] = replies[e][l]
        /\ \A i \in 1 .. Len(replies'[d][j]) :
             \/ i \in 1 .. Len(replies[d][j]) /\ replies'[d][j][i] = replies[d][j][i]
             \/ replies'[d][j][i] = r
    BY <1>2, TellsEntries
  <2>2. PICK i \in 1 .. Len(replies'[c][k]) : Final(replies'[c][k][i])
    BY DEF HasFull, Final
  <2>3. CASE i \in 1 .. Len(replies[c][k]) /\ replies'[c][k][i] = replies[c][k][i]
    BY <2>2, <2>3 DEF HasFull
  <2>4. CASE d = c /\ j = k /\ replies'[d][j][i] = r
    <3>1. Final(r)
      BY <2>2, <2>4
    <3>2. Answer(c, k, r) /\ UNCHANGED unanswered
      BY <1>2, <2>4, <3>1 DEF Tells, Outcome, Final
    <3>3. reply_stream'[c] = Tail(reply_stream[c])
      BY <3>2 DEF Answer, TypeOK
    <3> QED
      BY <3>1, <3>2, <3>3 DEF Answer
  <2>5. CASE d # c \/ j # k
    <3>1. replies'[c][k] = replies[c][k]
      BY <2>1, <2>5
    <3> QED
      BY <2>2, <3>1 DEF HasFull
  <2> QED
    BY <2>1, <2>2, <2>3, <2>4, <2>5
<1> QED
  BY <1>1, <1>2, NextReplies

\* The first entry of a reply stream.
LEMMA StreamHead ==
    ASSUME TypeOK, StreamInv, NEW c \in Conn, reply_stream[c] # <<>>
    PROVE  /\ StreamEntry(c, Head(reply_stream[c]))
           /\ Head(reply_stream[c]).of \in Call
           /\ Final(Head(reply_stream[c])) =>
                 \A j \in 1 .. Len(reply_stream[c]) :
                     j > 1 => reply_stream[c][j].of # Head(reply_stream[c]).of
<1>1. reply_stream[c] \in Seq(ReplyRecord)
  BY DEF TypeOK
<1>2. /\ Head(reply_stream[c]) \in ReplyRecord /\ 1 \in 1 .. Len(reply_stream[c])
      /\ reply_stream[c][1] = Head(reply_stream[c])
  BY <1>1, FirstEntry
<1>3. Head(reply_stream[c]).of \in Call
  BY <1>2 DEF ReplyRecord
<1> QED
  BY <1>2, <1>3 DEF StreamInv

LEMMA NextUnansweredInv ==
    ASSUME TypeOK, QueueInv, ResultInv, ReaderInv, HeardInv, StreamInv, UnansweredInv,
           [Next]_vars
    PROVE  UnansweredInv'
<1>0. TypeOK'
  BY NextTypes
<1>1. ASSUME NEW c \in Conn, NEW k \in unanswered'[c], NEW d \in Conn
      PROVE  k \in ToSet(arrived'[c]) /\ ~HasFull(d, k)'
  <2>0. k \in Call
    BY <1>0 DEF TypeOK
  <2>1. CASE k \in unanswered[c]
    <3>1. k \in ToSet(arrived[c]) /\ ~HasFull(d, k)
      BY <2>1 DEF UnansweredInv
    <3>2. k \in ToSet(arrived'[c])
      BY <3>1, NextFlow
    <3>3. ASSUME HasFull(d, k)' PROVE FALSE
      <4>1. /\ reply_stream[d] # <<>> /\ Head(reply_stream[d]).of = k
            /\ Final(Head(reply_stream[d]))
        BY <2>0, <3>1, <3>3, NextFull
      <4> QED
        BY <2>1, <4>1, StreamHead DEF StreamEntry
    <3> QED
      BY <3>2, <3>3
  <2>2. CASE Waiting(k) /\ k \in ToSet(arrived'[c])
    <3>1. ~Arrived(k)
      BY <2>2, Apart
    <3>2. ~HasFull(d, k)
      <4>1. \A i \in 1 .. Len(replies[d][k]) : replies[d][k][i].code # "ok"
        BY <2>0, <3>1 DEF HeardInv, TruthInv
      <4> QED
        BY <4>1 DEF HasFull, Final
    <3>3. ASSUME HasFull(d, k)' PROVE FALSE
      <4>1. reply_stream[d] # <<>> /\ Head(reply_stream[d]).of = k
        BY <2>0, <3>2, <3>3, NextFull
      <4> QED
        BY <3>1, <4>1, StreamHead DEF StreamEntry
    <3> QED
      BY <2>2, <3>3
  <2> QED
    BY <2>1, <2>2, NextFlow
<1> QED
  BY <1>1 DEF UnansweredInv

\* What a service says about a call it has not fully answered goes to the
\* caller.
LEMMA NewEntry ==
    ASSUME TypeOK, QueueInv, MapInv, UnansweredInv, StreamInv,
           NEW c \in Conn, NEW k \in unanswered[c], NEW d \in ReplyTo(c, IdOf[k]),
           NEW type \in {"partial", "full"}, UNCHANGED <<arrived, replies>>,
           unanswered' = [unanswered EXCEPT ![c] = @ \ {k}] \/ type = "partial"
    PROVE  /\ Reply(k, type, "ok") \in ReplyRecord
           /\ StreamEntry(d, Reply(k, type, "ok"))'
           /\ \A i \in 1 .. Len(reply_stream[d]) :
                 Final(reply_stream[d][i]) => reply_stream[d][i].of # Reply(k, type, "ok").of
<1>1. PICK r : r = Reply(k, type, "ok")
  OBVIOUS
<1>2. k \in Call \ Push
  BY DEF TypeOK
<1>3. r \in ReplyRecord /\ r.type = type /\ r.code = "ok" /\ r.of = k
  BY <1>1, <1>2, CallsAssumption DEF Reply, ReplyRecord
<1>4. d \in Conn /\ d = CallerOf[k]
  <2>1. d = reply_map[c][IdOf[k]] /\ d \in Conn
    BY DEF ReplyTo, TypeOK
  <2> QED
    BY <1>2, <2>1, CallsAssumption DEF MapInv
<1>5. k \in ToSet(arrived[c]) /\ Arrived(k) /\ ~HasFull(d, k)
  BY <1>4 DEF UnansweredInv, Arrived
<1>6. Arrived(k)' /\ ~HasFull(d, k)'
  BY <1>5 DEF Arrived, HasFull
<1>7. ASSUME Final(r), NEW e \in Conn PROVE k \notin unanswered'[e]
  <2>1. unanswered' = [unanswered EXCEPT ![c] = @ \ {k}]
    BY <1>3, <1>7 DEF Final
  <2>2. CASE e = c
    BY <2>1, <2>2 DEF TypeOK
  <2>3. CASE e # c
    <3>1. unanswered'[e] = unanswered[e]
      BY <2>1, <2>3 DEF TypeOK
    <3>2. k \notin unanswered[e]
      <4>1. ASSUME k \in ToSet(arrived[e]) PROVE FALSE
        BY <1>5, <2>3, <4>1, Apart
      <4> QED
        BY <4>1 DEF UnansweredInv
    <3> QED
      BY <3>1, <3>2
  <2> QED
    BY <2>2, <2>3
<1>8. StreamEntry(d, r)'
  BY <1>2, <1>3, <1>4, <1>6, <1>7 DEF StreamEntry
<1>9. \A i \in 1 .. Len(reply_stream[d]) : Final(reply_stream[d][i]) => reply_stream[d][i].of # k
  BY <1>4 DEF StreamInv, StreamEntry
<1> QED
  BY <1>1, <1>3, <1>8, <1>9

\* A reply stream stays, ends, loses its first entry or gets a new one.
LEMMA NextStreams ==
    ASSUME TypeOK, QueueInv, MapInv, UnansweredInv, StreamInv, [Next]_vars, NEW d \in Conn
    PROVE  \/ reply_stream'[d] = reply_stream[d]
           \/ reply_stream'[d] = <<>>
           \/ reply_stream[d] # <<>> /\ reply_stream'[d] = Tail(reply_stream[d])
           \/ \E r \in ReplyRecord :
                 /\ reply_stream'[d] = Append(reply_stream[d], r)
                 /\ StreamEntry(d, r)'
                 /\ \A i \in 1 .. Len(reply_stream[d]) :
                       Final(reply_stream[d][i]) => reply_stream[d][i].of # r.of
<1> DEFINE Grown(r) == /\ reply_stream'[d] = Append(reply_stream[d], r)
                       /\ StreamEntry(d, r)'
                       /\ \A i \in 1 .. Len(reply_stream[d]) :
                             Final(reply_stream[d][i]) => reply_stream[d][i].of # r.of
           Goal == \/ reply_stream'[d] = reply_stream[d]
                   \/ reply_stream'[d] = <<>>
                   \/ reply_stream[d] # <<>> /\ reply_stream'[d] = Tail(reply_stream[d])
                   \/ \E r \in ReplyRecord : Grown(r)
<1> USE DEF forwarding, answering
<1>1. ASSUME NEW c \in Conn, Leave(c) PROVE Goal
  <2>1. reply_stream' = [reply_stream EXCEPT ![c] = <<>>]
    BY <1>1 DEF Leave
  <2>2. reply_stream'[d] = reply_stream[d] \/ reply_stream'[d] = <<>>
    BY <2>1 DEF TypeOK
  <2> QED
    BY <2>2
<1>2. ASSUME NEW c \in Conn, DeliverReply(c) \/ LoseReply(c) PROVE Goal
  <2>1. reply_stream[c] # <<>> /\ reply_stream' = [reply_stream EXCEPT ![c] = Tail(@)]
    BY <1>2 DEF DeliverReply, LoseReply
  <2>2. CASE d = c
    <3>1. reply_stream'[d] = Tail(reply_stream[d])
      BY <2>1, <2>2 DEF TypeOK
    <3> QED
      BY <2>1, <2>2, <3>1
  <2>3. CASE d # c
    <3>1. reply_stream'[d] = reply_stream[d]
      BY <2>1, <2>3 DEF TypeOK
    <3> QED
      BY <3>1
  <2> QED
    BY <2>2, <2>3
<1>3. ASSUME NEW c \in Conn, NEW k \in unanswered[c], NEW type \in {"partial", "full"},
             UNCHANGED <<arrived, replies>>,
             unanswered' = [unanswered EXCEPT ![c] = @ \ {k}] \/ type = "partial",
             reply_stream' = [e \in Conn |->
                                 IF e \in ReplyTo(c, IdOf[k])
                                 THEN Append(reply_stream[e], Reply(k, type, "ok"))
                                 ELSE reply_stream[e]]
      PROVE  Goal
  <2>1. PICK r : r = Reply(k, type, "ok")
    OBVIOUS
  <2>2. CASE d \in ReplyTo(c, IdOf[k])
    <3>1. reply_stream'[d] = Append(reply_stream[d], r)
      BY <1>3, <2>1, <2>2
    <3>2. /\ r \in ReplyRecord /\ StreamEntry(d, r)'
          /\ \A i \in 1 .. Len(reply_stream[d]) :
                Final(reply_stream[d][i]) => reply_stream[d][i].of # r.of
      BY <1>3, <2>1, <2>2, NewEntry
    <3>3. Grown(r)
      BY <3>1, <3>2
    <3> HIDE DEF Grown
    <3> QED
      BY <3>2, <3>3
  <2>3. CASE d \notin ReplyTo(c, IdOf[k])
    <3>1. reply_stream'[d] = reply_stream[d]
      BY <1>3, <2>3
    <3> QED
      BY <3>1
  <2> QED
    BY <2>2, <2>3
<1>4. ASSUME NEW c \in Conn, NEW k \in Call, FullReply(c, k) PROVE Goal
  <2>1. /\ k \in unanswered[c] /\ UNCHANGED <<arrived, replies>>
        /\ unanswered' = [unanswered EXCEPT ![c] = @ \ {k}]
        /\ reply_stream' = [e \in Conn |->
                               IF e \in ReplyTo(c, IdOf[k])
                               THEN Append(reply_stream[e], Reply(k, "full", "ok"))
                               ELSE reply_stream[e]]
    BY <1>4 DEF FullReply
  <2> HIDE DEF Goal
  <2> QED
    BY <1>3, <2>1
<1>5. ASSUME NEW c \in Conn, NEW k \in Call, PartialReply(c, k) PROVE Goal
  <2>1. /\ k \in unanswered[c] /\ UNCHANGED <<arrived, replies>>
        /\ reply_stream' = [e \in Conn |->
                               IF e \in ReplyTo(c, IdOf[k])
                               THEN Append(reply_stream[e], Reply(k, "partial", "ok"))
                               ELSE reply_stream[e]]
    BY <1>5 DEF PartialReply
  <2> HIDE DEF Goal
  <2> QED
    BY <1>3, <2>1
<1>6. ASSUME NEW c \in Conn,
             \/ RegistryStep(c) \/ ForwardDone(c) \/ ForwardTimeout(c) \/ ForwardNow(c)
             \/ ForwardHeld(c) \/ Refill(c) \/ PurgeReplyMap(c)
      PROVE  UNCHANGED reply_stream
  BY <1>6 DEF RegistryStep, ForwardDone, ForwardTimeout, ForwardNow, ForwardHeld, Takes, Refill,
     PurgeReplyMap
<1>7. ASSUME NEW k \in Call, CallNotFound(k) \/ CallForward(k) PROVE UNCHANGED reply_stream
  BY <1>7 DEF CallNotFound, CallForward
<1>8. ASSUME UNCHANGED vars PROVE UNCHANGED reply_stream
  BY <1>8 DEF vars
<1>9. ASSUME UNCHANGED reply_stream PROVE Goal
  BY <1>9
<1> HIDE DEF Goal
<1>10. Goal
  BY <1>1, <1>2, <1>4, <1>5, <1>6, <1>7, <1>8, <1>9 DEF Next
<1> QED
  BY <1>10 DEF Goal

\* An entry that stays in its stream keeps its promises.
LEMMA EntryStays ==
    ASSUME TypeOK, QueueInv, ResultInv, ReaderInv, HeardInv, StreamInv, [Next]_vars,
           NEW c \in Conn, NEW i \in 1 .. Len(reply_stream[c]),
           i > 1 \/ reply_stream'[c] # Tail(reply_stream[c])
    PROVE  \E r : r = reply_stream[c][i] /\ StreamEntry(c, r)'
<1>1. PICK r : r = reply_stream[c][i]
  OBVIOUS
<1>2. r \in ReplyRecord
  <2>1. reply_stream[c] \in Seq(ReplyRecord)
    BY DEF TypeOK
  <2> QED
    BY <1>1, <2>1
<1>3. r.of \in Call
  BY <1>2 DEF ReplyRecord
<1>4. PICK k : k = r.of
  OBVIOUS
<1>5. StreamEntry(c, r)
  BY <1>1 DEF StreamInv
<1>6. Arrived(k)'
  BY <1>3, <1>4, <1>5, NextFlow DEF StreamEntry
<1>7. ~HasFull(c, k)'
  <2>1. ASSUME HasFull(c, k)' PROVE FALSE
    <3>1. ~HasFull(c, k)
      BY <1>4, <1>5 DEF StreamEntry
    <3>2. /\ reply_stream[c] # <<>> /\ Head(reply_stream[c]).of = k
          /\ Final(Head(reply_stream[c]))
          /\ reply_stream'[c] = Tail(reply_stream[c])
      BY <1>3, <1>4, <2>1, <3>1, NextFull
    <3> QED
      BY <1>1, <1>4, <3>2, StreamHead
  <2> QED
    BY <2>1
<1>8. ASSUME Final(r), NEW d \in Conn PROVE k \notin unanswered'[d]
  <2>1. k \notin unanswered[d] /\ ~Waiting(k)
    BY <1>4, <1>5, <1>8, Apart DEF StreamEntry
  <2> QED
    BY <2>1, NextFlow
<1>9. StreamEntry(c, r)'
  BY <1>4, <1>5, <1>6, <1>7, <1>8 DEF StreamEntry
<1> QED
  BY <1>1, <1>9

LEMMA NextStreamInv ==
    ASSUME TypeOK, QueueInv, ResultInv, ReaderInv, HeardInv, MapInv, UnansweredInv, StreamInv,
           [Next]_vars
    PROVE  StreamInv'
<1>1. ASSUME NEW c \in Conn
      PROVE  \A i \in 1 .. Len(reply_stream'[c]) :
                /\ \E r : r = reply_stream'[c][i] /\ StreamEntry(c, r)'
                /\ Final(reply_stream'[c][i]) =>
                      \A j \in 1 .. Len(reply_stream'[c]) :
                          j > i => reply_stream'[c][j].of # reply_stream'[c][i].of
  <2> DEFINE s == reply_stream[c]
             Kept(i) == \E r : r = s[i] /\ StreamEntry(c, r)'
             Good(t) == \A i \in 1 .. Len(t) :
                           /\ \E r : r = t[i] /\ StreamEntry(c, r)'
                           /\ Final(t[i]) => \A j \in 1 .. Len(t) : j > i => t[j].of # t[i].of
  <2>1. s \in Seq(ReplyRecord)
    BY DEF TypeOK
  <2>2. \A i \in 1 .. Len(s) :
           Final(s[i]) => \A j \in 1 .. Len(s) : j > i => s[j].of # s[i].of
    BY DEF StreamInv
  <2>3. ASSUME NEW i \in 1 .. Len(s), i > 1 \/ reply_stream'[c] # Tail(s) PROVE Kept(i)
    BY <2>3, EntryStays
  <2>4. CASE reply_stream'[c] = s
    <3>1. ASSUME NEW i \in 1 .. Len(s) PROVE Kept(i)
      <4>1. s # <<>>
        BY <2>1
      <4>2. Len(Tail(s)) = Len(s) - 1 /\ Len(s) \in Nat
        BY <2>1, <4>1, FirstEntry
      <4>3. s # Tail(s)
        <5> HIDE DEF s
        <5>1. Len(Tail(s)) # Len(s)
          BY <4>2
        <5> QED
          BY <5>1, Zenon
      <4> QED
        BY <2>3, <2>4, <4>3
    <3>2. Good(s)
      BY <2>2, <3>1
    <3> QED
      BY <2>4, <3>2
  <2>5. CASE reply_stream'[c] = <<>>
    BY <2>5
  <2>6. CASE s # <<>> /\ reply_stream'[c] = Tail(s)
    <3> DEFINE t == Tail(s)
    <3>1. /\ Len(s) \in Nat /\ Len(t) \in Nat
          /\ \A i \in 1 .. Len(t) : t[i] = s[i + 1] /\ i + 1 \in 1 .. Len(s)
      BY <2>1, <2>6, FirstEntry
    <3> HIDE DEF s, t, Kept
    <3>2. ASSUME NEW i \in 1 .. Len(t) PROVE Kept(i + 1) /\ t[i] = s[i + 1]
      BY <2>3, <3>1
    <3>3. ASSUME NEW i \in 1 .. Len(t), Final(t[i]), NEW j \in 1 .. Len(t), j > i
          PROVE  t[j].of # t[i].of
      <4>1. i + 1 \in 1 .. Len(s) /\ j + 1 \in 1 .. Len(s) /\ j + 1 > i + 1
        BY <3>1, <3>3
      <4> QED
        BY <2>2, <3>1, <3>3, <4>1
    <3>4. Good(t)
      BY <3>2, <3>3 DEF Kept
    <3> QED
      BY <2>6, <3>4 DEF t
  <2>7. CASE \E r \in ReplyRecord :
                /\ reply_stream'[c] = Append(s, r)
                /\ StreamEntry(c, r)'
                /\ \A i \in 1 .. Len(s) : Final(s[i]) => s[i].of # r.of
    <3>1. PICK r \in ReplyRecord :
                /\ reply_stream'[c] = Append(s, r)
                /\ StreamEntry(c, r)'
                /\ \A i \in 1 .. Len(s) : Final(s[i]) => s[i].of # r.of
      BY <2>7
    <3> DEFINE t == Append(s, r)
               n == Len(s)
    <3>2. /\ n \in Nat /\ Len(t) = n + 1 /\ t[n + 1] = r
          /\ \A i \in 1 .. n : t[i] = s[i]
      BY <2>1, AppendEntries
    <3>3. t # Tail(s) \/ s = <<>>
      <4>1. ASSUME s # <<>>, t = Tail(s) PROVE FALSE
        <5>1. Len(Tail(s)) = Len(s) - 1
          BY <2>1, <4>1, FirstEntry
        <5> QED
          BY <3>2, <4>1, <5>1
      <4> QED
        BY <4>1
    <3>4. ASSUME NEW i \in 1 .. n PROVE Kept(i)
      <4>1. s # <<>>
        BY <2>1
      <4> QED
        BY <2>3, <3>1, <3>3, <4>1
    <3> HIDE DEF s, t, n, Kept
    <3>5. ASSUME NEW i \in 1 .. Len(t) PROVE \E q : q = t[i] /\ StreamEntry(c, q)'
      <4>1. CASE i \in 1 .. n
        BY <3>2, <3>4, <4>1 DEF Kept
      <4>2. CASE i = n + 1
        BY <3>1, <3>2, <4>2
      <4> QED
        BY <3>2, <4>1, <4>2
    <3>6. ASSUME NEW i \in 1 .. Len(t), Final(t[i]), NEW j \in 1 .. Len(t), j > i
          PROVE  t[j].of # t[i].of
      <4>1. i \in 1 .. n /\ t[i] = s[i]
        BY <3>2, <3>6
      <4>2. CASE j \in 1 .. n
        BY <2>2, <3>2, <3>6, <4>1, <4>2 DEF n
      <4>3. CASE j = n + 1
        BY <3>1, <3>2, <3>6, <4>1, <4>3 DEF n
      <4> QED
        BY <3>2, <4>2, <4>3
    <3>7. Good(t)
      BY <3>5, <3>6
    <3> QED
      BY <3>1, <3>7 DEF t
  <2> QED
    BY <2>4, <2>5, <2>6, <2>7, NextStreams
<1>2. ASSUME NEW c \in Conn, NEW i \in 1 .. Len(reply_stream'[c])
      PROVE  StreamEntry(c, reply_stream[c][i])'
  <2>1. PICK r : r = reply_stream'[c][i] /\ StreamEntry(c, r)'
    BY <1>1
  <2> QED
    BY <2>1 DEF StreamEntry, Arrived, HasFull, Final
<1>3. ASSUME NEW c \in Conn, NEW i \in 1 .. Len(reply_stream'[c]), Final(reply_stream'[c][i]),
             NEW j \in 1 .. Len(reply_stream'[c]), j > i
      PROVE  reply_stream'[c][j].of # reply_stream'[c][i].of
  BY <1>1, <1>3
<1> QED
  BY <1>2, <1>3 DEF StreamInv, Final

-----------------------------------------------------------------------------
(* The theorems.                                                           *)

LEMMA InitInv == Init => CallInv
<1> SUFFICES ASSUME Init PROVE CallInv
  OBVIOUS
<1>1. TypeOK
  BY InitTypes
<1>2. /\ \A c \in Conn : ToSet(arrived[c]) = {} /\ ToSet(held[c]) = {} /\ ToSet(mailbox[c]) = {}
      /\ \A c \in Conn : unanswered[c] = {} /\ reader[c] = None
      /\ \A c \in Conn, k \in Call : replies[c][k] = <<>>
      /\ \A c \in Conn : reply_stream[c] = <<>>
      /\ \A k \in Call : result[k] = "none"
      /\ todo = Call
  BY EmptySet DEF Init
<1>3. QueueInv
  <2>1. ASSUME NEW c \in Conn PROVE ToSet(ForwardQueue(c)) = {} /\ Distinct(ForwardQueue(c))
    <3>1. ForwardQueue(c) \in Seq(Call) /\ ToSet(ForwardQueue(c)) = {}
      BY <1>1, <1>2, QueueIsSeq
    <3>2. ASSUME NEW i \in 1 .. Len(ForwardQueue(c)) PROVE FALSE
      BY <3>1, InToSet
    <3> QED
      BY <3>1, <3>2 DEF Distinct
  <2> QED
    BY <2>1 DEF QueueInv
<1>4. \A k : ~Arrived(k) /\ ~Waiting(k)
  BY <1>2 DEF Arrived, Waiting
<1>5. ResultInv
  BY <1>2, <1>4 DEF ResultInv
<1>6. ReaderInv
  BY <1>2 DEF ReaderInv
<1>7. HeardInv
  <2>1. TodoInv /\ ReplyReachesCaller
    BY <1>2 DEF TodoInv, ReplyReachesCaller
  <2>2. \A c \in Conn, k \in Call : Len(replies[c][k]) = 0
    BY <1>2
  <2>3. TruthInv
    <3>1. ASSUME NEW c \in Conn, NEW k \in Call, NEW i \in 1 .. Len(replies[c][k]) PROVE FALSE
      BY <2>2
    <3> QED
      BY <3>1, Zenon DEF TruthInv
  <2> QED
    BY <2>1, <2>3 DEF HeardInv
<1>8. MapInv
  <2>1. \A k \in Call : IdOf[k] \in ReqId
    BY CallsAssumption
  <2> QED
    BY <2>1 DEF MapInv, Init
<1>9. UnansweredInv /\ StreamInv
  BY <1>2 DEF UnansweredInv, StreamInv
<1> QED
  BY <1>1, <1>3, <1>5, <1>6, <1>7, <1>8, <1>9 DEF CallInv

LEMMA NextInv ==
    ASSUME CallInv, [Next]_vars
    PROVE  CallInv'
<1> USE DEF CallInv
<1>1. TypeOK'
  BY NextTypes
<1>2. QueueInv'
  BY NextQueueInv
<1>3. ResultInv'
  BY NextResultInv
<1>4. ReaderInv'
  BY NextReaderInv
<1>5. HeardInv'
  BY NextHeardInv
<1>6. MapInv'
  BY NextMapInv
<1>7. UnansweredInv'
  BY NextUnansweredInv
<1>8. StreamInv'
  BY NextStreamInv
<1> QED
  BY <1>1, <1>2, <1>3, <1>4, <1>5, <1>6, <1>7, <1>8

\* The types, and the inductive invariant: a call is in one place, forward
\* futures resolve to the truth, and reply_map leads to the callers.
THEOREM CallInvariant == Spec => []CallInv
<1>1. Init => CallInv
  BY InitInv
<1>2. CallInv /\ [Next]_vars => CallInv'
  BY NextInv
<1> QED
  BY <1>1, <1>2, PTL DEF Spec

\* handle_call_reply and Handler<ForwardCallResponse>: a reply reaches the
\* client that made the call and nobody else, and none is sent for a push,
\* with any number of connections and calls and however they end.
THEOREM RepliesReachCallers == Spec => []ReplyReachesCaller
<1>1. CallInv => ReplyReachesCaller
  BY DEF CallInv, HeardInv
<1> QED
  BY <1>1, CallInvariant, PTL

\* Handler<ForwardCallRequest> and buffer_empty: no request overtakes another
\* between a mailbox and the socket, with any queues and any overflow.
THEOREM RequestsInOrder == Spec => RequestsKeepOrder
<1>1. CallInv /\ [Next]_vars =>
        [\A c \in Conn :
            c \notin left' =>
                \A j, k \in 1 .. Len(ForwardQueue(c)) :
                    \A x, y \in 1 .. Len(ForwardQueue(c)') :
                        /\ j < k
                        /\ ForwardQueue(c)'[x] = ForwardQueue(c)[j]
                        /\ ForwardQueue(c)'[y] = ForwardQueue(c)[k]
                        => x < y]_vars
  BY NextQueueInv DEF CallInv
<1> QED
  BY <1>1, CallInvariant, PTL DEF Spec, RequestsKeepOrder

-----------------------------------------------------------------------------
(* What the callers are promised.                                          *)

\* A request is written once, if it is.
LEMMA DeliveredOnce ==
    CallInv => \A k \in Call : Cardinality(Places(k)) = IF Arrived(k) THEN 1 ELSE 0
<1> SUFFICES ASSUME CallInv, NEW k \in Call
             PROVE  Cardinality(Places(k)) = IF Arrived(k) THEN 1 ELSE 0
  OBVIOUS
<1> USE DEF CallInv
<1>1. \A c \in Conn : /\ arrived[c] \in Seq(Call)
                      /\ k \in ToSet(arrived[c]) <=> \E i \in 1 .. Len(arrived[c]) : k = arrived[c][i]
                      /\ Distinct(arrived[c])
  <2> SUFFICES ASSUME NEW c \in Conn
               PROVE  /\ arrived[c] \in Seq(Call)
                      /\ k \in ToSet(arrived[c]) <=> \E i \in 1 .. Len(arrived[c]) : k = arrived[c][i]
                      /\ Distinct(arrived[c])
    OBVIOUS
  <2>1. arrived[c] \in Seq(Call) /\ held[c] \in Seq(Call) /\ mailbox[c] \in Seq(Call)
    BY QueueTypes
  <2>2. Distinct(arrived[c] \o held[c] \o mailbox[c])
    BY DEF QueueInv, ForwardQueue
  <2>3. Distinct(arrived[c])
    BY <2>1, <2>2, PartsApart
  <2> QED
    BY <2>1, <2>3, InToSet
<1>2. \A p : p \in Places(k) <=>
               \E c \in Conn : \E i \in 1 .. Len(arrived[c]) : arrived[c][i] = k /\ p = <<c, i>>
  BY DEF Places
<1>3. CASE ~Arrived(k)
  <2>1. Places(k) = {}
    BY <1>1, <1>2, <1>3 DEF Arrived
  <2> QED
    BY <1>3, <2>1, FS_EmptySet
<1>4. CASE Arrived(k)
  <2>1. PICK c \in Conn : k \in ToSet(arrived[c])
    BY <1>4 DEF Arrived
  <2>2. PICK i \in 1 .. Len(arrived[c]) : arrived[c][i] = k
    BY <1>1, <2>1
  <2>3. ASSUME NEW p \in Places(k) PROVE p = <<c, i>>
    <3>0. PICK d \in Conn : \E j \in 1 .. Len(arrived[d]) : arrived[d][j] = k /\ p = <<d, j>>
      BY <1>2
    <3>1. PICK j \in 1 .. Len(arrived[d]) : arrived[d][j] = k /\ p = <<d, j>>
      BY <3>0
    <3>2. k \in ToSet(arrived[d])
      BY <1>1, <3>1
    <3>3. d = c
      BY <2>1, <3>2, Apart
    <3>4. j = i
      BY <1>1, <2>2, <3>1, <3>3 DEF Distinct
    <3> QED
      BY <3>1, <3>3, <3>4
  <2>4. <<c, i>> \in Places(k)
    BY <1>2, <2>2
  <2>5. PICK q : q = <<c, i>>
    OBVIOUS
  <2>6. Places(k) = {q}
    BY <2>3, <2>4, <2>5
  <2> QED
    BY <1>4, <2>6, FS_Singleton
<1> QED
  BY <1>3, <1>4

\* What a reply tells the caller, and a sequence of them.
What(r) ==
    CASE r.code = "ok" -> r.type
      [] r.code = "stalled connection" -> "stalled"
      [] OTHER -> "refused"

WhatAll(s) == [i \in 1 .. Len(s) |-> What(s[i])]

LEMMA WhatType ==
    ASSUME NEW r \in ReplyRecord
    PROVE  /\ What(r) \in {"partial", "full", "stalled", "refused"}
           /\ r.code = "ok" => What(r) = r.type
           /\ r.code = "stalled connection" => What(r) = "stalled"
           /\ r.code \notin {"ok", "stalled connection"} => What(r) = "refused"
           /\ r.type \in {"partial", "full"}
<1>1. r.type \in {"partial", "full"}
  BY DEF ReplyRecord
<1>2. CASE r.code = "ok"
  BY <1>1, <1>2 DEF What
<1>3. CASE r.code # "ok"
  BY <1>1, <1>3 DEF What
<1> QED
  BY <1>2, <1>3

LEMMA WhatEntries ==
    ASSUME NEW s \in Seq(ReplyRecord)
    PROVE  /\ WhatAll(s) \in Seq({"partial", "full", "stalled", "refused"})
           /\ Len(WhatAll(s)) = Len(s)
           /\ \A i \in 1 .. Len(s) : WhatAll(s)[i] = What(s[i])
<1> DEFINE X == {"partial", "full", "stalled", "refused"}
           w == WhatAll(s)
           n == Len(s)
<1>1. ASSUME NEW i \in 1 .. n PROVE What(s[i]) \in X
  <2>1. s[i] \in ReplyRecord
    OBVIOUS
  <2> QED
    BY <2>1, WhatType
<1>2. n \in Nat /\ w = [i \in 1 .. n |-> What(s[i])]
  BY DEF WhatAll
<1> HIDE DEF n, X, w
<1>3. w \in Seq(X) /\ Len(w) = n /\ \A i \in 1 .. n : w[i] = What(s[i])
  BY <1>1, <1>2
<1> QED
  BY <1>3 DEF X, w, n

LEMMA WhatAppend ==
    ASSUME NEW s \in Seq(ReplyRecord), NEW r \in ReplyRecord
    PROVE  WhatAll(Append(s, r)) = Append(WhatAll(s), What(r))
<1> DEFINE X == {"partial", "full", "stalled", "refused"}
           t == Append(s, r)
           w == WhatAll(s)
           n == Len(s)
<1>1. n \in Nat
  OBVIOUS
<1>2. w \in Seq(X) /\ Len(w) = n /\ \A i \in 1 .. n : w[i] = What(s[i])
  BY WhatEntries
<1>3. Len(t) = n + 1 /\ t[n + 1] = r /\ \A i \in 1 .. n : t[i] = s[i]
  BY AppendEntries
<1>4. What(r) \in X
  BY WhatType
<1> HIDE DEF t, w, X, n
<1>5. WhatAll(t) = Append(w, What(r))
  <2>1. WhatAll(t) = [i \in 1 .. n + 1 |-> What(t[i])]
    BY <1>3 DEF WhatAll
  <2>2. PICK x : x = What(r)
    OBVIOUS
  <2>3. /\ Append(w, x) \in Seq(X) /\ Len(Append(w, x)) = n + 1 /\ Append(w, x)[n + 1] = x
        /\ \A i \in 1 .. n : Append(w, x)[i] = w[i]
    BY <1>2, <1>4, <2>2, AppendEntries
  <2>4. ASSUME NEW i \in 1 .. n + 1 PROVE What(t[i]) = Append(w, x)[i]
    <3>1. CASE i = n + 1
      BY <1>3, <2>2, <2>3, <3>1
    <3>2. CASE i \in 1 .. n
      BY <1>2, <1>3, <2>3, <3>2
    <3>3. i = n + 1 \/ i \in 1 .. n
      BY <1>1
    <3> QED
      BY <3>1, <3>2, <3>3
  <2>5. PICK a : a = Append(w, x)
    OBVIOUS
  <2>6. a \in Seq(X) /\ Len(a) = n + 1
    BY <2>3, <2>5
  <2>7. DOMAIN a = 1 .. n + 1 /\ a = [i \in DOMAIN a |-> a[i]]
    BY <2>6
  <2>8. \A i \in 1 .. n + 1 : What(t[i]) = a[i]
    BY <2>4, <2>5
  <2> QED
    BY <2>1, <2>2, <2>5, <2>7, <2>8
<1> QED
  BY <1>5 DEF t, w

LEMMA HeardIsWhat == \A k \in Call : Heard(k) = WhatAll(replies[CallerOf[k]][k])
  BY DEF Heard, WhatAll, What

\* Nothing but "stalled" and partial replies was heard of a call that is
\* still waiting, or whose service has more to say.
LEMMA StillOpen ==
    ASSUME CallInv, NEW k \in Call,
           Waiting(k) \/ (Arrived(k) /\ ~HasFull(CallerOf[k], k))
    PROVE  \A i \in 1 .. Len(Heard(k)) : Heard(k)[i] \in {"stalled", "partial"}
<1> USE DEF CallInv
<1> DEFINE c == CallerOf[k]
           s == replies[c][k]
<1>1. c \in Conn /\ s \in Seq(ReplyRecord)
  <2>1. c \in Conn
    BY CallsAssumption
  <2> QED
    BY <2>1 DEF TypeOK
<1>2. Heard(k) = WhatAll(s)
  BY HeardIsWhat
<1>3. ASSUME NEW i \in 1 .. Len(s) PROVE What(s[i]) \in {"stalled", "partial"}
  <2>1. s[i] \in ReplyRecord
    BY <1>1
  <2>2. /\ s[i].code = "ok" => Arrived(k)
        /\ s[i].code \notin {"ok", "stalled connection"} => ~Arrived(k) /\ ~Waiting(k)
    BY <1>1 DEF HeardInv, TruthInv
  <2>3. CASE s[i].code = "ok"
    <3>1. ~Waiting(k)
      BY <2>2, <2>3, Apart
    <3>2. ~Final(s[i])
      BY <3>1 DEF HasFull
    <3> QED
      BY <2>1, <2>3, <3>2, WhatType DEF Final
  <2>4. CASE s[i].code = "stalled connection"
    BY <2>1, <2>4, WhatType
  <2>5. s[i].code \in {"ok", "stalled connection"}
    BY <2>2
  <2> QED
    BY <2>3, <2>4, <2>5
<1> HIDE DEF c, s
<1>5. Len(WhatAll(s)) = Len(s) /\ \A i \in 1 .. Len(s) : WhatAll(s)[i] = What(s[i])
  BY <1>1, WhatEntries
<1> QED
  BY <1>2, <1>3, <1>5

\* A step of the router is a step of the promise.
LEMMA NextPromise ==
    ASSUME CallInv, CallInv', [Next]_vars
    PROVE  [Promise!Next]_(Promise!vars)
<1> DEFINE D == [k \in Call |-> Cardinality(Places(k))]
           H == [k \in Call |-> Heard(k)]
<1>0. (\A k \in Call : Heard(k) = WhatAll(replies[CallerOf[k]][k]))'
  BY HeardIsWhat, PTL
<1> USE DEF CallInv
<1>1. \A k \in Call : D[k] = IF Arrived(k) THEN 1 ELSE 0
  BY DeliveredOnce
<1>2. \A k \in Call : Cardinality(Places(k)') = IF Arrived(k)' THEN 1 ELSE 0
  <2>1. CallInv' => (\A k \in Call : Cardinality(Places(k)) = IF Arrived(k) THEN 1 ELSE 0)'
    BY DeliveredOnce, PTL
  <2> QED
    BY <2>1
<1>3. CASE UNCHANGED replies
  <2>1. \A k \in Call : Heard(k)' = Heard(k)
    BY <1>3 DEF Heard
  <2>2. PICK ks \in SUBSET Call : ks = {k \in Call : Arrived(k)' /\ ~Arrived(k)}
    OBVIOUS
  <2>3. \A k \in ks : D[k] = 0 /\ \A i \in 1 .. Len(H[k]) : H[k][i] \in {"stalled", "partial"}
    <3>1. ASSUME NEW k \in ks
          PROVE  D[k] = 0 /\ \A i \in 1 .. Len(Heard(k)) : Heard(k)[i] \in {"stalled", "partial"}
      <4>1. k \in Call /\ ~Arrived(k) /\ Waiting(k)
        BY <2>2, NextFlow
      <4> QED
        BY <1>1, <4>1, StillOpen
    <3> QED
      BY <3>1
  <2>4. \A k \in Call : Cardinality(Places(k)') = IF k \in ks THEN 1 ELSE D[k]
    BY <1>1, <1>2, <2>2, NextFlow
  <2>5. Promise!Deliver(ks)
    BY <2>1, <2>3, <2>4 DEF Promise!Deliver, Promise!Open
  <2> QED
    BY <2>5 DEF Promise!Next
<1>4. ASSUME NEW c \in Conn, NEW k \in Call, NEW r \in ReplyRecord, Tells(c, k, r)
      PROVE  Promise!Next
  <2>1. /\ replies' = [replies EXCEPT ![c][k] = Append(@, r)]
        /\ CallerOf[k] = c /\ k \notin Push /\ UNCHANGED arrived
    BY <1>4 DEF Tells
  <2>2. D' = D
    BY <2>1 DEF Places
  <2>3. PICK s : s = replies[c][k]
    OBVIOUS
  <2>4. s \in Seq(ReplyRecord)
    BY <2>3 DEF TypeOK
  <2>5. Heard(k) = WhatAll(s) /\ Heard(k)' = Append(Heard(k), What(r))
    <3>1. Heard(k) = WhatAll(s)
      BY <2>1, <2>3, HeardIsWhat
    <3>2. replies'[c][k] = Append(s, r)
      BY <2>1, <2>3 DEF TypeOK
    <3>3. Heard(k)' = WhatAll(Append(s, r))
      <4>1. Heard(k)' = WhatAll(replies'[CallerOf[k]][k])
        BY <1>0
      <4> QED
        BY <2>1, <3>2, <4>1
    <3> QED
      BY <2>4, <3>1, <3>3, WhatAppend
  <2>6. \A j \in Call : j # k => Heard(j)' = Heard(j)
    <3>1. ASSUME NEW j \in Call, j # k PROVE Heard(j)' = Heard(j)
      <4>1. CallerOf[j] \in Conn
        BY CallsAssumption
      <4>2. replies'[CallerOf[j]][j] = replies[CallerOf[j]][j]
        BY <1>4, <3>1, <4>1, TellsEntries
      <4> QED
        BY <4>2 DEF Heard
    <3> QED
      BY <3>1
  <2>7. H' = [H EXCEPT ![k] = Append(@, What(r))]
    BY <2>5, <2>6
  <2>8. CASE Outcome(c, k, r)
    <3>1. H[k] = <<>> /\ D[k] = 0
      <4>1. replies[c][k] = <<>> /\ ~Arrived(k)
        BY <2>8 DEF Outcome
      <4>2. WhatAll(<<>>) = <<>>
        BY DEF WhatAll
      <4> QED
        BY <1>1, <2>3, <2>5, <4>1, <4>2
    <3>2. CASE r.code = "stalled connection"
      <4>1. What(r) = "stalled"
        BY <3>2, WhatType
      <4>2. Promise!Stall(k)
        BY <2>1, <2>2, <2>7, <3>1, <4>1 DEF Promise!Stall, Promise!Told
      <4> QED
        BY <4>2 DEF Promise!Next
    <3>3. CASE r.code # "stalled connection"
      <4>1. What(r) = "refused"
        BY <2>8, <3>3, WhatType DEF Outcome
      <4>2. Promise!Refuse(k)
        BY <2>1, <2>2, <2>7, <3>1, <4>1 DEF Promise!Refuse, Promise!Told
      <4> QED
        BY <4>2 DEF Promise!Next
    <3> QED
      BY <3>2, <3>3
  <2>9. CASE Answer(c, k, r)
    <3>1. r.code = "ok" /\ Arrived(k) /\ ~HasFull(c, k)
      BY <2>9, StreamHead DEF Answer, StreamEntry
    <3>2. What(r) = r.type /\ r.type \in {"partial", "full"}
      BY <3>1, WhatType
    <3>3. D[k] = 1 /\ \A i \in 1 .. Len(Heard(k)) : Heard(k)[i] \in {"stalled", "partial"}
      BY <1>1, <2>1, <3>1, StillOpen
    <3>4. Promise!Hear(k, r.type)
      BY <2>1, <2>2, <2>7, <3>2, <3>3 DEF Promise!Hear, Promise!Told, Promise!Open
    <3> QED
      BY <3>2, <3>4 DEF Promise!Next
  <2> QED
    BY <1>4, <2>8, <2>9 DEF Tells
<1> QED
  BY <1>3, <1>4, NextReplies

\* Calls through the router are what CallPromise says: a request is written
\* at most once, a caller told that it was refused may repeat its call, and
\* replies end with the full one, with any connections, calls, timeouts,
\* overflows and disconnects.
THEOREM CallsKeepPromise == Spec => CallsAsPromised
<1>1. Init => Promise!Init
  <2> SUFFICES ASSUME Init PROVE Promise!Init
    OBVIOUS
  <2>1. CallInv
    BY InitInv
  <2>2. ASSUME NEW k \in Call PROVE Cardinality(Places(k)) = 0 /\ Heard(k) = <<>>
    <3>1. ~Arrived(k)
      <4>1. \A c \in Conn : ToSet(arrived[c]) = {}
        BY EmptySet DEF Init
      <4> QED
        BY <4>1 DEF Arrived
    <3>2. Cardinality(Places(k)) = 0
      BY <2>1, <3>1, DeliveredOnce
    <3>3. replies[CallerOf[k]][k] = <<>>
      BY CallsAssumption DEF Init
    <3>4. WhatAll(<<>>) = <<>>
      BY DEF WhatAll
    <3> QED
      BY <3>2, <3>3, <3>4, HeardIsWhat
  <2> QED
    BY <2>2 DEF Promise!Init
<1>2. CallInv /\ CallInv' /\ [Next]_vars => [Promise!Next]_(Promise!vars)
  BY NextPromise
<1> QED
  BY <1>1, <1>2, CallInvariant, PTL DEF Spec, CallsAsPromised, Promise!Spec

=============================================================================
