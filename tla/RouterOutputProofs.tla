------------------------ MODULE RouterOutputProofs ------------------------
(***************************************************************************)
(* The outgoing side of a connection (RouterOutput) keeps the order of     *)
(* forwarded messages and reports true outcomes, for any sources, number   *)
(* of messages and high_buffer_mark.                                       *)
(*                                                                         *)
(* The first part is about Only.  What a recursive function computes is    *)
(* shown by induction; the principle is taken from the library as the      *)
(* well-foundedness of finite sets, since its induction theorems have an   *)
(* operator as a parameter.                                                *)
(***************************************************************************)
EXTENDS RouterOutput, FiniteSetTheorems, TLAPS

\* A set of numbers has a least one.
LEMMA LeastNat ==
    ASSUME NEW T, T \subseteq Nat, T # {}
    PROVE  \E n \in T : \A m \in T : n <= m
<1> DEFINE U == {1 .. n : n \in T}
<1>1. U \subseteq FiniteSubsetsOf(Nat)
  <2>1. ASSUME NEW n \in T PROVE IsFiniteSet(1 .. n) /\ 1 .. n \subseteq Nat
    <3>1. 1 \in Int /\ n \in Int
      OBVIOUS
    <3> QED
      BY <3>1, FS_Interval
  <2> QED
    BY <2>1 DEF FiniteSubsetsOf
<1>2. PICK x \in U : \A y \in U : ~(<<y, x>> \in StrictSubsetOrdering(Nat))
  <2>1. U # {}
    OBVIOUS
  <2> HIDE DEF U
  <2> QED
    BY <1>1, <2>1, FS_StrictSubsetOrderingWellFounded, WFMin
<1>3. PICK n \in T : x = 1 .. n
  BY <1>2
<1>4. ASSUME NEW m \in T, ~(n <= m) PROVE FALSE
  <2>1. 1 .. m \subseteq 1 .. n /\ n \in 1 .. n /\ n \notin 1 .. m
    BY <1>4
  <2>2. <<1 .. m, 1 .. n>> \in StrictSubsetOrdering(Nat)
    BY <2>1 DEF StrictSubsetOrdering
  <2> QED
    BY <1>2, <1>3, <2>2
<1> QED
  BY <1>4

\* Induction up to n.
LEMMA Upwards ==
    ASSUME NEW n \in Nat, NEW T, 0 \in T, \A i \in 0 .. n : i # n /\ i \in T => i + 1 \in T
    PROVE  \A i \in 0 .. n : i \in T
<1> DEFINE Bad == {i \in 0 .. n : i \notin T}
<1>1. ASSUME Bad # {} PROVE FALSE
  <2>1. PICK k \in Bad : \A m \in Bad : k <= m
    <3>1. Bad \subseteq Nat
      OBVIOUS
    <3> HIDE DEF Bad
    <3> QED
      BY <1>1, <3>1, LeastNat
  <2>2. k - 1 \in 0 .. n /\ k - 1 # n /\ k \in Nat /\ k # 0
    BY <2>1
  <2>3. k - 1 \in T
    BY <2>1, <2>2
  <2> QED
    BY <2>1, <2>2, <2>3
<1> QED
  BY <1>1

\* Only is what its recursion says.
LEMMA OnlyRecursion ==
    ASSUME NEW X, NEW q \in Seq(X), NEW S
    PROVE  \E F : /\ F[0] = <<>> /\ Only(q, S) = F[Len(q)]
                  /\ \A i \in 1 .. Len(q) :
                        F[i] = IF q[i] \in S THEN Append(F[i - 1], q[i]) ELSE F[i - 1]
<1> DEFINE n == Len(q)
           Step(g, i) == IF q[i] \in S THEN Append(g[i - 1], q[i]) ELSE g[i - 1]
           Def(g) == [i \in 0 .. n |-> IF i = 0 THEN <<>>
                                       ELSE IF q[i] \in S THEN Append(g[i - 1], q[i])
                                       ELSE g[i - 1]]
           Up(k) == \E g : g[0] = <<>> /\ \A i \in 1 .. k : g[i] = Step(g, i)
           T == {k \in 0 .. n : Up(k)}
<1>1. n \in Nat
  OBVIOUS
<1>2. 0 \in T
  <2> DEFINE g == [i \in {0} |-> <<>>]
  <2>1. g[0] = <<>> /\ \A i \in 1 .. 0 : g[i] = Step(g, i)
    OBVIOUS
  <2>2. Up(0)
    BY <2>1
  <2> QED
    BY <1>1, <2>2
<1>3. ASSUME NEW k \in 0 .. n, k # n, k \in T PROVE k + 1 \in T
  <2>1. PICK g : g[0] = <<>> /\ \A i \in 1 .. k : g[i] = Step(g, i)
    BY <1>3
  <2> DEFINE h == [i \in 0 .. k + 1 |-> IF i = k + 1 THEN Step(g, k + 1) ELSE g[i]]
  <2>2. h[0] = <<>>
    BY <1>1, <2>1
  <2>3. ASSUME NEW i \in 1 .. k + 1 PROVE h[i] = Step(h, i)
    <3>1. h[i - 1] = g[i - 1] /\ i \in 0 .. k + 1
      BY <1>1
    <3>2. CASE i = k + 1
      BY <3>1, <3>2
    <3>3. CASE i # k + 1
      <4>1. i \in 1 .. k /\ h[i] = g[i]
        BY <3>1, <3>3
      <4> QED
        BY <2>1, <3>1, <4>1
    <3> QED
      BY <3>2, <3>3
  <2>4. Up(k + 1)
    <3> HIDE DEF h
    <3> QED
      BY <2>2, <2>3
  <2> QED
    BY <1>1, <1>3, <2>4
<1>4. n \in T
  <2> HIDE DEF T
  <2>1. \A i \in 0 .. n : i \in T
    BY <1>1, <1>2, <1>3, Upwards
  <2> QED
    BY <1>1, <2>1
<1>5. PICK g : g[0] = <<>> /\ \A i \in 1 .. n : g[i] = Step(g, i)
  BY <1>4
<1>6. \E h : h = Def(h)
  <2> DEFINE h == [i \in 0 .. n |-> g[i]]
  <2>1. ASSUME NEW i \in 0 .. n PROVE h[i] = Def(h)[i]
    BY <1>1, <1>5, <2>1
  <2>2. h = Def(h)
    BY <2>1
  <2> QED
    BY <2>2
<1> DEFINE F == CHOOSE h : h = Def(h)
<1>7. F = Def(F)
  BY <1>6
<1>8. Only(q, S) = F[n]
  BY DEF Only
<1> HIDE DEF F
<1>9. F[0] = <<>> /\ \A i \in 1 .. n : F[i] = Step(F, i)
  <2>1. Def(F)[0] = <<>> /\ \A i \in 1 .. n : Def(F)[i] = Step(F, i)
    BY <1>1
  <2> HIDE DEF Def
  <2> QED
    BY <1>7, <2>1
<1> QED
  BY <1>8, <1>9

\* The numbers in q grow.
Increasing(q) == \A j, k \in 1 .. Len(q) : j < k => q[j] < q[k]

\* Membership in a sequence, by position.
LEMMA InToSet ==
    ASSUME NEW X, NEW s \in Seq(X)
    PROVE  /\ \A x : x \in ToSet(s) <=> \E i \in 1 .. Len(s) : x = s[i]
           /\ ToSet(s) \subseteq X /\ Len(s) \in Nat
  BY DEF ToSet

LEMMA SeqWiden ==
    ASSUME NEW X, NEW Y, X \subseteq Y, NEW s \in Seq(X)
    PROVE  s \in Seq(Y)
<1>1. Len(s) \in Nat /\ \A i \in 1 .. Len(s) : s[i] \in Y
  OBVIOUS
<1>2. s = [i \in 1 .. Len(s) |-> s[i]]
  OBVIOUS
<1>3. [i \in 1 .. Len(s) |-> s[i]] \in Seq(Y)
  BY <1>1
<1> QED
  BY <1>2, <1>3

LEMMA SeqBetween ==
    ASSUME NEW X, NEW Y, NEW s \in Seq(X), \A i \in 1 .. Len(s) : s[i] \in Y
    PROVE  s \in Seq(Y)
<1>1. Len(s) \in Nat /\ s = [i \in 1 .. Len(s) |-> s[i]]
  OBVIOUS
<1>2. [i \in 1 .. Len(s) |-> s[i]] \in Seq(Y)
  BY <1>1
<1> QED
  BY <1>1, <1>2

\* The entries of a sequence and a new one.
LEMMA ToSetAppend ==
    ASSUME NEW X, NEW s \in Seq(X), NEW e \in X
    PROVE  ToSet(Append(s, e)) = ToSet(s) \cup {e}
<1> DEFINE t == Append(s, e)
<1>1. /\ t \in Seq(X) /\ Len(t) = Len(s) + 1 /\ t[Len(s) + 1] = e /\ Len(s) \in Nat
      /\ \A j \in 1 .. Len(s) : t[j] = s[j]
  OBVIOUS
<1> HIDE DEF t
<1>2. ASSUME NEW x PROVE x \in ToSet(t) <=> x \in ToSet(s) \/ x = e
  <2>1. x \in ToSet(t) <=> \E i \in 1 .. Len(s) + 1 : x = t[i]
    BY <1>1, InToSet
  <2>2. x \in ToSet(s) <=> \E i \in 1 .. Len(s) : x = s[i]
    BY InToSet
  <2> QED
    BY <1>1, <2>1, <2>2
<1> QED
  BY <1>2 DEF t

\* s holds the members of S among the first i entries of q, in order.
KeptOf(s, q, i, S) ==
    /\ s \in Seq(Nat)
    /\ Len(s) <= i
    /\ ToSet(s) = {q[j] : j \in 1 .. i} \cap S
    /\ Increasing(q) => Increasing(s)

\* One step of the recursion.
LEMMA KeptStep ==
    ASSUME NEW q \in Seq(Nat), NEW S, NEW s, NEW i \in Nat, i + 1 <= Len(q), KeptOf(s, q, i, S)
    PROVE  KeptOf(IF q[i + 1] \in S THEN Append(s, q[i + 1]) ELSE s, q, i + 1, S)
<1> DEFINE e == q[i + 1]
<1>1. i + 1 \in 1 .. Len(q) /\ e \in Nat /\ s \in Seq(Nat) /\ Len(s) \in Nat /\ Len(q) \in Nat
  BY DEF KeptOf
<1>2. {q[j] : j \in 1 .. i + 1} = {q[j] : j \in 1 .. i} \cup {e}
  BY SMTT(40)
<1> HIDE DEF e
<1>3. CASE e \notin S
  BY <1>1, <1>2, <1>3 DEF KeptOf, e
<1>4. CASE e \in S
  <2> DEFINE t == Append(s, e)
  <2>1. /\ t \in Seq(Nat) /\ Len(t) = Len(s) + 1 /\ t[Len(s) + 1] = e
        /\ \A j \in 1 .. Len(s) : t[j] = s[j]
    BY <1>1
  <2> HIDE DEF t
  <2>2. ToSet(t) = ToSet(s) \cup {e}
    BY <1>1, ToSetAppend DEF t
  <2>3. ASSUME Increasing(q) PROVE Increasing(t)
    <3>1. ASSUME NEW j \in 1 .. Len(s) PROVE s[j] < e
      <4>1. s[j] \in {q[k] : k \in 1 .. i}
        BY <1>1, InToSet DEF KeptOf
      <4>2. PICK k \in 1 .. i : s[j] = q[k]
        BY <4>1
      <4>3. k \in 1 .. Len(q) /\ i + 1 \in 1 .. Len(q) /\ k < i + 1
        BY <1>1
      <4> QED
        BY <2>3, <4>2, <4>3 DEF Increasing, e
    <3>2. Increasing(s)
      BY <2>3 DEF KeptOf
    <3>3. ASSUME NEW j \in 1 .. Len(s) + 1, NEW k \in 1 .. Len(s) + 1, j < k
          PROVE  t[j] < t[k]
      <4>1. j \in 1 .. Len(s)
        BY <1>1, <3>3
      <4>2. CASE k = Len(s) + 1
        BY <2>1, <3>1, <4>1, <4>2
      <4>3. CASE k \in 1 .. Len(s)
        BY <2>1, <3>2, <3>3, <4>1, <4>3 DEF Increasing
      <4> QED
        BY <1>1, <4>2, <4>3
    <3> QED
      BY <2>1, <3>3 DEF Increasing
  <2>4. KeptOf(t, q, i + 1, S)
    <3>1. ToSet(t) = {q[j] : j \in 1 .. i + 1} \cap S
      <4>1. ToSet(s) = {q[j] : j \in 1 .. i} \cap S
        BY DEF KeptOf
      <4> QED
        BY <1>2, <1>4, <2>2, <4>1
    <3>2. Len(s) <= i
      BY DEF KeptOf
    <3> QED
      BY <1>1, <2>1, <2>3, <3>1, <3>2 DEF KeptOf
  <2> QED
    BY <1>4, <2>4 DEF t, e
<1> QED
  BY <1>3, <1>4

\* What Only keeps, and in which order.
LEMMA OnlyKeeps ==
    ASSUME NEW q \in Seq(Nat), NEW S
    PROVE  KeptOf(Only(q, S), q, Len(q), S)
<1> DEFINE n == Len(q)
<1>1. PICK F : /\ F[0] = <<>> /\ Only(q, S) = F[n]
               /\ \A i \in 1 .. n :
                     F[i] = IF q[i] \in S THEN Append(F[i - 1], q[i]) ELSE F[i - 1]
  BY OnlyRecursion
<1> DEFINE T == {i \in 0 .. n : KeptOf(F[i], q, i, S)}
<1>2. n \in Nat
  OBVIOUS
<1>3. 0 \in T
  <2>1. KeptOf(<<>>, q, 0, S)
    BY DEF KeptOf, Increasing, ToSet
  <2> QED
    BY <1>1, <1>2, <2>1
<1>4. ASSUME NEW i \in 0 .. n, i # n, i \in T PROVE i + 1 \in T
  <2>1. i \in Nat /\ i + 1 <= n /\ i + 1 \in 1 .. n /\ i + 1 \in 0 .. n /\ (i + 1) - 1 = i
    BY <1>2, <1>4
  <2>2. F[i + 1] = IF q[i + 1] \in S THEN Append(F[i], q[i + 1]) ELSE F[i]
    BY <1>1, <2>1
  <2>3. KeptOf(F[i + 1], q, i + 1, S)
    BY <1>4, <2>1, <2>2, KeptStep
  <2> QED
    BY <2>1, <2>3
<1>5. n \in T
  <2> HIDE DEF T
  <2>1. \A i \in 0 .. n : i \in T
    BY <1>2, <1>3, <1>4, Upwards
  <2> QED
    BY <1>2, <2>1
<1> QED
  BY <1>1, <1>5

-----------------------------------------------------------------------------
(* Order in sequences of messages; F is the set of forwarded ones.         *)

\* The members of F in s grow.
Ordered(s, F) ==
    \A j, k \in 1 .. Len(s) : j < k /\ s[j] \in F /\ s[k] \in F => s[j] < s[k]

\* The members of F in S are below those in T.
Precede(S, T, F) == \A x \in S \cap F, y \in T \cap F : x < y

\* A new entry above the others.
LEMMA OrderedAppend ==
    ASSUME NEW s \in Seq(Nat), NEW e \in Nat, NEW F, Ordered(s, F), Precede(ToSet(s), {e}, F)
    PROVE  Ordered(Append(s, e), F)
<1> DEFINE t == Append(s, e)
<1>1. /\ t \in Seq(Nat) /\ Len(t) = Len(s) + 1 /\ t[Len(s) + 1] = e /\ Len(s) \in Nat
      /\ \A j \in 1 .. Len(s) : t[j] = s[j]
  OBVIOUS
<1> HIDE DEF t
<1>2. ASSUME NEW j \in 1 .. Len(s) + 1, NEW k \in 1 .. Len(s) + 1, j < k, t[j] \in F, t[k] \in F
      PROVE  t[j] < t[k]
  <2>1. j \in 1 .. Len(s)
    BY <1>1, <1>2
  <2>2. CASE k = Len(s) + 1
    <3>1. s[j] \in ToSet(s)
      BY <2>1, InToSet
    <3> QED
      BY <1>1, <1>2, <2>1, <2>2, <3>1 DEF Precede
  <2>3. CASE k \in 1 .. Len(s)
    BY <1>1, <1>2, <2>1, <2>3 DEF Ordered
  <2> QED
    BY <1>1, <2>2, <2>3
<1> QED
  BY <1>1, <1>2 DEF Ordered, t

\* The first entry, and the rest.
LEMMA HeadAndTail ==
    ASSUME NEW s \in Seq(Nat), s # <<>>, NEW F, Ordered(s, F)
    PROVE  /\ Head(s) \in Nat /\ Tail(s) \in Seq(Nat)
           /\ ToSet(s) = {Head(s)} \cup ToSet(Tail(s))
           /\ Ordered(Tail(s), F)
           /\ Precede({Head(s)}, ToSet(Tail(s)), F)
<1> DEFINE t == Tail(s)
<1>1. /\ t \in Seq(Nat) /\ Len(s) \in Nat /\ Len(s) # 0 /\ Len(t) = Len(s) - 1
      /\ Head(s) = s[1] /\ s[1] \in Nat
      /\ \A j \in 1 .. Len(s) - 1 : t[j] = s[j + 1]
  OBVIOUS
<1> HIDE DEF t
<1>2. \A x : x \in ToSet(t) <=> \E i \in 1 .. Len(s) - 1 : x = s[i + 1]
  <2>1. \A x : x \in ToSet(t) <=> \E i \in 1 .. Len(t) : x = t[i]
    BY <1>1, InToSet
  <2>2. \A x : x \in ToSet(t) <=> \E i \in 1 .. Len(s) - 1 : x = t[i]
    BY <1>1, <2>1, Zenon
  <2> QED
    BY <1>1, <2>2, ZenonT(40)
<1>3. \A x : x \in ToSet(s) <=> \E i \in 1 .. Len(s) : x = s[i]
  BY InToSet
<1>4. ASSUME NEW x PROVE x \in ToSet(s) <=> x = s[1] \/ x \in ToSet(t)
  <2>1. ASSUME x \in ToSet(s), x # s[1] PROVE x \in ToSet(t)
    <3>1. PICK i \in 1 .. Len(s) : x = s[i]
      BY <1>3, <2>1
    <3>2. i - 1 \in 1 .. Len(s) - 1 /\ x = s[(i - 1) + 1]
      BY <1>1, <2>1, <3>1
    <3> QED
      BY <1>2, <3>2
  <2>2. ASSUME x \in ToSet(t) PROVE x \in ToSet(s)
    <3>1. PICK i \in 1 .. Len(s) - 1 : x = s[i + 1]
      BY <1>2, <2>2
    <3>2. i + 1 \in 1 .. Len(s)
      BY <1>1
    <3> QED
      BY <1>3, <3>1, <3>2
  <2>3. s[1] \in ToSet(s)
    BY <1>1, <1>3
  <2> QED
    BY <2>1, <2>2, <2>3
<1>5. Ordered(t, F)
  <2>1. ASSUME NEW j \in 1 .. Len(s) - 1, NEW k \in 1 .. Len(s) - 1, j < k, t[j] \in F, t[k] \in F
        PROVE  t[j] < t[k]
    <3>1. t[j] = s[j + 1] /\ t[k] = s[k + 1]
      BY <1>1
    <3>2. j + 1 \in 1 .. Len(s) /\ k + 1 \in 1 .. Len(s) /\ j + 1 < k + 1
      BY <1>1, <2>1
    <3> QED
      BY <2>1, <3>1, <3>2 DEF Ordered
  <2> QED
    BY <1>1, <2>1, Zenon DEF Ordered
<1>6. Precede({s[1]}, ToSet(t), F)
  <2>1. ASSUME NEW y \in ToSet(t), s[1] \in F, y \in F PROVE s[1] < y
    <3>1. PICK i \in 1 .. Len(s) - 1 : y = s[i + 1]
      BY <1>2, <2>1
    <3>2. i + 1 \in 1 .. Len(s) /\ 1 \in 1 .. Len(s) /\ 1 < i + 1
      BY <1>1
    <3> QED
      BY <2>1, <3>1, <3>2 DEF Ordered
  <2> QED
    BY <2>1 DEF Precede
<1> QED
  BY <1>1, <1>4, <1>5, <1>6 DEF t

\* Two sequences one behind the other.
LEMMA Joined ==
    ASSUME NEW s \in Seq(Nat), NEW t \in Seq(Nat), NEW F
    PROVE  /\ s \o t \in Seq(Nat)
           /\ ToSet(s \o t) = ToSet(s) \cup ToSet(t)
           /\ Ordered(s, F) /\ Ordered(t, F) /\ Precede(ToSet(s), ToSet(t), F)
                 => Ordered(s \o t, F)
<1> DEFINE u == s \o t
           n == Len(s)
           m == Len(t)
<1>1. /\ u \in Seq(Nat) /\ n \in Nat /\ m \in Nat /\ Len(u) = n + m
      /\ \A i \in 1 .. n : u[i] = s[i]
      /\ \A i \in 1 .. m : u[n + i] = t[i]
  OBVIOUS
<1> HIDE DEF u
<1>2. \A x : x \in ToSet(u) <=> \E i \in 1 .. n + m : x = u[i]
  <2>1. \A x : x \in ToSet(u) <=> \E i \in 1 .. Len(u) : x = u[i]
    BY <1>1, InToSet
  <2> QED
    BY <1>1, <2>1
<1>3. \A x : x \in ToSet(s) <=> \E i \in 1 .. n : x = s[i]
  BY InToSet
<1>4. \A x : x \in ToSet(t) <=> \E i \in 1 .. m : x = t[i]
  BY InToSet
<1> HIDE DEF n, m
<1>5. ASSUME NEW i \in 1 .. n + m
      PROVE  i \in 1 .. n \/ (i - n \in 1 .. m /\ u[i] = t[i - n] /\ i > n)
  <2>1. CASE i \in 1 .. n
    BY <2>1
  <2>2. CASE i \notin 1 .. n
    <3>1. i - n \in 1 .. m /\ n + (i - n) = i /\ i > n
      BY <1>1, <2>2
    <3> QED
      BY <1>1, <3>1
  <2> QED
    BY <2>1, <2>2
<1>6. ToSet(u) = ToSet(s) \cup ToSet(t)
  <2>1. ASSUME NEW x \in ToSet(u) PROVE x \in ToSet(s) \cup ToSet(t)
    <3>1. PICK i \in 1 .. n + m : x = u[i]
      BY <1>2, <2>1
    <3>2. CASE i \in 1 .. n
      BY <1>1, <1>3, <3>1, <3>2
    <3>3. CASE i \notin 1 .. n
      BY <1>4, <1>5, <3>1, <3>3
    <3> QED
      BY <3>2, <3>3
  <2>2. ASSUME NEW x \in ToSet(s) PROVE x \in ToSet(u)
    <3>1. PICK i \in 1 .. n : x = s[i]
      BY <1>3, <2>2
    <3> QED
      BY <1>1, <1>2, <3>1
  <2>3. ASSUME NEW x \in ToSet(t) PROVE x \in ToSet(u)
    <3>1. PICK i \in 1 .. m : x = t[i]
      BY <1>4, <2>3
    <3>2. n + i \in 1 .. n + m
      BY <1>1
    <3> QED
      BY <1>1, <1>2, <3>1, <3>2
  <2> QED
    BY <2>1, <2>2, <2>3
<1>7. ASSUME Ordered(s, F), Ordered(t, F), Precede(ToSet(s), ToSet(t), F)
      PROVE  Ordered(u, F)
  <2>1. ASSUME NEW j \in 1 .. n + m, NEW k \in 1 .. n + m, j < k, u[j] \in F, u[k] \in F
        PROVE  u[j] < u[k]
    <3>1. CASE k \in 1 .. n
      <4>1. j \in 1 .. n
        BY <1>1, <2>1, <3>1
      <4> QED
        BY <1>1, <1>7, <2>1, <3>1, <4>1 DEF Ordered, n
    <3>2. CASE k \notin 1 .. n /\ j \in 1 .. n
      <4>1. u[j] \in ToSet(s) /\ u[k] \in ToSet(t)
        BY <1>1, <1>3, <1>4, <1>5, <3>2
      <4> QED
        BY <1>7, <2>1, <4>1 DEF Precede
    <3>3. CASE k \notin 1 .. n /\ j \notin 1 .. n
      <4>1. /\ k - n \in 1 .. m /\ u[k] = t[k - n]
            /\ j - n \in 1 .. m /\ u[j] = t[j - n]
        BY <1>5, <3>3
      <4>2. j - n < k - n
        BY <1>1, <2>1
      <4> QED
        BY <1>7, <2>1, <4>1, <4>2 DEF Ordered, m
    <3> QED
      BY <3>1, <3>2, <3>3
  <2> QED
    BY <1>1, <2>1 DEF Ordered
<1> QED
  BY <1>1, <1>6, <1>7 DEF u

\* The front of a sequence that grows.
LEMMA FrontGrows ==
    ASSUME NEW s \in Seq(Nat), NEW n \in 0 .. Len(s), NEW F
    PROVE  /\ SubSeq(s, 1, n) \in Seq(Nat)
           /\ ToSet(SubSeq(s, 1, n)) \subseteq ToSet(s)
           /\ Increasing(s) => Ordered(SubSeq(s, 1, n), F)
           /\ n = Len(s) => ToSet(SubSeq(s, 1, n)) = ToSet(s)
<1> DEFINE t == SubSeq(s, 1, n)
<1>1. /\ t \in Seq(Nat) /\ Len(t) = n /\ \A i \in 1 .. n : t[i] = s[i]
      /\ Len(s) \in Nat /\ n \in Nat /\ n <= Len(s)
  OBVIOUS
<1> HIDE DEF t
<1>2. \A x : x \in ToSet(t) <=> \E i \in 1 .. n : x = s[i]
  <2>1. \A x : x \in ToSet(t) <=> \E i \in 1 .. Len(t) : x = t[i]
    BY <1>1, InToSet
  <2> QED
    BY <1>1, <2>1
<1>3. \A x : x \in ToSet(s) <=> \E i \in 1 .. Len(s) : x = s[i]
  BY InToSet
<1>4. ToSet(t) \subseteq ToSet(s)
  BY <1>1, <1>2, <1>3
<1>5. n = Len(s) => ToSet(t) = ToSet(s)
  BY <1>2, <1>3
<1>6. ASSUME Increasing(s) PROVE Ordered(t, F)
  <2>1. ASSUME NEW j \in 1 .. n, NEW k \in 1 .. n, j < k PROVE t[j] < t[k]
    <3>1. j \in 1 .. Len(s) /\ k \in 1 .. Len(s) /\ t[j] = s[j] /\ t[k] = s[k]
      BY <1>1
    <3> QED
      BY <1>6, <2>1, <3>1 DEF Increasing
  <2> QED
    BY <1>1, <2>1, Zenon DEF Ordered
<1> QED
  BY <1>1, <1>4, <1>5, <1>6 DEF t

\* An order that depends only on which entries are forwarded.
LEMMA SameForwarded ==
    ASSUME NEW X, NEW s \in Seq(X), NEW F, NEW G, F \cap X = G \cap X, Ordered(s, F)
    PROVE  Ordered(s, G)
<1>1. ASSUME NEW j \in 1 .. Len(s), NEW k \in 1 .. Len(s), j < k, s[j] \in G, s[k] \in G
      PROVE  s[j] < s[k]
  <2>1. s[j] \in X /\ s[k] \in X
    OBVIOUS
  <2>2. s[j] \in F /\ s[k] \in F
    BY <1>1, <2>1
  <2> QED
    BY <1>1, <2>2 DEF Ordered
<1> QED
  BY <1>1 DEF Ordered

LEMMA IncreasingIsOrdered ==
    ASSUME NEW s \in Seq(Nat), NEW F
    PROVE  /\ Increasing(s) <=> Ordered(s, Nat)
           /\ Increasing(s) => Ordered(s, F)
<1>1. \A j \in 1 .. Len(s) : s[j] \in Nat
  OBVIOUS
<1> QED
  BY <1>1 DEF Increasing, Ordered

-----------------------------------------------------------------------------
(* The invariant.                                                          *)

Forward == {m \in Msg : origin[m] # Direct}

\* Forwarded messages grow along the wire, then the buffer, then the queue.
OrderInv ==
    /\ Ordered(wire, Forward)
    /\ Ordered(buffer, Forward)
    /\ Increasing(hold_queue)
    /\ Precede(ToSet(wire), ToSet(buffer), Forward)
    /\ Precede(ToSet(wire), ToSet(hold_queue), Forward)
    /\ Precede(ToSet(buffer), ToSet(hold_queue), Forward)

\* Only forwarded messages are held, and whoever waits does so for a
\* message of its own that is pending.
HoldInv ==
    /\ \A m \in ToSet(hold_queue) : origin[m] # Direct
    /\ \A m \in Msg : m > sent => outcome[m] = "none"
    /\ \A s \in Src : waiting[s] # 0 =>
            outcome[waiting[s]] = "pending" /\ origin[waiting[s]] = s

\* OutcomeIsTrue, per queue.
TruthInv ==
    \A m \in Msg :
        /\ outcome[m] = "ok" /\ ~stopped => m \in ToSet(wire) \cup ToSet(buffer)
        /\ outcome[m] = "lost" =>
              m \notin ToSet(wire) \cup ToSet(buffer) \cup ToSet(hold_queue)
        /\ outcome[m] = "pending" => m \in ToSet(hold_queue)
        /\ outcome[m] = "cancelled" => m \notin ToSet(wire) \cup ToSet(buffer)

OutInv == TypeOK /\ HoldInv /\ TruthInv /\ OrderInv

LEMMA InitOut == Init => OutInv
<1> SUFFICES ASSUME Init PROVE OutInv
  OBVIOUS
<1>1. ToSet(<<>>) = {}
  BY DEF ToSet
<1>2. TypeOK
  <2>1. \A X : <<>> \in Seq(X)
    OBVIOUS
  <2>2. sent \in 0 .. MaxMsg /\ 0 \in 0 .. MaxMsg
    BY MarkAssumption DEF Init
  <2> QED
    BY <2>1, <2>2, Zenon DEF Init, TypeOK, Outcome
<1>3. HoldInv /\ TruthInv
  BY <1>1 DEF Init, HoldInv, TruthInv
<1>4. OrderInv
  BY <1>1 DEF Init, OrderInv, Ordered, Increasing, Precede
<1> QED
  BY <1>2, <1>3, <1>4 DEF OutInv

\* The queues are sequences of numbers up to sent.
LEMMA Queues ==
    ASSUME TypeOK
    PROVE  /\ sent \in Nat /\ 1 .. sent \subseteq Msg /\ 1 .. sent \subseteq Nat
           /\ wire \in Seq(Nat) /\ ToSet(wire) \subseteq 1 .. sent
           /\ buffer \in Seq(Nat) /\ ToSet(buffer) \subseteq 1 .. sent
           /\ hold_queue \in Seq(Nat) /\ ToSet(hold_queue) \subseteq 1 .. sent
<1>1. sent \in Nat /\ 1 .. sent \subseteq Msg /\ 1 .. sent \subseteq Nat
  BY MarkAssumption DEF TypeOK, Msg
<1>2. ASSUME NEW s \in Seq(1 .. sent)
      PROVE  s \in Seq(Nat) /\ ToSet(s) \subseteq 1 .. sent
  BY <1>1, InToSet
<1> QED
  BY <1>1, <1>2 DEF TypeOK

\* What Offer changes, and that nothing so far is above the new message.
LEMMA Offered ==
    ASSUME OutInv, NEW m \in Msg, NEW o \in Src \cup {Direct}, Offer(m, o)
    PROVE  /\ m = sent + 1 /\ sent' = m /\ sent' \in 0 .. MaxMsg
           /\ origin' = [origin EXCEPT ![m] = o]
           /\ origin' \in [Msg -> Src \cup {Direct, None}]
           /\ \A x \in 1 .. sent : x \in Msg /\ x < m /\ origin'[x] = origin[x]
           /\ origin'[m] = o /\ outcome[m] = "none"
           /\ \A s \in Src : waiting[s] # m
           /\ wire \in Seq(1 .. m) /\ buffer \in Seq(1 .. m) /\ hold_queue \in Seq(1 .. m)
<1> USE DEF OutInv
<1>1. /\ m = sent + 1 /\ sent' = m /\ sent' \in 0 .. MaxMsg /\ m \in Nat /\ sent \in Nat
      /\ origin' = [origin EXCEPT ![m] = o]
  BY MarkAssumption DEF Offer, TypeOK, Msg
<1>2. /\ origin' \in [Msg -> Src \cup {Direct, None}] /\ origin'[m] = o
      /\ \A x \in Msg : x # m => origin'[x] = origin[x]
  BY <1>1 DEF TypeOK
<1>3. outcome[m] = "none"
  BY <1>1 DEF HoldInv
<1>4. \A s \in Src : waiting[s] # m
  <2>1. ASSUME NEW s \in Src, waiting[s] = m PROVE FALSE
    BY <1>1, <1>3, <2>1 DEF HoldInv
  <2> QED
    BY <2>1
<1>5. \A x \in 1 .. sent : x \in Msg /\ x < m /\ x # m
  BY <1>1, Queues
<1>6. 1 .. sent \subseteq 1 .. m
  BY <1>1
<1>7. \A s \in Seq(1 .. sent) : s \in Seq(1 .. m)
  BY <1>6, SeqWiden
<1> QED
  BY <1>1, <1>2, <1>3, <1>4, <1>5, <1>7 DEF TypeOK

\* The orders survive an Offer, and the new message is above everything.
LEMMA OfferedOrder ==
    ASSUME OutInv, NEW m \in Msg, NEW o \in Src \cup {Direct}, Offer(m, o)
    PROVE  /\ Ordered(wire, Forward') /\ Ordered(buffer, Forward')
           /\ Precede(ToSet(wire), ToSet(buffer), Forward')
           /\ Precede(ToSet(wire), ToSet(hold_queue), Forward')
           /\ Precede(ToSet(buffer), ToSet(hold_queue), Forward')
           /\ \A S \in {ToSet(wire), ToSet(buffer), ToSet(hold_queue)} : \A F : Precede(S, {m}, F)
           /\ \A S : o = Direct => Precede({m}, S, Forward')
<1>1. \A x \in 1 .. sent : x \in Msg /\ x < m /\ origin'[x] = origin[x]
  BY Offered
<1>2. TypeOK /\ OrderInv
  BY DEF OutInv
<1>3. /\ wire \in Seq(1 .. sent) /\ buffer \in Seq(1 .. sent)
      /\ ToSet(wire) \subseteq 1 .. sent
      /\ ToSet(buffer) \subseteq 1 .. sent /\ ToSet(hold_queue) \subseteq 1 .. sent
  BY <1>2, Queues DEF TypeOK
<1>4. Forward' = {x \in Msg : origin'[x] # Direct}
  BY DEF Forward, Msg
<1>5. Forward \cap 1 .. sent = Forward' \cap 1 .. sent
  BY <1>1, <1>4 DEF Forward
<1>6. Ordered(wire, Forward') /\ Ordered(buffer, Forward')
  <2> DEFINE G == Forward'
  <2>1. Forward \cap 1 .. sent = G \cap 1 .. sent /\ Ordered(wire, Forward) /\ Ordered(buffer, Forward)
    BY <1>2, <1>5 DEF OrderInv
  <2> HIDE DEF G
  <2>2. Ordered(wire, G) /\ Ordered(buffer, G)
    BY <1>3, <2>1, SameForwarded
  <2> QED
    BY <2>2 DEF G
<1>7. /\ Precede(ToSet(wire), ToSet(buffer), Forward')
      /\ Precede(ToSet(wire), ToSet(hold_queue), Forward')
      /\ Precede(ToSet(buffer), ToSet(hold_queue), Forward')
  BY <1>2, <1>3, <1>5 DEF OrderInv, Precede
<1>8. \A S \in {ToSet(wire), ToSet(buffer), ToSet(hold_queue)} : \A F : Precede(S, {m}, F)
  BY <1>1, <1>3 DEF Precede
<1>9. \A S : o = Direct => Precede({m}, S, Forward')
  <2>1. origin'[m] = o
    BY Offered
  <2> QED
    BY <1>4, <2>1 DEF Precede
<1> QED
  BY <1>6, <1>7, <1>8, <1>9

\* A message written at once, whether forwarded with nothing held (SendNow)
\* or the connection's own (SendReply).
LEMMA WrittenOut ==
    ASSUME OutInv, NEW m \in Msg, NEW o \in Src \cup {Direct}, Offer(m, o),
           o = Direct \/ hold_queue = <<>>,
           buffer' = Append(buffer, m), outcome' = [outcome EXCEPT ![m] = "ok"],
           UNCHANGED <<waiting, hold_queue, wire, stopped>>
    PROVE  OutInv'
<1> USE DEF OutInv
<1>1. /\ m = sent + 1 /\ sent' = m /\ sent' \in 0 .. MaxMsg
      /\ origin' \in [Msg -> Src \cup {Direct, None}]
      /\ \A x \in 1 .. sent : x \in Msg /\ x < m /\ origin'[x] = origin[x]
      /\ origin'[m] = o /\ outcome[m] = "none"
      /\ \A s \in Src : waiting[s] # m
      /\ wire \in Seq(1 .. m) /\ buffer \in Seq(1 .. m) /\ hold_queue \in Seq(1 .. m)
      /\ origin' = [origin EXCEPT ![m] = o]
  BY Offered, Zenon
<1>2. /\ sent \in Nat /\ m \in Nat /\ m \in 1 .. m /\ wire \in Seq(Nat) /\ buffer \in Seq(Nat)
      /\ ToSet(wire) \subseteq 1 .. sent /\ ToSet(buffer) \subseteq 1 .. sent
      /\ ToSet(hold_queue) \subseteq 1 .. sent
  BY <1>1, Queues
<1>3. ToSet(buffer') = ToSet(buffer) \cup {m}
  BY <1>2, ToSetAppend
<1>4. /\ ToSet(wire') = ToSet(wire) /\ ToSet(hold_queue') = ToSet(hold_queue)
      /\ stopped' = stopped /\ waiting' = waiting /\ wire' = wire /\ hold_queue' = hold_queue
  BY Zenon
<1>5. /\ outcome' \in [Msg -> Outcome] /\ outcome'[m] = "ok"
      /\ \A x \in Msg : x # m => outcome'[x] = outcome[x]
  BY DEF TypeOK, Outcome
<1>6. TypeOK'
  <2>1. buffer' \in Seq(1 .. m)
    BY <1>1, <1>2
  <2> QED
    BY <1>1, <1>4, <1>5, <2>1 DEF TypeOK, Msg
<1>7. HoldInv'
  <2>1. ASSUME NEW x \in ToSet(hold_queue') PROVE origin'[x] # Direct
    BY <1>1, <1>2, <1>4, <2>1 DEF HoldInv
  <2>2. ASSUME NEW x \in Msg, x > sent' PROVE outcome'[x] = "none"
    BY <1>1, <1>2, <1>5, <2>2 DEF HoldInv, Msg
  <2>3. ASSUME NEW s \in Src, waiting'[s] # 0
        PROVE  outcome'[waiting'[s]] = "pending" /\ origin'[waiting'[s]] = s
    <3>1. waiting[s] \in Msg /\ waiting[s] # m
      BY <1>1, <1>4, <2>3 DEF TypeOK, Msg
    <3> QED
      BY <1>1, <1>4, <1>5, <2>3, <3>1 DEF HoldInv, TypeOK
  <2> QED
    BY <2>1, <2>2, <2>3 DEF HoldInv, Msg
<1>8. TruthInv'
  <2>1. ASSUME NEW x \in Msg
        PROVE  /\ outcome'[x] = "ok" /\ ~stopped' => x \in ToSet(wire') \cup ToSet(buffer')
               /\ outcome'[x] = "lost" =>
                     x \notin ToSet(wire') \cup ToSet(buffer') \cup ToSet(hold_queue')
               /\ outcome'[x] = "pending" => x \in ToSet(hold_queue')
               /\ outcome'[x] = "cancelled" => x \notin ToSet(wire') \cup ToSet(buffer')
    <3>1. CASE x = m
      BY <1>3, <1>5, <3>1
    <3>2. CASE x # m
      BY <1>3, <1>4, <1>5, <3>2 DEF TruthInv
    <3> QED
      BY <3>1, <3>2
  <2> QED
    BY <2>1 DEF TruthInv, Msg
<1>9. OrderInv'
  <2> DEFINE G == Forward'
  <2>1. /\ Ordered(wire, G) /\ Ordered(buffer, G)
        /\ Precede(ToSet(wire), ToSet(buffer), G)
        /\ Precede(ToSet(wire), ToSet(hold_queue), G)
        /\ Precede(ToSet(buffer), ToSet(hold_queue), G)
        /\ Precede(ToSet(wire), {m}, G) /\ Precede(ToSet(buffer), {m}, G)
        /\ o = Direct => Precede({m}, ToSet(hold_queue), G)
    BY OfferedOrder
  <2> HIDE DEF G
  <2>2. Ordered(Append(buffer, m), G)
    BY <1>2, <2>1, OrderedAppend
  <2>3. Precede({m}, ToSet(hold_queue), G)
    <3>1. hold_queue = <<>> => ToSet(hold_queue) = {}
      BY DEF ToSet
    <3> QED
      BY <2>1, <3>1 DEF Precede
  <2>4. Increasing(hold_queue)
    BY DEF OrderInv
  <2>5. /\ Ordered(wire', G) /\ Ordered(buffer', G) /\ Increasing(hold_queue')
        /\ Precede(ToSet(wire'), ToSet(buffer'), G)
        /\ Precede(ToSet(wire'), ToSet(hold_queue'), G)
        /\ Precede(ToSet(buffer'), ToSet(hold_queue'), G)
    BY <1>3, <1>4, <2>1, <2>2, <2>3, <2>4 DEF Precede
  <2> QED
    BY <2>5 DEF G, OrderInv
<1> QED
  BY <1>6, <1>7, <1>8, <1>9

\* A message put behind the held ones.
LEMMA SendHeldOut ==
    ASSUME OutInv, NEW s \in Src, SendHeld(s)
    PROVE  OutInv'
<1> USE DEF OutInv
<1>1. PICK m \in Msg :
        /\ waiting[s] = 0 /\ Offer(m, s) /\ hold_queue' = Append(hold_queue, m)
        /\ outcome' = [outcome EXCEPT ![m] = "pending"]
        /\ waiting' = [waiting EXCEPT ![s] = m]
        /\ UNCHANGED <<buffer, wire, stopped>>
  BY DEF SendHeld
<1>2. /\ m = sent + 1 /\ sent' = m /\ sent' \in 0 .. MaxMsg
      /\ origin' \in [Msg -> Src \cup {Direct, None}]
      /\ \A x \in 1 .. sent : x \in Msg /\ x < m /\ origin'[x] = origin[x]
      /\ origin'[m] = s /\ outcome[m] = "none"
      /\ \A r \in Src : waiting[r] # m
      /\ wire \in Seq(1 .. m) /\ buffer \in Seq(1 .. m) /\ hold_queue \in Seq(1 .. m)
      /\ origin' = [origin EXCEPT ![m] = s]
  BY <1>1, Offered, Zenon
<1>3. /\ sent \in Nat /\ m \in Nat /\ m \in 1 .. m
      /\ wire \in Seq(Nat) /\ buffer \in Seq(Nat) /\ hold_queue \in Seq(Nat)
      /\ ToSet(wire) \subseteq 1 .. sent /\ ToSet(buffer) \subseteq 1 .. sent
      /\ ToSet(hold_queue) \subseteq 1 .. sent
  BY <1>2, Queues
<1>4. ToSet(hold_queue') = ToSet(hold_queue) \cup {m}
  <2> hold_queue \in Seq(Nat) /\ m \in Nat
    BY <1>3
  <2>1. ToSet(Append(hold_queue, m)) = ToSet(hold_queue) \cup {m}
    BY ToSetAppend
  <2> QED
    BY <1>1, <2>1
<1>5. /\ ToSet(wire') = ToSet(wire) /\ ToSet(buffer') = ToSet(buffer)
      /\ stopped' = stopped /\ wire' = wire /\ buffer' = buffer
  BY <1>1, Zenon
<1>6. /\ outcome' \in [Msg -> Outcome] /\ outcome'[m] = "pending"
      /\ \A x \in Msg : x # m => outcome'[x] = outcome[x]
      /\ waiting' \in [Src -> 0 .. MaxMsg] /\ waiting'[s] = m
      /\ \A r \in Src : r # s => waiting'[r] = waiting[r]
  BY <1>1, <1>2 DEF TypeOK, Outcome
<1>7. TypeOK'
  <2>1. hold_queue' \in Seq(1 .. m)
    BY <1>1, <1>2, <1>3
  <2> QED
    BY <1>2, <1>5, <1>6, <2>1 DEF TypeOK, Msg
<1>8. HoldInv'
  <2>1. ASSUME NEW x \in ToSet(hold_queue') PROVE origin'[x] # Direct
    BY <1>2, <1>3, <1>4, <2>1, SourceAssumption DEF HoldInv
  <2>2. ASSUME NEW x \in Msg, x > sent' PROVE outcome'[x] = "none"
    <3>1. x > sent /\ x # m
      BY <1>2, <1>3, <2>2 DEF Msg
    <3> QED
      BY <1>6, <3>1 DEF HoldInv
  <2>3. ASSUME NEW r \in Src, waiting'[r] # 0
        PROVE  outcome'[waiting'[r]] = "pending" /\ origin'[waiting'[r]] = r
    <3>1. CASE r = s
      BY <1>2, <1>6, <3>1
    <3>2. CASE r # s
      <4>1. waiting[r] \in Msg /\ waiting[r] # m
        BY <1>2, <1>6, <2>3, <3>2 DEF TypeOK, Msg
      <4> QED
        BY <1>2, <1>6, <2>3, <3>2, <4>1 DEF HoldInv, TypeOK
    <3> QED
      BY <3>1, <3>2
  <2> QED
    BY <2>1, <2>2, <2>3 DEF HoldInv, Msg
<1>9. TruthInv'
  <2>1. ASSUME NEW x \in Msg
        PROVE  /\ outcome'[x] = "ok" /\ ~stopped' => x \in ToSet(wire') \cup ToSet(buffer')
               /\ outcome'[x] = "lost" =>
                     x \notin ToSet(wire') \cup ToSet(buffer') \cup ToSet(hold_queue')
               /\ outcome'[x] = "pending" => x \in ToSet(hold_queue')
               /\ outcome'[x] = "cancelled" => x \notin ToSet(wire') \cup ToSet(buffer')
    <3>1. CASE x = m
      BY <1>4, <1>6, <3>1
    <3>2. CASE x # m
      BY <1>4, <1>5, <1>6, <3>2 DEF TruthInv
    <3> QED
      BY <3>1, <3>2
  <2> QED
    BY <2>1 DEF TruthInv, Msg
<1>10. OrderInv'
  <2> DEFINE G == Forward'
  <2>1. /\ Ordered(wire, G) /\ Ordered(buffer, G)
        /\ Precede(ToSet(wire), ToSet(buffer), G)
        /\ Precede(ToSet(wire), ToSet(hold_queue), G)
        /\ Precede(ToSet(buffer), ToSet(hold_queue), G)
        /\ Precede(ToSet(wire), {m}, G) /\ Precede(ToSet(buffer), {m}, G)
        /\ Precede(ToSet(hold_queue), {m}, Nat)
    BY <1>1, OfferedOrder
  <2> HIDE DEF G
  <2>2. Increasing(Append(hold_queue, m))
    <3>1. Ordered(hold_queue, Nat) /\ Append(hold_queue, m) \in Seq(Nat)
      BY <1>3, IncreasingIsOrdered DEF OrderInv
    <3>2. Ordered(Append(hold_queue, m), Nat)
      BY <1>3, <2>1, <3>1, OrderedAppend
    <3> QED
      BY <3>1, <3>2, IncreasingIsOrdered
  <2>3. /\ Ordered(wire', G) /\ Ordered(buffer', G) /\ Increasing(hold_queue')
        /\ Precede(ToSet(wire'), ToSet(buffer'), G)
        /\ Precede(ToSet(wire'), ToSet(hold_queue'), G)
        /\ Precede(ToSet(buffer'), ToSet(hold_queue'), G)
    BY <1>1, <1>4, <1>5, <2>1, <2>2 DEF Precede
  <2> QED
    BY <2>3 DEF G, OrderInv
<1> QED
  BY <1>7, <1>8, <1>9, <1>10

\* A source that gives up, or is cancelled, while its message is held.
LEMMA LeaveOut ==
    ASSUME OutInv, NEW s \in Src, NEW res \in {"timeout", "cancelled"}, waiting[s] # 0,
           outcome' = [outcome EXCEPT ![waiting[s]] = res],
           waiting' = [waiting EXCEPT ![s] = 0],
           UNCHANGED <<sent, origin, hold_queue, buffer, wire, stopped>>
    PROVE  OutInv'
<1> USE DEF OutInv
<1> DEFINE m == waiting[s]
<1>1. m \in Msg /\ outcome[m] = "pending" /\ origin[m] = s /\ m \in ToSet(hold_queue)
  BY DEF TypeOK, HoldInv, TruthInv, Msg
<1>2. /\ outcome' \in [Msg -> Outcome] /\ outcome'[m] = res
      /\ \A x \in Msg : x # m => outcome'[x] = outcome[x]
      /\ waiting' \in [Src -> 0 .. MaxMsg] /\ waiting'[s] = 0
      /\ \A r \in Src : r # s => waiting'[r] = waiting[r]
  <2>1. outcome' = [outcome EXCEPT ![m] = res] /\ 0 \in 0 .. MaxMsg
    BY MarkAssumption
  <2> HIDE DEF m
  <2>2. /\ outcome' \in [Msg -> Outcome] /\ outcome'[m] = res
        /\ \A x \in Msg : x # m => outcome'[x] = outcome[x]
    BY <1>1, <2>1 DEF TypeOK, Outcome
  <2> QED
    BY <2>1, <2>2 DEF TypeOK
<1>3. /\ ToSet(wire') = ToSet(wire) /\ ToSet(buffer') = ToSet(buffer)
      /\ ToSet(hold_queue') = ToSet(hold_queue) /\ stopped' = stopped
      /\ sent' = sent /\ origin' = origin
  BY Zenon
<1>4. m \notin ToSet(wire) \cup ToSet(buffer)
  <2>1. m \in Forward /\ m \in Nat /\ ~(m < m)
    BY <1>1, SourceAssumption DEF Forward, Msg
  <2> QED
    BY <1>1, <2>1 DEF OrderInv, Precede
<1> HIDE DEF m
<1>5. TypeOK'
  BY <1>2 DEF TypeOK, Msg
<1>6. HoldInv'
  <2>1. ASSUME NEW x \in Msg, x > sent PROVE outcome'[x] = "none"
    BY <1>1, <1>2, <2>1 DEF HoldInv
  <2>2. ASSUME NEW r \in Src, waiting'[r] # 0
        PROVE  outcome'[waiting'[r]] = "pending" /\ origin[waiting'[r]] = r
    <3>1. r # s /\ waiting'[r] = waiting[r] /\ waiting[r] \in Msg
      BY <1>2, <2>2 DEF TypeOK, Msg
    <3>2. waiting[r] # m
      BY <1>1, <2>2, <3>1 DEF HoldInv
    <3> QED
      BY <1>2, <2>2, <3>1, <3>2 DEF HoldInv
  <2> QED
    BY <1>3, <2>1, <2>2 DEF HoldInv, Msg
<1>7. TruthInv'
  <2>1. ASSUME NEW x \in Msg
        PROVE  /\ outcome'[x] = "ok" /\ ~stopped' => x \in ToSet(wire') \cup ToSet(buffer')
               /\ outcome'[x] = "lost" =>
                     x \notin ToSet(wire') \cup ToSet(buffer') \cup ToSet(hold_queue')
               /\ outcome'[x] = "pending" => x \in ToSet(hold_queue')
               /\ outcome'[x] = "cancelled" => x \notin ToSet(wire') \cup ToSet(buffer')
    <3>1. CASE x = m
      BY <1>2, <1>3, <1>4, <3>1
    <3>2. CASE x # m
      BY <1>2, <1>3, <3>2 DEF TruthInv
    <3> QED
      BY <3>1, <3>2
  <2> QED
    BY <2>1 DEF TruthInv, Msg
<1>8. OrderInv'
  BY DEF OrderInv, Forward, Msg, Ordered, Increasing
<1> QED
  BY <1>5, <1>6, <1>7, <1>8

\* The front of the buffer goes to the socket.
LEMMA TransmitOut ==
    ASSUME OutInv, Transmit
    PROVE  OutInv'
<1> USE DEF OutInv
<1> DEFINE h == Head(buffer)
           t == Tail(buffer)
<1>1. /\ buffer # <<>> /\ wire' = Append(wire, h) /\ buffer' = t
      /\ UNCHANGED <<sent, origin, outcome, waiting, hold_queue, stopped>>
  BY DEF Transmit
<1>2. /\ sent \in Nat /\ wire \in Seq(Nat) /\ buffer \in Seq(Nat) /\ hold_queue \in Seq(Nat)
  BY Queues
<1>3. /\ h \in Nat /\ t \in Seq(Nat) /\ ToSet(buffer) = {h} \cup ToSet(t)
      /\ Ordered(t, Forward) /\ Precede({h}, ToSet(t), Forward)
  BY <1>1, <1>2, HeadAndTail DEF OrderInv
<1>4. h \in 1 .. sent /\ t \in Seq(1 .. sent)
  BY <1>1 DEF TypeOK
<1> HIDE DEF h, t
<1>5. ToSet(wire') = ToSet(wire) \cup {h}
  <2> wire \in Seq(Nat) /\ h \in Nat
    BY <1>2, <1>3
  <2>1. ToSet(Append(wire, h)) = ToSet(wire) \cup {h}
    BY ToSetAppend
  <2> QED
    BY <1>1, <2>1
<1>6. TypeOK'
  <2>1. wire' \in Seq(1 .. sent)
    BY <1>1, <1>4 DEF TypeOK
  <2> QED
    BY <1>1, <1>4, <2>1 DEF TypeOK, Msg
<1>7. HoldInv'
  BY <1>1 DEF HoldInv, Msg
<1>8. /\ ToSet(wire') \cup ToSet(buffer') = ToSet(wire) \cup ToSet(buffer)
      /\ ToSet(hold_queue') = ToSet(hold_queue) /\ outcome' = outcome /\ stopped' = stopped
  BY <1>1, <1>3, <1>5
<1>9. TruthInv'
  BY <1>8 DEF TruthInv, Msg
<1>10. OrderInv'
  <2>1. Forward' = Forward
    BY <1>1 DEF Forward, Msg
  <2>2. Ordered(Append(wire, h), Forward)
    <3>1. Precede(ToSet(wire), {h}, Forward) /\ Ordered(wire, Forward)
      BY <1>3 DEF OrderInv, Precede
    <3> QED
      BY <1>2, <1>3, <3>1, OrderedAppend
  <2>3. /\ Precede(ToSet(wire'), ToSet(t), Forward)
        /\ Precede(ToSet(wire'), ToSet(hold_queue), Forward)
        /\ Precede(ToSet(t), ToSet(hold_queue), Forward)
    BY <1>3, <1>5 DEF OrderInv, Precede
  <2>4. Increasing(hold_queue)
    BY DEF OrderInv
  <2> QED
    BY <1>1, <1>3, <2>1, <2>2, <2>3, <2>4 DEF OrderInv
<1> QED
  BY <1>6, <1>7, <1>9, <1>10

\* What buffer_empty releases: held messages nobody cancelled, in order, and
\* all of those unless more than the mark were held.
LEMMA ReleasedKeeps ==
    ASSUME TypeOK
    PROVE  /\ Released \in Seq(Nat)
           /\ ToSet(Released) \subseteq ToSet(hold_queue)
           /\ \A m \in ToSet(Released) : m \in Msg /\ outcome[m] # "cancelled"
           /\ \A F : Increasing(hold_queue) => Ordered(Released, F)
           /\ Len(hold_queue) <= HighBufferMark =>
                 \A m \in ToSet(hold_queue) :
                     outcome[m] # "cancelled" => m \in ToSet(Released)
<1> DEFINE S == {m \in Msg : outcome[m] # "cancelled"}
           n == IF Len(Live) > HighBufferMark THEN HighBufferMark ELSE Len(Live)
<1>1. hold_queue \in Seq(Nat) /\ ToSet(hold_queue) \subseteq Msg
  BY Queues
<1>2. KeptOf(Live, hold_queue, Len(hold_queue), S)
  BY <1>1, OnlyKeeps DEF Live
<1>3. /\ Live \in Seq(Nat) /\ Len(Live) \in Nat /\ Len(hold_queue) \in Nat
      /\ Len(Live) <= Len(hold_queue)
      /\ Increasing(hold_queue) => Increasing(Live)
  BY <1>1, <1>2 DEF KeptOf
<1>4. ToSet(Live) = ToSet(hold_queue) \cap S
  <2>1. ToSet(Live) = {hold_queue[j] : j \in 1 .. Len(hold_queue)} \cap S
    BY <1>2 DEF KeptOf
  <2> QED
    BY <2>1 DEF ToSet
<1>5. HighBufferMark \in Nat
  BY MarkAssumption
<1>6. n \in 0 .. Len(Live) /\ (Len(hold_queue) <= HighBufferMark => n = Len(Live))
  BY <1>3, <1>5
<1>7. Released = SubSeq(Live, 1, n)
  BY DEF Released
<1> HIDE DEF n, S
<1>8. /\ SubSeq(Live, 1, n) \in Seq(Nat)
      /\ ToSet(SubSeq(Live, 1, n)) \subseteq ToSet(Live)
      /\ n = Len(Live) => ToSet(SubSeq(Live, 1, n)) = ToSet(Live)
      /\ \A F : Increasing(Live) => Ordered(SubSeq(Live, 1, n), F)
  BY <1>3, <1>6, FrontGrows
<1> QED
  BY <1>1, <1>3, <1>4, <1>6, <1>7, <1>8 DEF S

\* The queue moves to the empty buffer as far as the mark allows.
LEMMA BufferEmptyOut ==
    ASSUME OutInv, BufferEmpty
    PROVE  OutInv'
<1> USE DEF OutInv
<1>1. /\ buffer = <<>> /\ buffer' = Released /\ hold_queue' = <<>> /\ outcome' = Notified
      /\ waiting' = [s \in Src |->
                        IF waiting[s] # 0 /\ Notified[waiting[s]] # "pending"
                        THEN 0 ELSE waiting[s]]
      /\ UNCHANGED <<sent, origin, wire, stopped>>
  BY DEF BufferEmpty, Drained
<1>2. /\ Released \in Seq(Nat) /\ ToSet(Released) \subseteq ToSet(hold_queue)
      /\ \A m \in ToSet(Released) : m \in Msg /\ outcome[m] # "cancelled"
      /\ Ordered(Released, Forward)
  BY ReleasedKeeps DEF OrderInv
<1>3. /\ sent \in Nat /\ ToSet(hold_queue) \subseteq 1 .. sent /\ 1 .. sent \subseteq Msg
  BY Queues
<1>4. ToSet(buffer) = {} /\ ToSet(hold_queue') = {}
  BY <1>1 DEF ToSet
<1>5. ToSet(wire') = ToSet(wire) /\ ToSet(buffer') = ToSet(Released)
  BY <1>1, Zenon
<1>6. /\ outcome' \in [Msg -> Outcome]
      /\ \A m \in Msg : outcome'[m] =
            IF outcome[m] # "pending" \/ m \notin ToSet(hold_queue) THEN outcome[m]
            ELSE IF m \in ToSet(Released) THEN "ok" ELSE "lost"
  <2>1. \A m \in Msg : outcome[m] \in Outcome
    BY DEF TypeOK
  <2> QED
    BY <1>1, <2>1 DEF Notified, Outcome
<1>7. \A m \in ToSet(hold_queue) : m \in Msg /\ m \notin ToSet(wire)
  <2>1. ASSUME NEW m \in ToSet(hold_queue) PROVE m \in Forward /\ ~(m < m)
    BY <1>3, <2>1 DEF HoldInv, Forward, Msg
  <2> QED
    BY <1>3, <2>1 DEF OrderInv, Precede
<1>8. TypeOK'
  <2>1. Released \in Seq(1 .. sent)
    <3>1. \A i \in 1 .. Len(Released) : Released[i] \in ToSet(Released)
      BY <1>2, InToSet
    <3>2. \A i \in 1 .. Len(Released) : Released[i] \in 1 .. sent
      BY <1>2, <1>3, <3>1
    <3> QED
      BY <1>2, <3>2, SeqBetween
  <2>2. waiting' \in [Src -> 0 .. MaxMsg]
    BY <1>1, MarkAssumption DEF TypeOK
  <2>3. hold_queue' \in Seq(1 .. sent)
    BY <1>1
  <2> QED
    BY <1>1, <1>6, <2>1, <2>2, <2>3 DEF TypeOK, Msg
<1>9. HoldInv'
  <2>1. ASSUME NEW m \in Msg, m > sent PROVE outcome'[m] = "none"
    BY <1>6, <2>1 DEF HoldInv
  <2>2. ASSUME NEW s \in Src, waiting'[s] # 0
        PROVE  outcome'[waiting'[s]] = "pending" /\ origin[waiting'[s]] = s
    <3>1. waiting'[s] = waiting[s] /\ Notified[waiting[s]] = "pending"
      BY <1>1, <2>2
    <3> QED
      BY <1>1, <2>2, <3>1 DEF HoldInv
  <2> QED
    BY <1>1, <1>4, <2>1, <2>2 DEF HoldInv, Msg
<1>10. TruthInv'
  <2>1. ASSUME NEW x \in Msg
        PROVE  /\ outcome'[x] = "ok" /\ ~stopped' => x \in ToSet(wire') \cup ToSet(buffer')
               /\ outcome'[x] = "lost" =>
                     x \notin ToSet(wire') \cup ToSet(buffer') \cup ToSet(hold_queue')
               /\ outcome'[x] = "pending" => x \in ToSet(hold_queue')
               /\ outcome'[x] = "cancelled" => x \notin ToSet(wire') \cup ToSet(buffer')
    <3>1. CASE outcome[x] = "pending"
      <4>1. x \in ToSet(hold_queue)
        BY <3>1 DEF TruthInv
      <4> QED
        BY <1>4, <1>5, <1>6, <1>7, <3>1, <4>1
    <3>2. CASE outcome[x] # "pending"
      <4>1. outcome'[x] = outcome[x]
        BY <1>6, <3>2
      <4> QED
        BY <1>1, <1>2, <1>4, <1>5, <3>2, <4>1 DEF TruthInv
    <3> QED
      BY <3>1, <3>2
  <2> QED
    BY <2>1 DEF TruthInv, Msg
<1>11. OrderInv'
  <2>1. Forward' = Forward
    BY <1>1 DEF Forward, Msg
  <2>2. /\ Increasing(hold_queue') /\ Ordered(wire', Forward) /\ Ordered(buffer', Forward)
    BY <1>1, <1>2 DEF OrderInv, Increasing
  <2>3. Precede(ToSet(wire), ToSet(Released), Forward)
    BY <1>2 DEF OrderInv, Precede
  <2> QED
    BY <1>4, <1>5, <2>1, <2>2, <2>3 DEF OrderInv, Precede
<1> QED
  BY <1>8, <1>9, <1>10, <1>11

\* Everything not yet on the wire is dropped.
LEMMA StopOut ==
    ASSUME OutInv, Stop
    PROVE  OutInv'
<1> USE DEF OutInv
<1>1. /\ stopped' = TRUE /\ buffer' = <<>> /\ hold_queue' = <<>>
      /\ outcome' = [m \in Msg |->
                        IF outcome[m] = "pending" THEN "lost" ELSE outcome[m]]
      /\ waiting' = [s \in Src |-> 0]
      /\ UNCHANGED <<sent, origin, wire>>
  BY DEF Stop
<1>2. ToSet(buffer') = {} /\ ToSet(hold_queue') = {} /\ ToSet(wire') = ToSet(wire)
  BY <1>1 DEF ToSet
<1>3. /\ sent \in Nat /\ ToSet(hold_queue) \subseteq 1 .. sent /\ 1 .. sent \subseteq Msg
  BY Queues
<1>4. \A m \in ToSet(hold_queue) : m \notin ToSet(wire)
  <2>1. ASSUME NEW m \in ToSet(hold_queue) PROVE m \in Forward /\ ~(m < m)
    BY <1>3, <2>1 DEF HoldInv, Forward, Msg
  <2> QED
    BY <2>1 DEF OrderInv, Precede
<1>5. \A m \in Msg : outcome'[m] = IF outcome[m] = "pending" THEN "lost" ELSE outcome[m]
  BY <1>1
<1>6. TypeOK'
  <2>1. \A m \in Msg : outcome[m] \in Outcome
    BY DEF TypeOK
  <2>2. outcome' \in [Msg -> Outcome]
    BY <1>1, <2>1 DEF Outcome
  <2>3. buffer' \in Seq(1 .. sent) /\ hold_queue' \in Seq(1 .. sent)
    BY <1>1
  <2>4. waiting' \in [Src -> 0 .. MaxMsg]
    BY <1>1, MarkAssumption
  <2> QED
    BY <1>1, <2>2, <2>3, <2>4 DEF TypeOK, Msg
<1>7. HoldInv'
  BY <1>1, <1>2, <1>5 DEF HoldInv, Msg
<1>8. TruthInv'
  <2>1. ASSUME NEW x \in Msg
        PROVE  /\ outcome'[x] = "lost" =>
                     x \notin ToSet(wire') \cup ToSet(buffer') \cup ToSet(hold_queue')
               /\ outcome'[x] # "pending"
               /\ outcome'[x] = "cancelled" => x \notin ToSet(wire') \cup ToSet(buffer')
    BY <1>2, <1>4, <1>5 DEF TruthInv
  <2> QED
    BY <1>1, <2>1 DEF TruthInv, Msg
<1>9. OrderInv'
  <2>1. Forward' = Forward /\ wire' = wire
    BY <1>1 DEF Forward, Msg
  <2>2. Increasing(<<>>) /\ Ordered(<<>>, Forward)
    BY DEF Increasing, Ordered
  <2> QED
    BY <1>1, <1>2, <2>1, <2>2 DEF OrderInv, Precede
<1> QED
  BY <1>6, <1>7, <1>8, <1>9

LEMMA NextOut ==
    ASSUME OutInv, [Next]_vars
    PROVE  OutInv'
<1>1. ASSUME NEW s \in Src, SendNow(s) PROVE OutInv'
  <2>1. PICK m \in Msg :
            /\ CanWrite /\ Offer(m, s) /\ buffer' = Append(buffer, m)
            /\ outcome' = [outcome EXCEPT ![m] = "ok"]
            /\ UNCHANGED <<waiting, hold_queue, wire, stopped>>
    BY <1>1 DEF SendNow
  <2>2. hold_queue = <<>>
    BY <2>1 DEF CanWrite
  <2> QED
    BY <2>1, <2>2, WrittenOut
<1>2. ASSUME NEW s \in Src, SendHeld(s) PROVE OutInv'
  BY <1>2, SendHeldOut
<1>3. ASSUME NEW s \in Src, GiveUp(s) PROVE OutInv'
  BY <1>3, LeaveOut DEF GiveUp
<1>4. ASSUME NEW s \in Src, Cancel(s) PROVE OutInv'
  BY <1>4, LeaveOut DEF Cancel
<1>5. ASSUME SendReply PROVE OutInv'
  BY <1>5, WrittenOut DEF SendReply
<1>6. ASSUME UNCHANGED vars PROVE OutInv'
  <2>1. TypeOK' /\ HoldInv' /\ TruthInv'
    BY <1>6 DEF OutInv, vars, TypeOK, HoldInv, TruthInv, Msg
  <2>2. OrderInv'
    BY <1>6 DEF OutInv, vars, OrderInv, Forward, Msg
  <2> QED
    BY <2>1, <2>2 DEF OutInv
<1> QED
  BY <1>1, <1>2, <1>3, <1>4, <1>5, <1>6, TransmitOut, BufferEmptyOut, StopOut DEF Next

-----------------------------------------------------------------------------
(* The theorems.                                                           *)

\* The invariant holds: the queues stay ordered and consistent with what the
\* sources of their messages know.
THEOREM OutputInvariant == Spec => []OutInv
  BY InitOut, NextOut, PTL DEF Spec

\* Forwarded messages reach the socket in the order send_message accepted
\* them, across both of its branches and buffer_empty, however many sources
\* interleave and whatever the mark.
THEOREM OutputOrder == Spec => []ForwardedInOrder
<1>1. ASSUME OutInv PROVE ForwardedInOrder
  <2>1. /\ wire \in Seq(Nat) /\ buffer \in Seq(Nat) /\ hold_queue \in Seq(Nat)
        /\ ToSet(wire) \subseteq 1 .. sent /\ ToSet(buffer) \subseteq 1 .. sent
        /\ ToSet(hold_queue) \subseteq 1 .. sent /\ 1 .. sent \subseteq Msg
    BY <1>1, Queues DEF OutInv
  <2> DEFINE wb == wire \o buffer
             st == wb \o hold_queue
  <2>2. wb \in Seq(Nat) /\ ToSet(wb) = ToSet(wire) \cup ToSet(buffer) /\ Ordered(wb, Forward)
    BY <1>1, <2>1, Joined DEF OutInv, OrderInv
  <2>3. Ordered(hold_queue, Forward)
    BY <1>1, <2>1, IncreasingIsOrdered DEF OutInv, OrderInv
  <2> HIDE DEF wb
  <2>4. Precede(ToSet(wb), ToSet(hold_queue), Forward)
    BY <1>1, <2>2 DEF OutInv, OrderInv, Precede
  <2>5. /\ st \in Seq(Nat) /\ ToSet(st) = ToSet(wb) \cup ToSet(hold_queue)
        /\ Ordered(st, Forward)
    BY <2>1, <2>2, <2>3, <2>4, Joined
  <2>6. Stream = st
    BY DEF Stream, st, wb
  <2>7. \A j \in 1 .. Len(st) : st[j] \in Msg
    BY <2>1, <2>2, <2>5, InToSet
  <2> HIDE DEF st
  <2> QED
    BY <2>5, <2>6, <2>7 DEF ForwardedInOrder, Ordered, Forward
<1> QED
  BY <1>1, OutputInvariant, PTL

\* The outcome reported to a source is true: written messages are on their
\* way, lost ones never reach the client, pending ones are still held.
THEOREM OutputTruth == Spec => []OutcomeIsTrue
<1>1. ASSUME OutInv PROVE OutcomeIsTrue
  <2>1. wire \in Seq(Nat) /\ buffer \in Seq(Nat) /\ hold_queue \in Seq(Nat)
    BY <1>1, Queues DEF OutInv
  <2>2. wire \o buffer \in Seq(Nat) /\ ToSet(wire \o buffer) = ToSet(wire) \cup ToSet(buffer)
    BY <2>1, Joined
  <2>3. ToSet(Stream) = ToSet(wire \o buffer) \cup ToSet(hold_queue)
    BY <2>1, <2>2, Joined DEF Stream
  <2> QED
    BY <1>1, <2>2, <2>3 DEF OutInv, TruthInv, OutcomeIsTrue
<1> QED
  BY <1>1, OutputInvariant, PTL

\* A held message is reported lost only when the connection ends or more
\* than high_buffer_mark messages were held.
THEOREM OutputLoss == Spec => LostOnlyOnOverflow
<1>1. ASSUME OutInv, [Next]_vars, NEW m \in Msg, outcome[m] = "pending", outcome'[m] = "lost"
      PROVE  stopped' \/ Len(hold_queue) > HighBufferMark
  <2>1. outcome \in [Msg -> Outcome] /\ m \in ToSet(hold_queue)
    BY <1>1 DEF OutInv, TypeOK, TruthInv
  <2>2. CASE BufferEmpty
    <3>1. m \notin ToSet(Released)
      BY <1>1, <2>1, <2>2 DEF BufferEmpty, Notified
    <3>2. ~(Len(hold_queue) <= HighBufferMark)
      BY <1>1, <2>1, <3>1, ReleasedKeeps DEF OutInv
    <3>3. Len(hold_queue) \in Nat /\ HighBufferMark \in Nat
      BY <1>1, Queues, MarkAssumption DEF OutInv
    <3> QED
      BY <3>2, <3>3
  <2>3. CASE Stop
    BY <2>3 DEF Stop
  <2>4. CASE ~BufferEmpty /\ ~Stop
    <3>1. \/ outcome' = outcome
          \/ \E x \in Msg \cup (0 .. MaxMsg), r \in {"ok", "pending", "timeout", "cancelled"} :
                outcome' = [outcome EXCEPT ![x] = r]
      BY <1>1, <2>4 DEF OutInv, TypeOK, Next, vars, SendNow, SendHeld, SendReply, GiveUp,
         Cancel, Transmit
    <3> QED
      BY <1>1, <2>1, <3>1
  <2> QED
    BY <2>2, <2>3, <2>4
<1>2. ASSUME OutInv, [Next]_vars
      PROVE  [\A m \in Msg :
                 outcome[m] = "pending" /\ outcome'[m] = "lost" =>
                     stopped' \/ Len(hold_queue) > HighBufferMark]_vars
  BY <1>1, <1>2
<1> QED
  BY <1>2, OutputInvariant, PTL DEF Spec, LostOnlyOnOverflow

=============================================================================
