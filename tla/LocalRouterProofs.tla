------------------------- MODULE LocalRouterProofs -------------------------
(***************************************************************************)
(* A process on the bus behind its connection, for all names, requests,    *)
(* services and faults: the lookup of a service (PrefixLookup), the        *)
(* answers to the calls it serves (ServedCalls), and the agreement of its  *)
(* handlers, its RemoteRouter and the GSB router (RemoteRouter).           *)
(***************************************************************************)
EXTENDS RemoteRouter, ServedCalls, PrefixLookup, FiniteSetTheorems, WellFoundedInduction, TLAPS

-----------------------------------------------------------------------------
(* Prefix lookup.                                                          *)

\* A set of positions that is not empty has a last one (str::rfind).
LEMMA LastPosition ==
    ASSUME NEW k \in Nat, NEW S, S \subseteq 1 .. k, S # {}
    PROVE  \E i \in S : \A j \in S : j <= i
<1> DEFINE T == {k - i : i \in S}
<1>1. T \subseteq Nat /\ T # {}
  <2>1. \A i \in S : i \in 1 .. k /\ k - i \in Nat
    OBVIOUS
  <2>2. PICK i \in S : TRUE
    OBVIOUS
  <2>3. k - i \in T
    OBVIOUS
  <2> QED
    BY <2>1, <2>3
<1>2. PICK x \in T : \A y \in T : ~(<<y, x>> \in OpToRel(<, Nat))
  BY <1>1, WFMin, NatLessThanWellFounded, Zenon
<1>3. \A y \in T : ~(y < x)
  BY <1>1, <1>2 DEF OpToRel
<1>4. PICK i \in S : x = k - i
  OBVIOUS
<1>5. ASSUME NEW j \in S PROVE j <= i
  <2>1. ~(k - j < k - i)
    BY <1>3, <1>4
  <2>2. i \in Nat /\ j \in Nat
    OBVIOUS
  <2> QED
    BY <2>1, <2>2
<1> QED
  BY <1>5

\* What RevPrefixes::next leaves: shorter than before, at least as long as
\* anything that ends before a separator, and itself before a separator.
LEMMA CutCorrect ==
    ASSUME LookupTypeOK, n # 0
    PROVE  /\ Cut \in 0 .. (n - 1)
           /\ \A m \in 1 .. (n - 1) : key[m + 1] = Sep => m <= Cut
           /\ Cut = 0 \/ key[Cut + 1] = Sep
<1> USE DEF LookupTypeOK
<1>1. CASE Seps = {}
  BY <1>1 DEF Cut, Seps
<1>2. CASE Seps # {}
  <2> DEFINE last == CHOOSE i \in Seps : \A j \in Seps : j <= i
  <2>1. n \in Nat /\ Seps \subseteq 1 .. n
    BY DEF Seps
  <2>2. last \in Seps /\ \A j \in Seps : j <= last
    <3>1. \E i \in Seps : \A j \in Seps : j <= i
      BY <1>2, <2>1, LastPosition
    <3> QED
      BY <3>1
  <2>3. Cut = last - 1
    BY <1>2 DEF Cut
  <2> HIDE DEF last
  <2>4. last \in 1 .. n /\ key[last] = Sep
    BY <2>2 DEF Seps
  <2>5. ASSUME NEW m \in 1 .. (n - 1), key[m + 1] = Sep PROVE m <= Cut
    <3>1. m + 1 \in Seps
      BY <2>1, <2>5 DEF Seps
    <3> QED
      BY <2>2, <2>3, <2>4, <3>1
  <2> QED
    BY <2>1, <2>3, <2>4, <2>5
<1> QED
  BY <1>1, <1>2

\* The iterator never leaves the address.
THEOREM LookupTypes == LookupSpec => []LookupTypeOK
<1> USE NameAssumption DEF LookupTypeOK
<1>1. LookupInit => LookupTypeOK
  BY DEF LookupInit
<1>2. LookupTypeOK /\ [LookupNext]_lookupVars => LookupTypeOK'
  <2> SUFFICES ASSUME LookupTypeOK, [LookupNext]_lookupVars PROVE LookupTypeOK'
    OBVIOUS
  <2>1. ASSUME NEW k \in Name, Insert(k) \/ Remove(k) PROVE LookupTypeOK'
    BY <2>1 DEF Insert, Remove
  <2>2. ASSUME NEW k \in Name, Get(k) PROVE LookupTypeOK'
    BY <2>2 DEF Get
  <2>3. ASSUME Try PROVE LookupTypeOK'
    <3>1. Cut \in 0 .. (n - 1)
      BY <2>3, CutCorrect DEF Try
    <3>2. SubSeq(key, 1, n) \in Seq(Char)
      OBVIOUS
    <3> QED
      BY <2>3, <3>1, <3>2 DEF Try
  <2>4. ASSUME GiveUp PROVE LookupTypeOK'
    BY <2>4 DEF GiveUp
  <2>5. ASSUME Return PROVE LookupTypeOK'
    <3>1. key' = <<>> /\ n' = 0 /\ result' = Absent /\ pc' = "idle"
              /\ dict' = dict
      BY <2>5 DEF Return
    <3>2. key' \in Seq(Char) /\ Len(key') = 0
      BY <3>1
    <3> QED
      BY <3>1, <3>2
  <2>6. ASSUME UNCHANGED lookupVars PROVE LookupTypeOK'
    BY <2>6 DEF lookupVars
  <2> QED
    BY <2>1, <2>2, <2>3, <2>4, <2>5, <2>6 DEF LookupNext
<1> QED
  BY <1>1, <1>2, PTL DEF LookupSpec

\* One round of the search keeps the loop invariant or ends with the longest
\* bound name.
LEMMA TryCorrect ==
    ASSUME LookupTypeOK, LoopInv, Try
    PROVE  LoopInv' /\ LongestPrefixFound'
<1> USE DEF LookupTypeOK, Try
<1>1. /\ result = Absent
      /\ Covers(n)
      /\ \A m \in 1 .. Len(key) : Covers(m) /\ Bound(m) => m <= n
  BY DEF LoopInv
<1>2. n \in 1 .. Len(key)
  BY <1>1 DEF Covers
<1>3. \A m : (Covers(m)' <=> Covers(m)) /\ (Bound(m)' <=> Bound(m))
  BY DEF Covers, Bound
<1>4. CASE SubSeq(key, 1, n) \in dict
  <2>1. Bound(n) /\ result' = SubSeq(key, 1, n) /\ pc' = "done"
    BY <1>4 DEF Bound
  <2>2. LongestPrefixFound'
    BY <1>1, <1>2, <1>3, <2>1 DEF LongestPrefixFound
  <2> QED
    BY <2>1, <2>2 DEF LoopInv
<1>5. CASE SubSeq(key, 1, n) \notin dict
  <2>1. ~Bound(n) /\ result' = result /\ pc' = "searching"
    BY <1>5 DEF Bound
  <2>2. /\ Cut \in 0 .. (n - 1)
        /\ \A m \in 1 .. (n - 1) : key[m + 1] = Sep => m <= Cut
        /\ Cut = 0 \/ key[Cut + 1] = Sep
    BY CutCorrect
  <2>3. n' = 0 \/ Covers(n)'
    BY <1>2, <2>2 DEF Covers
  <2>4. ASSUME NEW m \in 1 .. Len(key), Covers(m), Bound(m) PROVE m <= n'
    <3>1. m <= n /\ m # n
      BY <1>1, <2>1, <2>4
    <3>2. m \in 1 .. (n - 1) /\ key[m + 1] = Sep
      BY <1>2, <2>4, <3>1 DEF Covers
    <3> QED
      BY <2>2, <3>2
  <2>5. LoopInv'
    BY <1>1, <1>3, <2>1, <2>3, <2>4 DEF LoopInv
  <2> QED
    BY <2>1, <2>5 DEF LongestPrefixFound
<1> QED
  BY <1>4, <1>5

\* A lookup ends with the longest bound name that covers the address, or
\* with nothing if there is none, whatever the address and the table.
THEOREM LookupCorrect == LookupSpec => []LongestPrefixFound
<1> DEFINE Inv == LoopInv /\ LongestPrefixFound
<1>1. LookupInit => Inv
  BY DEF LookupInit, LoopInv, LongestPrefixFound
<1>2. LookupTypeOK /\ Inv /\ [LookupNext]_lookupVars => Inv'
  <2> SUFFICES ASSUME LookupTypeOK, Inv, [LookupNext]_lookupVars PROVE Inv'
    OBVIOUS
  <2>1. ASSUME NEW k \in Name, Insert(k) \/ Remove(k) PROVE Inv'
    BY <2>1 DEF Insert, Remove, LoopInv, LongestPrefixFound
  <2>2. ASSUME NEW k \in Name, Get(k) PROVE Inv'
    <3>1. Len(k) \in Nat
      BY NameAssumption
    <3> QED
      BY <2>2, <3>1 DEF Get, LoopInv, LongestPrefixFound, Covers
  <2>3. ASSUME Try PROVE Inv'
    BY <2>3, TryCorrect
  <2>4. ASSUME GiveUp PROVE Inv'
    BY <2>4 DEF GiveUp, LoopInv, LongestPrefixFound, Covers, Bound, LookupTypeOK
  <2>5. ASSUME Return PROVE Inv'
    BY <2>5 DEF Return, LoopInv, LongestPrefixFound
  <2>6. ASSUME UNCHANGED lookupVars PROVE Inv'
    BY <2>6 DEF lookupVars, LoopInv, LongestPrefixFound, Covers, Bound
  <2> QED
    BY <2>1, <2>2, <2>3, <2>4, <2>5, <2>6 DEF LookupNext
<1> QED
  BY <1>1, <1>2, LookupTypes, PTL DEF LookupSpec

-----------------------------------------------------------------------------
(* Served calls.                                                           *)

IsFull(item) == item.type = "full"

\* A request for which nothing happened yet.
FreshOK(r) ==
    stage[r] \in {"new", "push", "pushed"} => events[r] = <<>> /\ written[r] = <<>> /\ ~got_eos[r]

\* The fold's accumulator tells of the last item.
EosOK(r) ==
    stage[r] = "call" =>
        (got_eos[r] <=> written[r] # <<>> /\ IsFull(written[r][Len(written[r])]))

OneShot == {"absent", "single", "raw"}

\* No full item of the service's own, or in place of a result, so far.
Smooth(r) == "final" \notin Range(events[r]) /\ "unencodable" \notin Range(events[r])

\* Any other full item is the last the service makes.
FullOK(r) ==
    \A i \in 1 .. Len(written[r]) :
        stage[r] = "call" /\ Smooth(r) /\ IsFull(written[r][i]) =>
            /\ endpoint[r] \in OneShot => events[r] # <<>>
            /\ endpoint[r] = "stream" => "fail" \in Range(events[r])
            /\ endpoint[r] # "raw_stream"

\* Nothing is written after it.
LastOK(r) == StopsAtFull(r) => \A i \in 1 .. Len(written[r]) - 1 : ~IsFull(written[r][i])

\* An answer that is over ends with a full item.
OverOK(r) == stage[r] = "over" => written[r] # <<>> /\ IsFull(written[r][Len(written[r])])

\* One of the events is a failure.
Failed(r) == \E e \in Range(events[r]) : Fails(endpoint[r], e)

\* Before a failure nothing is full.
BeforeOK(r) ==
    stage[r] = "call" =>
        /\ endpoint[r] \in OneShot /\ events[r] = <<>> => written[r] = <<>>
        /\ endpoint[r] = "stream" /\ ~Failed(r) => \A i \in 1 .. Len(written[r]) : ~IsFull(written[r][i])

\* The first full item of a failed call says so.
FailOK(r) ==
    Failed(r) =>
        \E i \in 1 .. Len(written[r]) :
            /\ IsFull(written[r][i]) /\ written[r][i].code = "failure"
            /\ \A j \in 1 .. Len(written[r]) : IsFull(written[r][j]) => i <= j

\* No other call has a failure in its answer.
OkOK(r) == ~Failed(r) => \A i \in 1 .. Len(written[r]) : written[r][i].code = "ok"

ServedOK(r) ==
    /\ FreshOK(r) /\ EosOK(r) /\ FullOK(r) /\ LastOK(r) /\ OverOK(r) /\ BeforeOK(r)
    /\ FailOK(r) /\ OkOK(r)

ServedInv == ServedTypeOK /\ \A r \in Req : ServedOK(r)

LEMMA ServedInitInv == ServedInit => ServedInv
<1> SUFFICES ASSUME ServedInit PROVE ServedInv
  OBVIOUS
<1>1. <<>> \in Seq(Event) /\ <<>> \in Seq(Reply)
  OBVIOUS
<1>2. ServedTypeOK
  BY <1>1 DEF ServedInit, ServedTypeOK, Endpoint
<1>3. ASSUME NEW r \in Req
      PROVE  ServedOK(r)
  <2>1. /\ stage[r] = "new" /\ events[r] = <<>> /\ written[r] = <<>> /\ ~got_eos[r]
        /\ Len(written[r]) = 0 /\ Range(events[r]) = {}
    BY DEF ServedInit, Range
  <2>2. FreshOK(r) /\ EosOK(r) /\ FullOK(r) /\ BeforeOK(r) /\ OverOK(r)
    BY <2>1 DEF FreshOK, EosOK, FullOK, BeforeOK, OverOK
  <2>3. LastOK(r) /\ FailOK(r) /\ OkOK(r)
    BY <2>1 DEF LastOK, FailOK, OkOK, Failed
  <2> QED
    BY <2>2, <2>3 DEF ServedOK
<1> QED
  BY <1>2, <1>3 DEF ServedInv

\* A request the step is not about.
LEMMA ServedFrame ==
    ASSUME NEW r \in Req, ServedOK(r), stage'[r] = stage[r], endpoint'[r] = endpoint[r],
           events'[r] = events[r], got_eos'[r] = got_eos[r], written'[r] = written[r]
    PROVE  ServedOK(r)'
<1>1. FreshOK(r)' /\ EosOK(r)' /\ OverOK(r)'
  BY DEF ServedOK, FreshOK, EosOK, OverOK, IsFull
<1>2. FullOK(r)' /\ LastOK(r)'
  BY DEF ServedOK, FullOK, LastOK, IsFull, Smooth, StopsAtFull
<1>3. Failed(r)' <=> Failed(r)
  BY DEF Failed
<1>4. BeforeOK(r)' /\ FailOK(r)' /\ OkOK(r)'
  BY <1>3 DEF ServedOK, BeforeOK, FailOK, OkOK, IsFull
<1> QED
  BY <1>1, <1>2, <1>4 DEF ServedOK

\* What the streams of the endpoints may still do.
LEMMA Happens ==
    ASSUME NEW k \in Endpoint, NEW es, NEW e, MayHappen(k, es, e)
    PROVE  /\ k = "absent" => es = <<>> /\ e = "fail"
           /\ k = "single" => es = <<>> /\ e \in {"value", "error", "fail", "unencodable"}
           /\ k = "raw" => es = <<>> /\ e \in {"value", "error", "fail"}
           /\ k = "stream" => /\ "fail" \notin Range(es)
                              /\ e \in {"value", "error", "fail", "unencodable"}
           /\ k = "raw_stream" => e \in {"value", "error", "final", "fail"}
  BY DEF MayHappen, Endpoint, Encoding

\* What an item tells of its event.
LEMMA Items ==
    ASSUME NEW k \in Endpoint, NEW e \in Event, NEW item \in ItemOf(k, e),
           k = "absent" => e = "fail", k = "raw_stream" => e # "unencodable"
    PROVE  /\ item \in Reply
           /\ Fails(k, e) => IsFull(item) /\ item.code = "failure"
           /\ ~Fails(k, e) => item.code = "ok"
           /\ IsFull(item) => k \in OneShot \/ e \in {"final", "unencodable", "fail"}
           /\ IsFull(item) /\ k = "raw_stream" => e = "final"
<1>1. CASE e = "value" \/ (e = "error" /\ k \in {"single", "stream"})
  <2>1. item = Chunk(k)
    BY <1>1 DEF ItemOf
  <2> QED
    BY <1>1, <2>1 DEF Chunk, Reply, IsFull, Fails, OneShot
<1>2. CASE e = "final"
  <2>1. item = [type |-> "full", code |-> "ok"]
    BY <1>2 DEF ItemOf
  <2> QED
    BY <1>2, <2>1 DEF Reply, IsFull, Fails
<1>3. CASE e = "error" /\ k \notin {"single", "stream"}
  <2>1. k # "raw_stream" /\ item = [type |-> "full", code |-> "failure"]
    BY <1>3 DEF ItemOf
  <2>2. k = "raw"
    BY <1>3, <2>1 DEF Endpoint
  <2> QED
    BY <1>3, <2>1, <2>2 DEF Reply, IsFull, Fails, OneShot
<1>4. CASE e \in {"fail", "unencodable"}
  <2>1. item = [type |-> "full", code |-> "failure"] /\ (e = "fail" => k # "raw_stream")
    BY <1>4 DEF ItemOf
  <2> QED
    BY <1>4, <2>1 DEF Reply, IsFull, Fails
<1> QED
  BY <1>1, <1>2, <1>3, <1>4 DEF Event

\* Only a raw stream's errors add no item.
LEMMA NoItem ==
    ASSUME NEW k \in Endpoint, NEW e \in Event, ItemOf(k, e) = {}
    PROVE  k = "raw_stream" /\ e \in {"error", "fail"}
<1>1. CASE e = "value" \/ (e = "error" /\ k \in {"single", "stream"})
  BY <1>1 DEF ItemOf
<1>2. CASE e = "final"
  BY <1>2 DEF ItemOf
<1>3. CASE e \in {"error", "fail", "unencodable"}
  BY <1>3 DEF ItemOf
<1> QED
  BY <1>1, <1>2, <1>3 DEF Event

\* The range of a sequence that grew.
LEMMA RangeAppend ==
    ASSUME NEW S, NEW s \in Seq(S), NEW x \in S
    PROVE  Range(Append(s, x)) = Range(s) \cup {x}
<1>1. /\ DOMAIN Append(s, x) = 1 .. Len(s) + 1 /\ DOMAIN s = 1 .. Len(s) /\ Len(s) \in Nat
      /\ Append(s, x)[Len(s) + 1] = x /\ \A i \in 1 .. Len(s) : Append(s, x)[i] = s[i]
  OBVIOUS
<1> DEFINE a == Append(s, x)
<1> HIDE DEF a
<1>2. ASSUME NEW y \in Range(a) PROVE y \in Range(s) \cup {x}
  <2>1. PICK i \in 1 .. Len(s) + 1 : y = a[i]
    BY <1>1, <1>2 DEF Range, a
  <2>2. i = Len(s) + 1 \/ i \in 1 .. Len(s)
    BY <1>1
  <2> QED
    BY <1>1, <2>1, <2>2 DEF Range, a
<1>3. ASSUME NEW y \in Range(s) PROVE y \in Range(a)
  <2>1. PICK i \in 1 .. Len(s) : y = s[i]
    BY <1>1, <1>3 DEF Range
  <2>2. a[i] = y /\ i \in DOMAIN a
    BY <1>1, <2>1 DEF a
  <2> QED
    BY <2>2 DEF Range
<1>4. x \in Range(a)
  BY <1>1 DEF Range, a
<1> QED
  BY <1>2, <1>3, <1>4 DEF a

\* One event of the service.
LEMMA ServiceStepInv ==
    ASSUME ServedInv, NEW r \in Req, NEW e \in Event, ServiceStep(r, e)
    PROVE  ServedInv'
<1> DEFINE k == endpoint[r]
           es == events[r]
           w == written[r]
           L == Len(w)
           v == written'[r]
           fs == events'[r]
<1>0. /\ ServedTypeOK /\ ServedOK(r) /\ stage[r] = "call" /\ stage'[r] = "call" /\ endpoint'[r] = k
      /\ k \in Endpoint /\ es \in Seq(Event) /\ w \in Seq(Reply) /\ L \in Nat
  <2>1. ServedTypeOK /\ ServedOK(r) /\ stage[r] = "call" /\ UNCHANGED <<stage, endpoint>>
    BY DEF ServedInv, ServiceStep
  <2>2. w \in Seq(Reply) /\ es \in Seq(Event) /\ k \in Endpoint
    BY <2>1 DEF ServedTypeOK
  <2> QED
    BY <2>1, <2>2
<1>1. /\ events' \in [Req -> Seq(Event)] /\ fs = Append(es, e)
      /\ \A q \in Req : q # r => events'[q] = events[q]
  BY <1>0 DEF ServiceStep, ServedTypeOK
<1>2. Range(fs) = Range(es) \cup {e} /\ fs # <<>>
  <2>1. Append(es, e) # <<>>
    BY <1>0
  <2> QED
    BY <1>0, <1>1, <2>1, RangeAppend
<1>3. MayHappen(k, es, e)
  BY DEF ServiceStep
<1>4. /\ k = "absent" => es = <<>> /\ e = "fail"
      /\ k = "single" => es = <<>> /\ e \in {"value", "error", "fail", "unencodable"}
      /\ k = "raw" => es = <<>> /\ e \in {"value", "error", "fail"}
      /\ k = "stream" => /\ "fail" \notin Range(es)
                         /\ e \in {"value", "error", "fail", "unencodable"}
      /\ k = "raw_stream" => e \in {"value", "error", "final", "fail"}
  BY <1>0, <1>3, Happens
<1>b. (Failed(r)' <=> Failed(r) \/ Fails(k, e)) /\ (es = <<>> => ~Failed(r))
  <2>1. es = <<>> => Range(es) = {}
    BY DEF Range
  <2> QED
    BY <1>0, <1>2, <2>1 DEF Failed, Fails
<1>a. /\ FreshOK(r) /\ EosOK(r) /\ FullOK(r) /\ LastOK(r) /\ OverOK(r) /\ BeforeOK(r)
      /\ FailOK(r) /\ OkOK(r)
  BY <1>0 DEF ServedOK
\* Nothing full has been written yet, unless the service went on after it.
<1>5. StopsAtFull(r)' => \A i \in 1 .. L : ~IsFull(w[i])
  <2> SUFFICES ASSUME StopsAtFull(r)', NEW i \in 1 .. L, IsFull(w[i]) PROVE FALSE
    OBVIOUS
  <2>1. Smooth(r)
    <3>1. Len(fs) - 1 = Len(es) /\ DOMAIN es = 1 .. Len(es) /\ \A j \in 1 .. Len(es) : fs[j] = es[j]
      BY <1>0, <1>1
    <3>2. \A j \in 1 .. Len(es) : es[j] \notin {"final", "unencodable"}
      BY <3>1 DEF StopsAtFull
    <3> QED
      BY <3>1, <3>2 DEF Smooth, Range
  <2>2. /\ k \in OneShot => es # <<>>
        /\ k = "stream" => "fail" \in Range(es)
        /\ k # "raw_stream"
    BY <1>0, <1>a, <2>1 DEF FullOK
  <2> QED
    BY <1>0, <1>4, <2>2 DEF Endpoint, OneShot
\* Less than Smooth(r)' is needed for that.
<1>c. Smooth(r)' => StopsAtFull(r)' /\ e \notin {"final", "unencodable"}
  <2> SUFFICES ASSUME Smooth(r)' PROVE StopsAtFull(r)' /\ e \notin {"final", "unencodable"}
    OBVIOUS
  <2>1. fs \in Seq(Event) /\ DOMAIN fs = 1 .. Len(fs) /\ Len(fs) \in Nat
    BY <1>0, <1>1
  <2>2. \A j \in 1 .. Len(fs) - 1 : fs[j] \in Range(fs)
    BY <2>1 DEF Range
  <2> QED
    BY <1>2, <2>2 DEF Smooth, StopsAtFull
<1>6. CASE ItemOf(k, e) = {}
  <2>1. k = "raw_stream" /\ e \in {"error", "fail"}
    BY <1>0, <1>6, NoItem
  <2>2. UNCHANGED <<got_eos, written>>
    BY <1>6 DEF ServiceStep
  <2>3. ServedTypeOK'
    BY <1>0, <1>1, <2>2 DEF ServedTypeOK, ServiceStep
  <2>4. v = w /\ got_eos'[r] = got_eos[r] /\ (Failed(r)' <=> Failed(r))
    BY <1>b, <2>1, <2>2 DEF Fails
  <2>5. FreshOK(r)' /\ EosOK(r)' /\ OverOK(r)'
    BY <1>0, <1>a, <2>4 DEF FreshOK, EosOK, OverOK
  <2>5a. BeforeOK(r)' /\ FailOK(r)' /\ OkOK(r)'
    BY <1>0, <1>a, <2>1, <2>4 DEF BeforeOK, FailOK, OkOK, IsFull, OneShot
  <2>6. FullOK(r)' /\ LastOK(r)'
    <3>1. StopsAtFull(r)' => \A i \in 1 .. L - 1 : ~IsFull(w[i])
      BY <1>0, <1>5
    <3> QED
      BY <1>5, <1>c, <2>4, <3>1 DEF FullOK, LastOK, IsFull
  <2>7. ASSUME NEW q \in Req
        PROVE  ServedOK(q)'
    <3>1. CASE q = r
      BY <2>5, <2>5a, <2>6, <3>1 DEF ServedOK
    <3>2. CASE q # r
      BY <1>1, <2>2, <3>2, ServedFrame DEF ServedInv, ServiceStep
    <3> QED
      BY <3>1, <3>2
  <2> QED
    BY <2>3, <2>7 DEF ServedInv
<1>7. ASSUME NEW item \in ItemOf(k, e),
             written' = [written EXCEPT ![r] = Append(@, item)],
             got_eos' = [got_eos EXCEPT ![r] = IsEos(r, item)]
      PROVE  ServedInv'
  <2>1. /\ item \in Reply
        /\ Fails(k, e) => IsFull(item) /\ item.code = "failure"
        /\ ~Fails(k, e) => item.code = "ok"
        /\ IsFull(item) => k \in OneShot \/ e \in {"final", "unencodable", "fail"}
        /\ IsFull(item) /\ k = "raw_stream" => e = "final"
    BY <1>0, <1>4, <1>7, Items
  <2>2. /\ written' \in [Req -> Seq(Reply)] /\ v = Append(w, item)
        /\ \A q \in Req : q # r => written'[q] = written[q]
    BY <1>0, <1>7, <2>1 DEF ServedTypeOK
  <2>3. /\ got_eos' \in [Req -> BOOLEAN] /\ (got_eos'[r] <=> IsFull(item))
        /\ \A q \in Req : q # r => got_eos'[q] = got_eos[q]
    BY <1>0, <1>7 DEF ServedTypeOK, IsEos, IsFull
  <2>4. ServedTypeOK'
    BY <1>0, <1>1, <2>2, <2>3 DEF ServedTypeOK, ServiceStep
  <2>5. /\ Len(v) = L + 1 /\ v[L + 1] = item /\ v # <<>>
        /\ \A i \in 1 .. L : v[i] = w[i]
    BY <1>0, <2>1, <2>2, SMTT(40)
  <2>6. \A i \in 1 .. Len(v) : i = L + 1 \/ i \in 1 .. L
    BY <1>0, <2>5
  <2>7. FreshOK(r)' /\ EosOK(r)' /\ OverOK(r)'
    BY <1>0, <2>3, <2>5 DEF FreshOK, EosOK, OverOK, IsFull
  <2>8. FullOK(r)'
    <3> SUFFICES ASSUME NEW i \in 1 .. Len(v), Smooth(r)', IsFull(v[i])
                 PROVE  /\ k \in OneShot => fs # <<>>
                        /\ k = "stream" => "fail" \in Range(fs)
                        /\ k # "raw_stream"
      BY <1>0 DEF FullOK, IsFull
    <3>1. i = L + 1 /\ IsFull(item)
      BY <1>5, <1>c, <2>5, <2>6
    <3> QED
      BY <1>2, <1>c, <2>1, <3>1 DEF OneShot
  <2>9. LastOK(r)'
    <3>1. StopsAtFull(r)' => \A i \in 1 .. Len(v) - 1 : ~IsFull(v[i])
      <4>1. Len(v) - 1 = L
        BY <1>0, <2>5
      <4> QED
        BY <1>5, <2>5, <4>1
    <3> QED
      BY <3>1 DEF LastOK, IsFull
  <2>10. BeforeOK(r)'
    <3>1. ASSUME k = "stream", ~Failed(r)', NEW i \in 1 .. Len(v)
          PROVE  ~IsFull(v[i])
      <4>1. CASE i = L + 1
        <5>1. ~Fails(k, e)
          BY <1>b, <3>1
        <5>2. e \notin {"final", "unencodable", "fail"} /\ k \notin OneShot
          BY <1>4, <3>1, <5>1 DEF Fails, OneShot
        <5> QED
          BY <2>1, <2>5, <4>1, <5>2
      <4>2. CASE i \in 1 .. L
        BY <1>0, <1>a, <1>b, <2>5, <3>1, <4>2 DEF BeforeOK
      <4> QED
        BY <2>6, <4>1, <4>2
    <3> QED
      BY <1>0, <1>2, <3>1 DEF BeforeOK, IsFull
  <2>11. FailOK(r)'
    <3> SUFFICES ASSUME Failed(r)'
                 PROVE  \E i \in 1 .. Len(v) :
                            /\ IsFull(v[i]) /\ v[i].code = "failure"
                            /\ \A j \in 1 .. Len(v) : IsFull(v[j]) => i <= j
      BY DEF FailOK, IsFull
    <3>1. CASE Failed(r)
      <4>1. PICK i \in 1 .. L : /\ IsFull(w[i]) /\ w[i].code = "failure"
                                /\ \A j \in 1 .. L : IsFull(w[j]) => i <= j
        BY <1>a, <3>1 DEF FailOK
      <4>2. i \in 1 .. Len(v) /\ v[i] = w[i] /\ i <= L + 1
        BY <1>0, <2>5
      <4>3. \A j \in 1 .. Len(v) : IsFull(v[j]) => i <= j
        BY <2>5, <2>6, <4>1, <4>2
      <4> QED
        BY <4>1, <4>2, <4>3
    <3>2. CASE ~Failed(r)
      <4>1. Fails(k, e)
        BY <1>b, <3>2
      <4>2. \A j \in 1 .. L : ~IsFull(w[j])
        <5>1. CASE k = "stream"
          BY <1>0, <1>a, <3>2, <5>1 DEF BeforeOK
        <5>2. CASE k \in OneShot
          <6>1. w = <<>>
            BY <1>0, <1>4, <1>a, <5>2 DEF BeforeOK, OneShot
          <6> QED
            BY <6>1
        <5> QED
          BY <1>0, <4>1, <5>1, <5>2 DEF Endpoint, OneShot, Fails
      <4>3. L + 1 \in 1 .. Len(v) /\ IsFull(v[L + 1]) /\ v[L + 1].code = "failure"
        BY <1>0, <2>1, <2>5, <4>1
      <4>4. \A j \in 1 .. Len(v) : IsFull(v[j]) => L + 1 <= j
        BY <1>0, <2>5, <2>6, <4>2
      <4> QED
        BY <4>3, <4>4
    <3> QED
      BY <3>1, <3>2
  <2>11a. OkOK(r)'
    <3> SUFFICES ASSUME ~Failed(r)', NEW i \in 1 .. Len(v) PROVE v[i].code = "ok"
      BY DEF OkOK
    <3>1. item.code = "ok" /\ \A j \in 1 .. L : w[j].code = "ok"
      BY <1>a, <1>b, <2>1 DEF OkOK
    <3> QED
      BY <2>5, <2>6, <3>1
  <2>12. ASSUME NEW q \in Req
         PROVE  ServedOK(q)'
    <3>1. CASE q = r
      BY <2>7, <2>8, <2>9, <2>10, <2>11, <2>11a, <3>1 DEF ServedOK
    <3>2. CASE q # r
      BY <1>1, <2>2, <2>3, <3>2, ServedFrame DEF ServedInv, ServiceStep
    <3> QED
      BY <3>1, <3>2
  <2> QED
    BY <2>4, <2>12 DEF ServedInv
<1> QED
  BY <1>6, <1>7 DEF ServiceStep


\* The end of a stream: a full item closes what is not closed yet.
LEMMA ServiceEndInv ==
    ASSUME ServedInv, NEW r \in Req, ServiceEnd(r)
    PROVE  ServedInv'
<1> DEFINE w == written[r]
           L == Len(w)
           v == written'[r]
           end == [type |-> "full", code |-> "ok"]
<1>0. /\ ServedTypeOK /\ ServedOK(r) /\ stage[r] = "call"
      /\ w \in Seq(Reply) /\ L \in Nat /\ UNCHANGED <<alive, endpoint, events, got_eos>>
  <2>1. ServedTypeOK /\ ServedOK(r) /\ stage[r] = "call" /\ UNCHANGED <<alive, endpoint, events, got_eos>>
    BY DEF ServedInv, ServiceEnd
  <2>2. w \in Seq(Reply)
    BY <2>1 DEF ServedTypeOK
  <2> QED
    BY <2>1, <2>2
<1>1. /\ stage' \in [Req -> {"new", "call", "push", "over", "pushed"}] /\ stage'[r] = "over"
      /\ \A q \in Req : q # r => stage'[q] = stage[q]
  BY <1>0 DEF ServiceEnd, ServedTypeOK
<1>2. end \in Reply /\ IsFull(end)
  BY DEF Reply, IsFull
<1>3. Closing(r) \in Seq(Reply)
  <2>1. <<end>> \in Seq(Reply) /\ <<>> \in Seq(Reply)
    BY <1>2
  <2> QED
    BY <2>1 DEF Closing
<1>4. /\ written' \in [Req -> Seq(Reply)] /\ v = w \o Closing(r)
      /\ \A q \in Req : q # r => written'[q] = written[q]
  <2>1. w \o Closing(r) \in Seq(Reply)
    BY <1>0, <1>3
  <2>2. written \in [Req -> Seq(Reply)] /\ written' = [written EXCEPT ![r] = w \o Closing(r)]
    BY <1>0 DEF ServedTypeOK, ServiceEnd
  <2> QED
    BY <2>1, <2>2
<1>5. ServedTypeOK'
  BY <1>0, <1>1, <1>4 DEF ServedTypeOK
<1>a. EosOK(r) /\ LastOK(r) /\ FailOK(r) /\ OkOK(r) /\ (Failed(r)' <=> Failed(r))
  BY <1>0 DEF ServedOK, Failed
<1>6. FreshOK(r)' /\ EosOK(r)' /\ FullOK(r)' /\ BeforeOK(r)'
  BY <1>1 DEF FreshOK, EosOK, FullOK, BeforeOK
<1>7. LastOK(r)' /\ OverOK(r)' /\ FailOK(r)' /\ OkOK(r)'
  <2>1. CASE got_eos[r]
    <3>1. v = w
      <4>1. Closing(r) = <<>>
        BY <2>1 DEF Closing
      <4> QED
        BY <1>0, <1>4, <4>1
    <3> QED
      <4>1. LastOK(r)' /\ OverOK(r)'
        BY <1>0, <1>1, <1>a, <2>1, <3>1 DEF EosOK, LastOK, OverOK, StopsAtFull
      <4>2. FailOK(r)' /\ OkOK(r)'
        BY <1>a, <3>1 DEF FailOK, OkOK
      <4> QED
        BY <4>1, <4>2
  <2>2. CASE ~got_eos[r]
    <3>1. v = w \o <<end>>
      BY <1>4, <2>2 DEF Closing
    <3> HIDE DEF end
    <3>2. /\ Len(v) = L + 1 /\ v[L + 1] = end /\ v # <<>>
          /\ \A i \in 1 .. L : v[i] = w[i]
      BY <1>0, <1>2, <3>1
    <3>3. LastOK(r)'
      <4> SUFFICES ASSUME StopsAtFull(r), NEW i \in 1 .. L, IsFull(w[i])
                   PROVE  FALSE
        <5>1. Len(v) - 1 = L
          BY <1>0, <3>2
        <5> QED
          BY <1>0, <3>2, <5>1 DEF LastOK, IsFull, StopsAtFull
      <4>1. CASE i = L
        <5>1. w # <<>>
          BY <1>0
        <5> QED
          BY <1>0, <1>a, <2>2, <4>1, <5>1 DEF EosOK
      <4>2. CASE i # L
        <5>1. i \in 1 .. L - 1
          BY <1>0, <4>2
        <5> QED
          BY <1>a, <5>1 DEF LastOK
      <4> QED
        BY <4>1, <4>2
    <3>4. OverOK(r)'
      BY <1>2, <3>2 DEF OverOK, IsFull
    <3>5. \A j \in 1 .. Len(v) : j = L + 1 \/ j \in 1 .. L
      BY <1>0, <3>2
    <3>6. FailOK(r)'
      <4> SUFFICES ASSUME Failed(r)
                   PROVE  \E i \in 1 .. Len(v) :
                              /\ IsFull(v[i]) /\ v[i].code = "failure"
                              /\ \A j \in 1 .. Len(v) : IsFull(v[j]) => i <= j
        BY <1>a DEF FailOK, IsFull
      <4>1. PICK i \in 1 .. L : /\ IsFull(w[i]) /\ w[i].code = "failure"
                                /\ \A j \in 1 .. L : IsFull(w[j]) => i <= j
        BY <1>a DEF FailOK
      <4>2. i \in 1 .. Len(v) /\ v[i] = w[i] /\ i <= L + 1
        BY <1>0, <3>2
      <4>3. \A j \in 1 .. Len(v) : IsFull(v[j]) => i <= j
        BY <3>2, <3>5, <4>1, <4>2
      <4> QED
        BY <4>1, <4>2, <4>3
    <3>7. OkOK(r)'
      <4>1. end.code = "ok"
        BY DEF end
      <4> QED
        BY <1>a, <3>2, <3>5, <4>1 DEF OkOK
    <3> QED
      BY <3>3, <3>4, <3>6, <3>7
  <2> QED
    BY <2>1, <2>2
<1>8. ASSUME NEW q \in Req
      PROVE  ServedOK(q)'
  <2>1. CASE q = r
    BY <1>6, <1>7, <2>1 DEF ServedOK
  <2>2. CASE q # r
    BY <1>0, <1>1, <1>4, <2>2, ServedFrame DEF ServedInv
  <2> QED
    BY <2>1, <2>2
<1> QED
  BY <1>5, <1>8 DEF ServedInv

\* A request that becomes a call or a push.
LEMMA RequestInv ==
    ASSUME ServedInv, NEW r \in Req, NEW k \in Endpoint, NEW s \in {"call", "push"},
           stage[r] = "new", stage' = [stage EXCEPT ![r] = s],
           endpoint' = [endpoint EXCEPT ![r] = k], UNCHANGED <<alive, events, got_eos, written>>
    PROVE  ServedInv'
<1>1. ServedTypeOK /\ ServedOK(r)
  BY DEF ServedInv
<1>2. /\ stage' \in [Req -> {"new", "call", "push", "over", "pushed"}] /\ stage'[r] = s
      /\ endpoint' \in [Req -> Endpoint]
      /\ \A q \in Req : q # r => stage'[q] = stage[q] /\ endpoint'[q] = endpoint[q]
  BY <1>1 DEF ServedTypeOK
<1>3. ServedTypeOK'
  BY <1>1, <1>2 DEF ServedTypeOK
<1>4. /\ events'[r] = <<>> /\ written'[r] = <<>> /\ ~got_eos'[r]
      /\ Len(written'[r]) = 0 /\ Range(events'[r]) = {}
  BY <1>1 DEF ServedOK, FreshOK, Range
<1>5. FreshOK(r)' /\ EosOK(r)' /\ FullOK(r)' /\ BeforeOK(r)' /\ OverOK(r)'
  BY <1>2, <1>4 DEF FreshOK, EosOK, FullOK, BeforeOK, OverOK
<1>6. LastOK(r)' /\ FailOK(r)' /\ OkOK(r)'
  BY <1>4 DEF LastOK, FailOK, OkOK, Failed
<1>7. ASSUME NEW q \in Req
      PROVE  ServedOK(q)'
  <2>1. CASE q = r
    BY <1>5, <1>6, <2>1 DEF ServedOK
  <2>2. CASE q # r
    BY <1>2, <2>2, ServedFrame DEF ServedInv
  <2> QED
    BY <2>1, <2>2
<1> QED
  BY <1>3, <1>7 DEF ServedInv

LEMMA ServedNextInv == ServedInv /\ [ServedNext]_servedVars => ServedInv'
<1> SUFFICES ASSUME ServedInv, [ServedNext]_servedVars PROVE ServedInv'
  OBVIOUS
<1>1. ASSUME NEW r \in Req, NEW k \in Endpoint, HandleCallRequest(r, k) PROVE ServedInv'
  BY <1>1, RequestInv DEF HandleCallRequest
<1>2. ASSUME NEW r \in Req, NEW k \in Endpoint, HandlePushRequest(r, k) PROVE ServedInv'
  BY <1>2, RequestInv DEF HandlePushRequest
<1>3. ASSUME NEW r \in Req, NEW e \in Event, ServiceStep(r, e) PROVE ServedInv'
  BY <1>3, ServiceStepInv
<1>4. ASSUME NEW r \in Req, ServiceEnd(r) PROVE ServedInv'
  BY <1>4, ServiceEndInv
<1>5. ASSUME NEW r \in Req, PushEnd(r) PROVE ServedInv'
  <2>1. /\ stage[r] = "push" /\ stage'[r] = "pushed"
        /\ stage' \in [Req -> {"new", "call", "push", "over", "pushed"}]
        /\ \A q \in Req : q # r => stage'[q] = stage[q]
        /\ UNCHANGED <<alive, endpoint, events, got_eos, written>>
    BY <1>5 DEF PushEnd, ServedInv, ServedTypeOK
  <2>2. ServedTypeOK'
    BY <2>1 DEF ServedInv, ServedTypeOK
  <2>3. ASSUME NEW q \in Req
        PROVE  ServedOK(q)'
    <3>1. CASE q = r
      <4>1. ServedOK(r)
        BY DEF ServedInv
      <4>2. FreshOK(r)' /\ EosOK(r)' /\ FullOK(r)' /\ OverOK(r)' /\ BeforeOK(r)'
        BY <2>1, <4>1 DEF ServedOK, FreshOK, EosOK, FullOK, OverOK, BeforeOK
      <4>3. LastOK(r)' /\ FailOK(r)' /\ OkOK(r)'
        BY <2>1, <4>1 DEF ServedOK, LastOK, FailOK, OkOK, Failed, IsFull, StopsAtFull
      <4> QED
        BY <3>1, <4>2, <4>3 DEF ServedOK
    <3>2. CASE q # r
      BY <2>1, <3>2, ServedFrame DEF ServedInv
    <3> QED
      BY <3>1, <3>2
  <2> QED
    BY <2>2, <2>3 DEF ServedInv
<1>6. ASSUME alive' \in BOOLEAN, UNCHANGED <<stage, endpoint, events, got_eos, written>> PROVE ServedInv'
  <2>1. ServedTypeOK'
    BY <1>6 DEF ServedInv, ServedTypeOK
  <2>2. ASSUME NEW q \in Req
        PROVE  ServedOK(q)'
    BY <1>6, ServedFrame DEF ServedInv
  <2> QED
    BY <2>1, <2>2 DEF ServedInv
<1>7. ASSUME Stop PROVE ServedInv'
  BY <1>6, <1>7 DEF Stop
<1>8. ASSUME UNCHANGED servedVars PROVE ServedInv'
  BY <1>6, <1>8 DEF servedVars, ServedInv, ServedTypeOK
<1> QED
  BY <1>1, <1>2, <1>3, <1>4, <1>5, <1>7, <1>8 DEF ServedNext

\* The inductive invariant of the serving side.
THEOREM ServedInvariant == ServedSpec => []ServedInv
  BY ServedInitInv, ServedNextInv, PTL DEF ServedSpec

\* Every call whose stream is over was closed by a full reply, and nothing
\* follows it if the service stops there (handle_call_request), for any
\* services and any number of items.
THEOREM ServedClosed == ServedSpec => []AnswerIsClosed
<1>1. ServedInv => AnswerIsClosed
  <2> SUFFICES ASSUME ServedInv, NEW r \in Req
               PROVE  /\ stage[r] = "over" =>
                            written[r] # <<>> /\ written[r][Len(written[r])].type = "full"
                      /\ StopsAtFull(r) =>
                            \A i \in 1 .. Len(written[r]) - 1 : written[r][i].type # "full"
    BY DEF AnswerIsClosed
  <2> QED
    BY DEF ServedInv, ServedOK, OverOK, LastOK, IsFull
<1> QED
  BY <1>1, ServedInvariant, PTL

\* A failure of the bus or of a raw handler is the last thing the caller
\* sees, wherever in the answer it happened, and no other answer has a
\* ServiceFailure in it: a typed handler's errors are results (ItemOf).
THEOREM ServedFailure == ServedSpec => []FailureReachesCaller
<1>1. ServedInv => FailureReachesCaller
  <2> SUFFICES ASSUME ServedInv, NEW r \in Req, Failed(r)
               PROVE  Seen(r) # <<>> /\ Seen(r)[Len(Seen(r))].code = "failure"
    BY DEF FailureReachesCaller, ServedInv, ServedOK, OkOK, Failed
  <2> DEFINE w == written[r]
             full == {i \in 1 .. Len(w) : w[i].type = "full"}
             least == CHOOSE i \in full : \A j \in full : i <= j
  <2>1. w \in Seq(Reply) /\ Len(w) \in Nat
    <3>1. w \in Seq(Reply)
      BY DEF ServedInv, ServedTypeOK
    <3> QED
      BY <3>1
  <2>2. PICK x \in full : w[x].code = "failure" /\ \A y \in full : x <= y
    BY DEF ServedInv, ServedOK, FailOK, IsFull
  <2>6. least = x
    <3>1. full \subseteq Nat
      BY <2>1
    <3> HIDE DEF full
    <3>2. least \in full /\ \A y \in full : least <= y
      BY <2>2
    <3> HIDE DEF least
    <3> QED
      BY <2>2, <3>1, <3>2
  <2>7. Seen(r) = SubSeq(w, 1, least)
    BY <2>2 DEF Seen
  <2> HIDE DEF least
  <2>8. least \in 1 .. Len(w) /\ w[least].code = "failure"
    BY <2>2, <2>6
  <2> HIDE DEF full
  <2>9. PICK s : s = SubSeq(w, 1, least)
    OBVIOUS
  <2>10. Len(s) = least /\ s[least] = w[least]
    BY <2>1, <2>8, <2>9
  <2>11. s # <<>>
    BY <2>1, <2>8, <2>10
  <2> QED
    BY <2>7, <2>8, <2>9, <2>10, <2>11
<1> QED
  BY <1>1, ServedInvariant, PTL


-----------------------------------------------------------------------------
(* Remote router.                                                          *)

\* After the messages s, each about one address, have been applied to the
\* set S, address a is a member just if b: the last message about it says
\* so or, if there is none, it is one already.
Tells(s, S, a, b) ==
    /\ \A i \in 1 .. Len(s) :
          s[i].addr = a /\ (\A j \in 1 .. Len(s) : j > i => s[j].addr # a) =>
              (s[i].op # "remove" <=> b)
    /\ (\A i \in 1 .. Len(s) : s[i].addr # a) => (a \in S <=> b)

\* The mailbox tells RemoteRouter of the handlers, but for what an unbind
\* has still to report.
HandlersTold(a) ==
    /\ a \in removing => a \notin handlers
    /\ a \notin removing => Tells(updates, local_bindings, a, a \in handlers)

\* The commands on a live connection tell the router of the bindings.
BindingsTold(a) ==
    connection = "up" /\ phase # "failed" =>
        Tells(commands, registered, a, a \in local_bindings)

RemoteInv ==
    /\ TypeOK
    /\ IsFiniteSet(local_bindings)
    /\ registered \cap Foreign = {}
    /\ \A a \in Addr \ Foreign : BindingsTold(a)

FollowInv == \A a \in Addr : HandlersTold(a)

Command == Update \cup [op : {"join"}, addr : Addr]

\* One more message.
LEMMA TellsAppend ==
    ASSUME NEW U, NEW s \in Seq(U), NEW x \in U, NEW S, NEW a, NEW b, NEW c,
           x.addr # a => Tells(s, S, a, b) /\ c = b,
           x.addr = a => (x.op # "remove" <=> c)
    PROVE  Tells(Append(s, x), S, a, c)
<1> DEFINE L == Len(s)
<1>0. PICK v : v = Append(s, x)
  OBVIOUS
<1>1. L \in Nat /\ Len(v) = L + 1 /\ v[L + 1] = x /\ \A i \in 1 .. L : v[i] = s[i]
  BY <1>0
<1>2. \A i \in 1 .. Len(v) : i = L + 1 \/ i \in 1 .. L
  BY <1>1
<1>3. CASE x.addr = a
  <2>1. ASSUME NEW i \in 1 .. Len(v), \A j \in 1 .. Len(v) : j > i => v[j].addr # a
        PROVE  i = L + 1
    <3>1. L + 1 \in 1 .. Len(v)
      BY <1>1
    <3>2. ~(L + 1 > i)
      BY <1>1, <1>3, <2>1, <3>1
    <3> QED
      BY <1>1, <3>2
  <2>2. L + 1 \in 1 .. Len(v)
    BY <1>1
  <2> QED
    BY <1>0, <1>1, <1>3, <2>1, <2>2 DEF Tells
<1>4. CASE x.addr # a
  <2>1. ASSUME NEW i \in 1 .. Len(v), v[i].addr = a, \A j \in 1 .. Len(v) : j > i => v[j].addr # a
        PROVE  v[i].op # "remove" <=> c
    <3>1. i \in 1 .. L /\ v[i] = s[i]
      BY <1>1, <1>2, <1>4, <2>1
    <3>2. \A j \in 1 .. L : j > i => s[j].addr # a
      BY <1>1, <2>1
    <3> QED
      BY <1>4, <2>1, <3>1, <3>2 DEF Tells
  <2>2. ASSUME \A i \in 1 .. Len(v) : v[i].addr # a
        PROVE  a \in S <=> c
    <3>1. \A i \in 1 .. L : s[i].addr # a
      BY <1>1, <2>2
    <3> QED
      BY <1>4, <3>1 DEF Tells
  <2> QED
    BY <1>0, <2>1, <2>2 DEF Tells
<1> QED
  BY <1>3, <1>4

\* The first message is applied.
LEMMA TellsTail ==
    ASSUME NEW U, NEW s \in Seq(U), s # <<>>, NEW S, NEW T, NEW a, NEW b,
           Tells(s, S, a, b),
           Head(s).addr # a => (a \in T <=> a \in S),
           Head(s).addr = a => (a \in T <=> Head(s).op # "remove")
    PROVE  Tells(Tail(s), T, a, b)
<1> DEFINE L == Len(s)
<1>0. PICK v : v = Tail(s)
  OBVIOUS
<1>1. /\ L \in Nat \ {0} /\ Len(v) = L - 1 /\ Head(s) = s[1]
      /\ \A i \in 1 .. L - 1 : v[i] = s[i + 1]
  BY <1>0
<1>2. \A i \in 1 .. Len(v) : i + 1 \in 1 .. L /\ v[i] = s[i + 1]
  BY <1>1
<1>3. \A j \in 1 .. L : j = 1 \/ (j - 1 \in 1 .. Len(v) /\ s[j] = v[j - 1])
  <2> TAKE j \in 1 .. L
  <2>1. CASE j # 1
    <3>1. j - 1 \in 1 .. L - 1 /\ (j - 1) + 1 = j
      BY <1>1, <2>1
    <3> QED
      BY <1>1, <3>1
  <2> QED
    BY <2>1
<1>4. ASSUME NEW i \in 1 .. Len(v), v[i].addr = a, \A j \in 1 .. Len(v) : j > i => v[j].addr # a
      PROVE  v[i].op # "remove" <=> b
  <2>1. ASSUME NEW j \in 1 .. L, j > i + 1
        PROVE  s[j].addr # a
    <3>1. j # 1 /\ j - 1 > i
      BY <1>1, <2>1
    <3> QED
      BY <1>3, <1>4, <3>1
  <2>2. i + 1 \in 1 .. L /\ s[i + 1].addr = a /\ v[i] = s[i + 1]
    BY <1>2, <1>4
  <2> QED
    BY <2>1, <2>2 DEF Tells
<1>5. ASSUME \A i \in 1 .. Len(v) : v[i].addr # a
      PROVE  a \in T <=> b
  <2>1. \A j \in 1 .. L : j > 1 => s[j].addr # a
    BY <1>1, <1>3, <1>5
  <2>2. 1 \in 1 .. L
    BY <1>1
  <2>3. CASE s[1].addr = a
    <3>1. s[1].op # "remove" <=> b
      BY <2>1, <2>2, <2>3 DEF Tells
    <3> QED
      BY <1>1, <2>3, <3>1
  <2>4. CASE s[1].addr # a
    <3>1. \A j \in 1 .. L : s[j].addr # a
      BY <1>1, <2>1, <2>4
    <3> QED
      BY <1>1, <2>4, <3>1 DEF Tells
  <2> QED
    BY <2>3, <2>4
<1> QED
  BY <1>0, <1>4, <1>5 DEF Tells

\* try_connect tells the router of every binding.
LEMMA JoinsTell ==
    ASSUME NEW S \in SUBSET Addr, IsFiniteSet(S), NEW s \in Joins(S)
    PROVE  s \in Seq(Command) /\ \A a : Tells(s, {}, a, a \in S)
<1>1. Cardinality(S) \in Nat
  BY FS_CardinalityType
<1> DEFINE m == Cardinality(S)
<1> HIDE DEF m
<1>2. PICK f \in Bijection(1 .. m, S) : s = [i \in DOMAIN f |-> [op |-> "join", addr |-> f[i]]]
  BY DEF Joins, m
<1>3. f \in [1 .. m -> S] /\ \A a \in S : \E i \in 1 .. m : f[i] = a
  BY <1>2 DEF Bijection, Injection, Surjection
<1>4. /\ s = [i \in 1 .. m |-> [op |-> "join", addr |-> f[i]]]
      /\ \A i \in 1 .. m : s[i] = [op |-> "join", addr |-> f[i]] /\ s[i] \in Command
  <2>1. DOMAIN f = 1 .. m
    BY <1>3
  <2>2. \A i \in 1 .. m : f[i] \in Addr /\ [op |-> "join", addr |-> f[i]] \in Command
    BY <1>3 DEF Command
  <2> QED
    BY <1>2, <2>1, <2>2
<1>5. s \in Seq(Command) /\ Len(s) = m
  <2>1. m \in Nat
    BY <1>1 DEF m
  <2>2. s \in [1 .. m -> Command]
    BY <1>4
  <2> QED
    BY <2>1, <2>2
<1>6. ASSUME NEW a
      PROVE  Tells(s, {}, a, a \in S)
  <2>1. \A i \in 1 .. Len(s) : s[i].op = "join" /\ s[i].addr = f[i] /\ f[i] \in S
    BY <1>3, <1>4, <1>5
  <2>2. a \in S => \E i \in 1 .. Len(s) : s[i].addr = a
    BY <1>3, <1>5, <2>1
  <2> QED
    BY <2>1, <2>2 DEF Tells
<1> QED
  BY <1>5, <1>6


LEMMA RemoteInitInv == Init => RemoteInv /\ FollowInv
<1> SUFFICES ASSUME Init PROVE RemoteInv /\ FollowInv
  OBVIOUS
<1>1. <<>> \in Seq(Update) /\ <<>> \in Seq(Update \cup [op : {"join"}, addr : Addr])
  OBVIOUS
<1>2. TypeOK
  <2>1. call \in [Call -> CallState]
    BY DEF Init, CallState
  <2>2. 0 \in 0 .. MaxOps /\ 0 \in 0 .. MaxFaults
    BY AddrAssumption
  <2> QED
    BY <1>1, <2>1, <2>2 DEF Init, TypeOK, Phase
<1>3. IsFiniteSet(local_bindings)
  BY FS_EmptySet DEF Init
<1>4. \A a \in Addr : HandlersTold(a)
  <2> TAKE a \in Addr
  <2>1. Len(updates) = 0 /\ updates = <<>> /\ local_bindings = {} /\ handlers = {} /\ removing = {}
    BY DEF Init
  <2> QED
    BY <2>1 DEF HandlersTold, Tells
<1> QED
  BY <1>2, <1>3, <1>4 DEF Init, RemoteInv, BindingsTold, FollowInv

\* A step that leaves bindings, connection and router alone.
LEMMA RemoteFrame ==
    ASSUME RemoteInv, TypeOK', local_bindings' = local_bindings, phase' = phase,
           connection' = connection, commands' = commands, registered' = registered
    PROVE  RemoteInv'
<1>1. \A a \in Addr \ Foreign : BindingsTold(a)'
  BY DEF RemoteInv, BindingsTold
<1> QED
  BY <1>1 DEF RemoteInv

\* A step after which there is no live connection.
LEMMA RemoteDown ==
    ASSUME RemoteInv, TypeOK', local_bindings' = local_bindings, registered' \subseteq registered,
           connection' # "up" \/ phase' = "failed"
    PROVE  RemoteInv'
<1>1. \A a \in Addr \ Foreign : BindingsTold(a)'
  BY DEF BindingsTold
<1> QED
  BY <1>1 DEF RemoteInv

\* A restart leaves nothing on the wire.
LEMMA RestartTypes ==
    ASSUME TypeOK, Restart, UNCHANGED <<local, updates, local_bindings, shutdown>>,
           faults' \in 0 .. MaxFaults
    PROVE  TypeOK' /\ connection' = "none"
<1>1. <<>> \in Seq(Update \cup [op : {"join"}, addr : Addr])
  OBVIOUS
<1>2. call' \in [Call -> CallState]
  BY DEF Restart, TypeOK, CallState
<1>3. phase' \in {"idle", "dialing"} /\ connection' = "none" /\ joining' = {} /\ commands' = <<>>
  BY DEF Restart
<1> QED
  BY <1>1, <1>2, <1>3 DEF TypeOK, Restart, Phase, local

\* Handler<UpdateService> passes on what it records.
LEMMA HandleUpdateInv ==
    ASSUME RemoteInv, HandleUpdate
    PROVE  RemoteInv'
<1> DEFINE u == Head(updates)
<1>0. TypeOK
  BY DEF RemoteInv
<1>1. updates \in Seq(Update) /\ updates # <<>>
  BY <1>0 DEF TypeOK, HandleUpdate
<1>2. u \in Update /\ Tail(updates) \in Seq(Update)
  BY <1>1
<1>3. u.op \in {"add", "remove"} /\ u.addr \in Addr /\ u \in Command
  BY <1>2 DEF Update, Command
<1>4. commands \in Seq(Command)
  BY <1>0 DEF TypeOK, Command
<1>5. /\ updates' = Tail(updates) /\ UNCHANGED <<local, phase, connection, joining, registered, call, shutdown, faults>>
      /\ local_bindings' = IF u.op = "add" THEN local_bindings \cup {u.addr} ELSE local_bindings \ {u.addr}
      /\ commands' = IF connection = "up" THEN Append(commands, u) ELSE commands
  BY DEF HandleUpdate, Recorded
<1> HIDE DEF u
<1>6. commands' \in Seq(Command)
  <2>1. Append(commands, u) \in Seq(Command)
    BY <1>3, <1>4
  <2> QED
    BY <1>4, <1>5, <2>1
<1>7. TypeOK'
  <2>1. local_bindings' \subseteq Addr
    BY <1>0, <1>3, <1>5 DEF TypeOK
  <2>2. updates' \in Seq(Update)
    BY <1>2, <1>5
  <2> QED
    BY <1>0, <1>5, <1>6, <2>1, <2>2 DEF TypeOK, Command, local
<1>8. IsFiniteSet(local_bindings')
  <2>1. IsFiniteSet(local_bindings \cup {u.addr}) /\ IsFiniteSet(local_bindings \ {u.addr})
    BY FS_AddElement, FS_RemoveElement DEF RemoteInv
  <2> QED
    BY <1>5, <2>1
<1>9. ASSUME NEW a \in Addr \ Foreign
      PROVE  BindingsTold(a)'
  <2> SUFFICES ASSUME connection = "up", phase # "failed"
               PROVE  Tells(commands', registered, a, a \in local_bindings')
    BY <1>5 DEF BindingsTold
  <2>1. Tells(commands, registered, a, a \in local_bindings)
    BY DEF RemoteInv, BindingsTold
  <2>2. u.addr # a => (a \in local_bindings' <=> a \in local_bindings)
    BY <1>5
  <2>3. u.addr = a => (u.op # "remove" <=> a \in local_bindings')
    BY <1>3, <1>5
  <2>4. commands' = Append(commands, u)
    BY <1>5
  <2>5. PICK b : b = (a \in local_bindings)
    OBVIOUS
  <2>6. PICK c : c = (a \in local_bindings')
    OBVIOUS
  <2>7. Tells(Append(commands, u), registered, a, c)
    <3>1. u.addr # a => Tells(commands, registered, a, b) /\ c = b
      BY <2>1, <2>2, <2>5, <2>6
    <3>2. u.addr = a => (u.op # "remove" <=> c)
      BY <2>3, <2>6
    <3> QED
      BY <1>3, <1>4, <3>1, <3>2, TellsAppend
  <2> QED
    BY <2>4, <2>6, <2>7
<1> QED
  BY <1>5, <1>7, <1>8, <1>9 DEF RemoteInv

\* The router answers a command.
LEMMA AnsweredInv ==
    ASSUME RemoteInv, UpdateAnswered \/ JoinAnswered
    PROVE  RemoteInv'
<1> DEFINE x == Head(commands)
<1>0. /\ TypeOK /\ connection = "up" /\ commands # <<>> /\ commands' = Tail(commands)
      /\ UNCHANGED <<local, updates, local_bindings, connection, call, shutdown, faults>>
  BY DEF RemoteInv, UpdateAnswered, JoinAnswered
<1>1. commands \in Seq(Command)
  BY <1>0 DEF TypeOK, Command
<1>2. x \in Command /\ Tail(commands) \in Seq(Command)
  BY <1>0, <1>1
<1>3. x.op \in {"add", "remove", "join"} /\ x.addr \in Addr
  BY <1>2 DEF Command, Update
<1>4. CASE JoinAnswered /\ ~Free(x.addr)
  <2>1. phase' = "failed" /\ UNCHANGED <<registered, joining>>
    BY <1>4 DEF JoinAnswered
  <2>2. TypeOK'
    BY <1>0, <1>2, <2>1 DEF TypeOK, Command, Phase, local
  <2> QED
    BY <1>0, <2>1, <2>2, RemoteDown
<1>5. CASE UpdateAnswered \/ (JoinAnswered /\ Free(x.addr))
  <2>1. /\ registered' = IF x.op = "remove" THEN registered \ {x.addr}
                         ELSE registered \cup ({x.addr} \ Foreign)
        /\ joining' \subseteq joining /\ phase' \in {phase, "ready"}
        /\ phase = "failed" => phase' = "failed"
    <3>1. CASE UpdateAnswered
      BY <3>1 DEF UpdateAnswered
    <3>2. CASE JoinAnswered /\ Free(x.addr)
      BY <3>2 DEF JoinAnswered, Free
    <3> QED
      BY <1>5, <3>1, <3>2
  <2>2. phase \in Phase /\ phase # "dialing"
    BY <1>0 DEF TypeOK
  <2>3. TypeOK'
    BY <1>0, <1>2, <1>3, <2>1, <2>2 DEF TypeOK, Command, Phase, local
  <2>4. registered' \cap Foreign = {}
    BY <2>1 DEF RemoteInv
  <2>5. ASSUME NEW a \in Addr \ Foreign
        PROVE  BindingsTold(a)'
    <3> SUFFICES ASSUME phase' # "failed"
                 PROVE  Tells(commands', registered', a, a \in local_bindings)
      BY <1>0 DEF BindingsTold
    <3>1. Tells(commands, registered, a, a \in local_bindings)
      BY <1>0, <2>1 DEF RemoteInv, BindingsTold
    <3>2. x.addr # a => (a \in registered' <=> a \in registered)
      BY <2>1
    <3>3. x.addr = a => (a \in registered' <=> x.op # "remove")
      BY <2>1
    <3>4. PICK R : R = registered'
      OBVIOUS
    <3>5. PICK b : b = (a \in local_bindings)
      OBVIOUS
    <3>6. Tells(Tail(commands), R, a, b)
      BY <1>0, <1>1, <3>1, <3>2, <3>3, <3>4, <3>5, TellsTail
    <3> QED
      BY <1>0, <3>4, <3>5, <3>6
  <2> QED
    BY <1>0, <2>3, <2>4, <2>5 DEF RemoteInv
<1> QED
  BY <1>4, <1>5

LEMMA RemoteNextInv == RemoteInv /\ [Next]_vars => RemoteInv'
<1> SUFFICES ASSUME RemoteInv, [Next]_vars PROVE RemoteInv'
  OBVIOUS
<1>0. TypeOK
  BY DEF RemoteInv
<1>1. ASSUME NEW a \in Addr, Bind(a) \/ TryBindRaw(a) PROVE RemoteInv'
  <2>1. Bind(a)
    BY <1>1 DEF TryBindRaw
  <2>2. updates' \in Seq(Update)
    <3>1. [op |-> "add", addr |-> a] \in Update
      BY DEF Update
    <3> QED
      BY <1>0, <2>1, <3>1 DEF Bind, TypeOK
  <2>3. TypeOK'
    BY <1>0, <2>1, <2>2, AddrAssumption DEF Bind, TypeOK, Counted, remote
  <2> QED
    BY <2>1, <2>3, RemoteFrame DEF Bind, remote
<1>2. ASSUME NEW a \in Addr, ReportRemoved(a) \/ UnbindExact(a) PROVE RemoteInv'
  <2>1. updates' \in Seq(Update)
    <3>1. [op |-> "remove", addr |-> a] \in Update
      BY DEF Update
    <3>2. updates' = Append(updates, [op |-> "remove", addr |-> a])
      BY <1>2 DEF ReportRemoved, UnbindExact
    <3> QED
      BY <1>0, <3>1, <3>2 DEF TypeOK
  <2>2. TypeOK'
    BY <1>0, <1>2, <2>1, AddrAssumption DEF ReportRemoved, UnbindExact, TypeOK, Counted, remote
  <2> QED
    BY <1>2, <2>2, RemoteFrame DEF ReportRemoved, UnbindExact, remote
<1>3. ASSUME NEW matching \in SUBSET handlers, Unbind(matching) PROVE RemoteInv'
  <2>1. TypeOK'
    BY <1>0, <1>3, AddrAssumption DEF Unbind, TypeOK, Counted, remote
  <2> QED
    BY <1>3, <2>1, RemoteFrame DEF Unbind, remote
<1>4. ASSUME Connected PROVE RemoteInv'
  <2>1. /\ commands' \in Joins(local_bindings) /\ registered' = {} /\ joining' = local_bindings
        /\ connection' = "up" /\ phase' \in {"ready", "binding"}
        /\ UNCHANGED <<local, updates, local_bindings, shutdown, faults>>
    BY <1>4 DEF Connected, JoinSet
  <2>2. local_bindings \in SUBSET Addr /\ IsFiniteSet(local_bindings)
    BY DEF RemoteInv, TypeOK
  <2>3. commands' \in Seq(Command) /\ \A a : Tells(commands', {}, a, a \in local_bindings)
    BY <2>1, <2>2, JoinsTell
  <2>4. call' \in [Call -> CallState]
    BY <1>0, <1>4 DEF Connected, TypeOK, CallState
  <2>5. TypeOK'
    BY <1>0, <2>1, <2>3, <2>4 DEF TypeOK, Command, Phase, local
  <2>6. \A a \in Addr \ Foreign : BindingsTold(a)'
    BY <2>1, <2>3 DEF BindingsTold
  <2> QED
    BY <2>1, <2>2, <2>5, <2>6 DEF RemoteInv
<1>5. ASSUME DialFails PROVE RemoteInv'
  <2>1. TypeOK'
    BY <1>0, <1>5, AddrAssumption DEF DialFails, TypeOK, Faulty, Phase, local
  <2> QED
    BY <1>5, <2>1, RemoteDown DEF DialFails
<1>6. ASSUME ConnectTimeout \/ DelayElapsed PROVE RemoteInv'
  <2>1. /\ Restart /\ UNCHANGED <<local, updates, local_bindings, shutdown>>
        /\ faults' \in 0 .. MaxFaults
    BY <1>0, <1>6, AddrAssumption DEF ConnectTimeout, DelayElapsed, Faulty, TypeOK
  <2>2. TypeOK' /\ connection' = "none"
    BY <1>0, <2>1, RestartTypes
  <2> QED
    BY <2>1, <2>2, RemoteDown DEF Restart
<1>7. ASSUME ConnectionLost PROVE RemoteInv'
  <2>1. call' \in [Call -> CallState]
    BY <1>0, <1>7 DEF ConnectionLost, TypeOK, CallState
  <2>2. <<>> \in Seq(Update \cup [op : {"join"}, addr : Addr])
    OBVIOUS
  <2>3. TypeOK'
    BY <1>0, <1>7, <2>1, <2>2, AddrAssumption DEF ConnectionLost, TypeOK, Faulty, Phase, local
  <2> QED
    BY <1>7, <2>3, RemoteDown DEF ConnectionLost
<1>8. ASSUME CtrlC PROVE RemoteInv'
  <2>1. TypeOK'
    BY <1>0, <1>8 DEF CtrlC, TypeOK, local, remote
  <2> QED
    BY <1>8, <2>1, RemoteFrame DEF CtrlC, remote
<1>9. ASSUME HandleUpdate PROVE RemoteInv'
  BY <1>9, HandleUpdateInv
<1>10. ASSUME UpdateAnswered \/ JoinAnswered PROVE RemoteInv'
  BY <1>10, AnsweredInv
<1>11. ASSUME NEW c \in Call, MakeCall(c) \/ HandleCall(c) \/ GrantedCall(c) \/ Answered(c)
       PROVE  RemoteInv'
  <2>1. call' \in [Call -> CallState] /\ UNCHANGED <<local, updates, local_bindings, remote, shutdown, faults>>
    BY <1>0, <1>11 DEF MakeCall, HandleCall, GrantedCall, Answered, OnConnection, TypeOK, CallState
  <2>2. TypeOK'
    BY <1>0, <2>1 DEF TypeOK, local, remote
  <2> QED
    BY <2>1, <2>2, RemoteFrame DEF remote
<1>12. ASSUME UNCHANGED vars PROVE RemoteInv'
  <2>1. TypeOK'
    BY <1>0, <1>12 DEF TypeOK, vars, local, remote
  <2> QED
    BY <1>12, <2>1, RemoteFrame DEF vars, remote
<1> QED
  BY <1>1, <1>2, <1>3, <1>4, <1>5, <1>6, <1>7, <1>8, <1>9, <1>10, <1>11, <1>12 DEF Next


\* One more update in the mailbox, or one fewer to report.
LEMMA TellHandlers ==
    ASSUME RemoteInv, FollowInv, NEW a \in Addr, NEW u \in Update, u.addr = a,
           a \notin removing',
           u.op # "remove" <=> a \in handlers',
           updates' = Append(updates, u), local_bindings' = local_bindings,
           \A q \in Addr : q # a => /\ (q \in handlers' <=> q \in handlers)
                                    /\ (q \in removing' <=> q \in removing)
    PROVE  FollowInv'
<1>1. updates \in Seq(Update)
  BY DEF RemoteInv, TypeOK
<1> SUFFICES ASSUME NEW q \in Addr
             PROVE  HandlersTold(q)'
  BY DEF FollowInv
<1>2. HandlersTold(q)
  BY DEF FollowInv
<1>3. PICK c : c = (q \in handlers')
  OBVIOUS
<1>4. PICK b : b = (q \in handlers)
  OBVIOUS
<1>5. q \notin removing' => Tells(Append(updates, u), local_bindings, q, c)
  <2> SUFFICES ASSUME q \notin removing' PROVE Tells(Append(updates, u), local_bindings, q, c)
    OBVIOUS
  <2>1. u.addr # q => Tells(updates, local_bindings, q, b) /\ c = b
    BY <1>2, <1>3, <1>4 DEF HandlersTold
  <2>2. u.addr = q => (u.op # "remove" <=> c)
    BY <1>3
  <2> QED
    BY <1>1, <2>1, <2>2, TellsAppend
<1>6. q \in removing' => q \notin handlers'
  BY <1>2 DEF HandlersTold
<1> QED
  BY <1>3, <1>5, <1>6 DEF HandlersTold

\* With every unbind awaited before the next bind, the mailbox tells of the
\* handlers.
LEMMA FollowNextInv ==
    ASSUME ~LazyUnbind
    PROVE  RemoteInv /\ FollowInv /\ [Next]_vars => FollowInv'
<1> SUFFICES ASSUME RemoteInv, FollowInv, [Next]_vars PROVE FollowInv'
  OBVIOUS
<1>1. ASSUME NEW a \in Addr, Bind(a) \/ TryBindRaw(a) PROVE FollowInv'
  <2>1. Bind(a) /\ a \notin removing
    BY <1>1 DEF TryBindRaw, Bind, MayBind
  <2>2. PICK u : u = [op |-> "add", addr |-> a]
    OBVIOUS
  <2>3. u \in Update /\ u.addr = a /\ u.op # "remove"
    BY <2>2 DEF Update
  <2>4. /\ updates' = Append(updates, u) /\ local_bindings' = local_bindings /\ removing' = removing
        /\ handlers' = handlers \cup {a}
    BY <2>1, <2>2 DEF Bind
  <2> QED
    BY <2>1, <2>3, <2>4, TellHandlers
<1>2. ASSUME NEW a \in Addr, ReportRemoved(a) \/ UnbindExact(a) PROVE FollowInv'
  <2>1. PICK u : u = [op |-> "remove", addr |-> a]
    OBVIOUS
  <2>2. u \in Update /\ u.addr = a /\ u.op = "remove"
    BY <2>1 DEF Update
  <2>3. HandlersTold(a)
    BY DEF FollowInv
  <2>4. /\ updates' = Append(updates, u) /\ local_bindings' = local_bindings
        /\ a \notin removing' /\ a \notin handlers'
        /\ handlers' \in {handlers, handlers \ {a}} /\ removing' \in {removing, removing \ {a}}
    BY <1>2, <2>1, <2>3 DEF ReportRemoved, UnbindExact, HandlersTold
  <2>5. \A q \in Addr : q # a => /\ (q \in handlers' <=> q \in handlers)
                                 /\ (q \in removing' <=> q \in removing)
    BY <2>4
  <2> QED
    BY <2>2, <2>4, <2>5, TellHandlers
<1>3. ASSUME NEW matching \in SUBSET handlers, Unbind(matching) PROVE FollowInv'
  <2>1. /\ handlers' = handlers \ matching /\ removing' = removing \cup matching
        /\ updates' = updates /\ local_bindings' = local_bindings
    BY <1>3 DEF Unbind
  <2> SUFFICES ASSUME NEW q \in Addr
               PROVE  HandlersTold(q)'
    BY DEF FollowInv
  <2>2. HandlersTold(q)
    BY DEF FollowInv
  <2>3. q \in removing' => q \notin handlers'
    BY <2>1, <2>2 DEF HandlersTold
  <2>4. q \notin removing' => q \notin removing /\ (q \in handlers') = (q \in handlers)
    BY <2>1
  <2> QED
    BY <2>1, <2>2, <2>3, <2>4 DEF HandlersTold
<1>4. ASSUME HandleUpdate PROVE FollowInv'
  <2>1. updates \in Seq(Update) /\ updates # <<>>
    BY <1>4 DEF RemoteInv, TypeOK, HandleUpdate
  <2>2. PICK u \in Update : u = Head(updates)
    BY <2>1
  <2>3. u.op \in {"add", "remove"}
    BY DEF Update
  <2>4. /\ updates' = Tail(updates) /\ handlers' = handlers /\ removing' = removing
        /\ local_bindings' = IF u.op = "add" THEN local_bindings \cup {u.addr} ELSE local_bindings \ {u.addr}
    BY <1>4, <2>2 DEF HandleUpdate, Recorded, local
  <2> SUFFICES ASSUME NEW q \in Addr
               PROVE  HandlersTold(q)'
    BY DEF FollowInv
  <2>5. HandlersTold(q)
    BY DEF FollowInv
  <2>6. PICK T : T = local_bindings'
    OBVIOUS
  <2>7. PICK b : b = (q \in handlers)
    OBVIOUS
  <2>8. /\ u.addr # q => (q \in T <=> q \in local_bindings)
        /\ u.addr = q => (q \in T <=> u.op # "remove")
    BY <2>3, <2>4, <2>6
  <2>9. q \notin removing => Tells(Tail(updates), T, q, b)
    BY <2>1, <2>2, <2>5, <2>7, <2>8, TellsTail DEF HandlersTold
  <2> QED
    BY <2>4, <2>5, <2>6, <2>7, <2>9 DEF HandlersTold
<1>5. ASSUME handlers' = handlers, removing' = removing, updates' = updates,
             local_bindings' = local_bindings
      PROVE  FollowInv'
  BY <1>5 DEF FollowInv, HandlersTold
<1>6. ASSUME Connected \/ DialFails \/ ConnectTimeout \/ DelayElapsed \/ ConnectionLost \/ CtrlC
      PROVE  FollowInv'
  BY <1>5, <1>6 DEF Connected, DialFails, ConnectTimeout, DelayElapsed, ConnectionLost, CtrlC, local
<1>7. ASSUME UpdateAnswered \/ JoinAnswered PROVE FollowInv'
  BY <1>5, <1>7 DEF UpdateAnswered, JoinAnswered, local
<1>8. ASSUME NEW c \in Call, MakeCall(c) \/ HandleCall(c) \/ GrantedCall(c) \/ Answered(c)
      PROVE  FollowInv'
  BY <1>5, <1>8 DEF MakeCall, HandleCall, GrantedCall, Answered, local
<1>9. ASSUME UNCHANGED vars PROVE FollowInv'
  BY <1>5, <1>9 DEF vars, local
<1> QED
  BY <1>1, <1>2, <1>3, <1>4, <1>6, <1>7, <1>8, <1>9 DEF Next

\* The inductive invariant of RemoteRouter and the router's table.
THEOREM RemoteInvariant == Spec => []RemoteInv
  BY RemoteInitInv, RemoteNextInv, PTL DEF Spec

\* Once every command on a live connection is answered, the router has
\* registered what is bound and free, and nothing else: for any services,
\* faults, and interleavings of try_connect with Handler<UpdateService>.
THEOREM RouterFollows == Spec => []RouterFollowsBindings
<1>1. RemoteInv => RouterFollowsBindings
  <2> SUFFICES ASSUME RemoteInv, connection = "up", phase # "failed", commands = <<>>
               PROVE  registered = local_bindings \ Foreign
    BY DEF RouterFollowsBindings
  <2>1. registered \subseteq Addr /\ local_bindings \subseteq Addr /\ registered \cap Foreign = {}
    BY DEF RemoteInv, TypeOK
  <2>2. \A a \in Addr \ Foreign : a \in registered <=> a \in local_bindings
    <3> TAKE a \in Addr \ Foreign
    <3>1. Tells(commands, registered, a, a \in local_bindings)
      BY DEF RemoteInv, BindingsTold
    <3>2. Len(commands) = 0
      OBVIOUS
    <3> QED
      BY <3>1, <3>2 DEF Tells
  <2> QED
    BY <2>1, <2>2
<1> QED
  BY <1>1, RemoteInvariant, PTL

\* Once the mailbox is empty, RemoteRouter's bindings are the handlers of
\* the local router, when every unbind is awaited before its address is
\* bound again.
THEOREM BindingsFollow ==
    ASSUME ~LazyUnbind
    PROVE  Spec => []BindingsFollowHandlers
<1>1. RemoteInv /\ FollowInv => BindingsFollowHandlers
  <2> SUFFICES ASSUME RemoteInv, FollowInv, updates = <<>>, removing = {}
               PROVE  local_bindings = handlers
    BY DEF BindingsFollowHandlers
  <2>1. handlers \subseteq Addr /\ local_bindings \subseteq Addr
    BY DEF RemoteInv, TypeOK
  <2>2. \A a \in Addr : a \in local_bindings <=> a \in handlers
    <3> TAKE a \in Addr
    <3>1. Tells(updates, local_bindings, a, a \in handlers)
      BY DEF FollowInv, HandlersTold
    <3>2. Len(updates) = 0
      OBVIOUS
    <3> QED
      BY <3>1, <3>2 DEF Tells
  <2> QED
    BY <2>1, <2>2
<1>2. Init => FollowInv
  BY RemoteInitInv
<1>3. RemoteInv /\ FollowInv /\ [Next]_vars => FollowInv'
  BY FollowNextInv
<1> QED
  BY <1>1, <1>2, <1>3, RemoteInvariant, PTL DEF Spec
=============================================================================
