------------------------ MODULE InputMonitorProofs ------------------------
(***************************************************************************)
(* The input of a router connection.  The decoder of Framing is correct    *)
(* for every number and size of messages and every way the stream is cut   *)
(* into pieces; the ping timer of InputMonitor stops only silent           *)
(* connections and keeps those that answer, for all periods that           *)
(* TimeAssumption allows.                                                  *)
(***************************************************************************)
EXTENDS InputMonitor, TLAPS

-----------------------------------------------------------------------------
(* Framing.                                                                *)

\* Sizes and offsets are numbers, and frame k ends where frame k + 1 starts.
LEMMA Numbers ==
    ASSUME NEW k \in 1 .. N
    PROVE  /\ Size[k] \in Nat /\ Size[k] < Limit
           /\ Offset[k] \in Nat /\ Offset[k + 1] \in Nat
           /\ Offset[k + 1] = Offset[k] + HeaderLen + Size[k]
  BY SizeAssumption, OffsetAssumption

\* A number below the modulus is its own remainder.
LEMMA SmallRemainder ==
    ASSUME NEW a \in Nat, NEW b \in Nat, a < b
    PROVE  a % b = a
  BY SMT

\* No two frames start at the same position.
LEMMA OneFramePerOffset ==
    ASSUME NEW j \in 1 .. N, NEW k \in 1 .. N, Offset[j] = Offset[k]
    PROVE  j = k
<1>1. j \in 1 .. N + 1 /\ k \in 1 .. N + 1 /\ j \in Nat /\ k \in Nat
  BY SizeAssumption
<1>2. Offset[j] \in Nat /\ Offset[k] \in Nat
  BY <1>1, OffsetAssumption
<1>3. ASSUME j < k PROVE FALSE
  <2>1. Offset[j] + HeaderLen < Offset[k]
    BY <1>1, <1>3, OffsetAssumption
  <2> QED
    BY <1>2, <2>1 DEF HeaderLen
<1>4. ASSUME k < j PROVE FALSE
  <2>1. Offset[k] + HeaderLen < Offset[j]
    BY <1>1, <1>4, OffsetAssumption
  <2> QED
    BY <1>2, <2>1 DEF HeaderLen
<1> QED
  BY <1>1, <1>3, <1>4

\* The header at the start of a frame is the frame's size: only one frame
\* starts there and its size is below the limit.
LEMMA HeaderOfFrame ==
    ASSUME NEW k \in 1 .. N
    PROVE  HeaderAt(Offset[k]) = Size[k]
<1>1. (CHOOSE j \in 1 .. N : Offset[j] = Offset[k]) = k
  BY OneFramePerOffset
<1>2. Size[k] \in Nat /\ Limit \in Nat /\ Size[k] < Limit
  BY Numbers, SizeAssumption
<1>3. Size[k] % Limit = Size[k]
  BY <1>2, SmallRemainder
<1> QED
  BY <1>1, <1>3 DEF HeaderAt

\* Nothing but message k lies behind the header of frame k.
LEMMA PacketOfFrame ==
    ASSUME NEW k \in 1 .. N
    PROVE  PacketAt(Offset[k] + HeaderLen, Size[k]) = {k} \ Unknown
<1>1. ASSUME NEW j \in 1 .. N, Offset[k] + HeaderLen = Offset[j] + HeaderLen
      PROVE  j = k
  <2>1. Offset[j] \in Nat /\ Offset[k] \in Nat
    BY Numbers
  <2>2. Offset[j] = Offset[k]
    BY <1>1, <2>1 DEF HeaderLen
  <2> QED
    BY <2>2, OneFramePerOffset
<1> QED
  BY <1>1 DEF PacketAt

\* The decoder starts in step with the stream.
LEMMA InStepInit == Init => DecoderInStep
<1> SUFFICES ASSUME Init PROVE DecoderInStep
  OBVIOUS
<1>1. Len(decoded) = 0 /\ decoded \in Seq(1 .. N)
  BY DEF Init
<1>2. Offset[0 + 1] = 0 /\ N \in Nat /\ Limit \in 0 .. Limit
  BY SizeAssumption, OffsetAssumption
<1>3. TypeOK
  <2>1. failed \in BOOLEAN
    BY DEF Init
  <2>2. sent \in 0 .. N /\ arrived \in Nat /\ taken \in 0 .. arrived
    BY <1>2 DEF Init
  <2> QED
    BY <1>1, <1>2, <2>1, <2>2 DEF Init, TypeOK, NoHeader
<1>4. DecodedIsSent
  BY <1>1 DEF Init, DecodedIsSent
<1> QED
  BY <1>1, <1>2, <1>3, <1>4 DEF Init, DecoderInStep, NoHeader

\* Every step keeps it there.
LEMMA InStepNext == DecoderInStep /\ [Next]_vars => DecoderInStep'
<1> SUFFICES ASSUME DecoderInStep, [Next]_vars PROVE DecoderInStep'
  OBVIOUS
<1> USE SizeAssumption DEF NoHeader
<1>0. /\ sent \in 0 .. N /\ arrived \in Nat /\ taken \in 0 .. arrived
      /\ msg_header \in 0 .. Limit /\ decoded \in Seq(1 .. N)
      /\ failed \in BOOLEAN /\ Len(decoded) \in Nat /\ Len(decoded) <= sent
      /\ Offset[sent + 1] \in Nat
  BY OffsetAssumption DEF DecoderInStep, TypeOK, DecodedIsSent
<1>1. CASE Encode
  <2>1. sent + 1 \in 1 .. N
    BY <1>0, <1>1 DEF Encode
  <2>2. Offset[sent + 1] <= Offset[sent + 1 + 1]
    BY <2>1, Numbers, SMTT(40) DEF HeaderLen
  <2>3. arrived <= Offset[sent' + 1]
    BY <1>0, <1>1, <2>1, <2>2, Numbers DEF Encode, DecoderInStep
  <2> QED
    BY <1>0, <1>1, <2>1, <2>3, SMTT(40) DEF Encode, DecoderInStep, TypeOK, DecodedIsSent
<1>2. ASSUME NEW upto \in 1 .. Offset[N + 1], Arrive(upto)
      PROVE  DecoderInStep'
  <2>1. upto \in Nat
    BY OffsetAssumption
  <2> QED
    BY <1>0, <1>2, <2>1 DEF Arrive, DecoderInStep, TypeOK, DecodedIsSent
<1>3. CASE DecodeHeader
  <2> DEFINE d == Len(decoded) + 1
  <2>1. taken = Offset[d] /\ ~failed
    BY <1>3 DEF DecodeHeader, HeaderReady, DecoderInStep
  <2>2. arrived - taken >= HeaderLen /\ arrived <= Offset[sent + 1]
    BY <1>3 DEF DecodeHeader, HeaderReady, DecoderInStep
  <2>3. Len(decoded) # sent
    BY <1>0, <2>1, <2>2 DEF HeaderLen
  <2>4. d \in 1 .. N /\ Len(decoded) < sent
    BY <1>0, <2>3
  <2>5. msg_header' = Size[d]
    BY <1>3, <2>1, <2>4, HeaderOfFrame DEF DecodeHeader
  <2>6. msg_header' \in 0 .. Limit /\ msg_header' # Limit
    BY <2>4, <2>5, Numbers
  <2>7. taken' \in 0 .. arrived /\ taken' = Offset[d] + HeaderLen
    BY <1>0, <1>3, <2>1, <2>2, SMTT(40) DEF DecodeHeader, HeaderLen
  <2> QED
    BY <1>0, <1>3, <2>1, <2>4, <2>5, <2>6, <2>7
    DEF DecodeHeader, DecoderInStep, TypeOK, DecodedIsSent
<1>4. CASE DecodeBody
  <2> DEFINE d == Len(decoded) + 1
  <2>1. /\ ~failed /\ Len(decoded) < sent
        /\ taken = Offset[d] + HeaderLen /\ msg_header = Size[d]
    BY <1>4 DEF DecodeBody, BodyReady, DecoderInStep
  <2>2. d \in 1 .. N
    BY <1>0, <2>1
  <2>3. PacketAt(taken, msg_header) = {d} \ Unknown
    BY <2>1, <2>2, PacketOfFrame
  <2>4. taken' \in 0 .. arrived /\ taken' = Offset[d + 1]
    <3>1. /\ Size[d] \in Nat /\ Offset[d] \in Nat
          /\ Offset[d + 1] = Offset[d] + HeaderLen + Size[d]
      BY <2>2, Numbers
    <3>2. taken' = taken + msg_header /\ arrived >= taken + msg_header
      BY <1>4 DEF DecodeBody, BodyReady
    <3>3. msg_header \in Nat /\ taken \in Nat /\ arrived \in Nat
      BY <1>0
    <3>4. taken + msg_header \in 0 .. arrived
      BY <3>2, <3>3
    <3>5. taken + msg_header = Offset[d + 1]
      BY <2>1, <3>1
    <3> QED
      BY <3>2, <3>4, <3>5
  <2>5. CASE d \notin Unknown
    <3>1. decoded' = Append(decoded, d) /\ msg_header' = NoHeader /\ failed' = failed
      BY <1>4, <2>3, <2>5 DEF DecodeBody
    <3>2. /\ decoded' \in Seq(1 .. N) /\ Len(decoded') = d
          /\ \A i \in 1 .. d : decoded'[i] = i
      BY <1>0, <2>2, <3>1, SMTT(40) DEF DecoderInStep, DecodedIsSent
    <3>3. sent' = sent /\ arrived' = arrived
      BY <1>4 DEF DecodeBody
    <3>4. TypeOK'
      BY <1>0, <2>4, <3>1, <3>2, <3>3 DEF TypeOK
    <3>5. DecodedIsSent'
      BY <1>0, <2>1, <3>1, <3>2, <3>3, SMTT(40) DEF DecodedIsSent
    <3> QED
      BY <2>4, <3>1, <3>2, <3>3, <3>4, <3>5 DEF DecoderInStep
  <2>6. CASE d \in Unknown
    <3>1. decoded' = decoded /\ msg_header' = msg_header /\ failed' = TRUE
      BY <1>4, <2>3, <2>6 DEF DecodeBody
    <3> QED
      BY <1>0, <1>4, <2>1, <2>2, <2>4, <2>6, <3>1
      DEF DecodeBody, DecoderInStep, TypeOK, DecodedIsSent
  <2> QED
    BY <2>5, <2>6
<1>5. CASE UNCHANGED vars
  BY <1>5 DEF vars, DecoderInStep, TypeOK, DecodedIsSent
<1> QED
  BY <1>1, <1>2, <1>3, <1>4, <1>5 DEF Next

\* GsbMessageDecoder is always at the start of a frame or behind a header
\* whose length it remembers, for every sequence of messages and pieces.
THEOREM InStep == Spec => []DecoderInStep
  BY InStepInit, InStepNext, PTL DEF Spec

\* decode returns what was encoded, in order and once, and fails only at a
\* message whose type the receiver does not know.
THEOREM DecoderCorrect == Spec => []DecodedIsSent
<1>1. DecoderInStep => DecodedIsSent
  BY DEF DecoderInStep
<1> QED
  BY <1>1, InStep, PTL

-----------------------------------------------------------------------------
(* Time.                                                                   *)

\* The inductive invariant: types, the decoder's position, and time.
MonInv == MonTypeOK /\ DecoderInStep /\ TimeInv

\* The types of what the steps compare.
LEMMA MonTypes ==
    ASSUME MonTypeOK
    PROVE  /\ PingInterval \in Nat \ {0} /\ PingTimeout \in Nat
           /\ ForwardTimeout \in Nat /\ AnswerTime \in Nat
           /\ 3 * PingInterval <= 2 * PingTimeout /\ AnswerTime < PingInterval
           /\ None \notin Nat
           /\ MaxTime = PingTimeout + PingInterval + 1
           /\ held \in Nat /\ held <= MaxTime
           /\ since \in Nat /\ since <= MaxTime
           /\ timer \in Nat /\ timer <= PingInterval
           /\ quiet \in Nat /\ quiet <= PingTimeout + 1
           /\ asked = None \/ (asked \in Nat /\ asked <= AnswerTime + 1)
  BY TimeAssumption DEF MonTypeOK, MaxTime

\* The decoder has taken all complete messages it returned, and frames do
\* not overlap.
LEMMA Positions ==
    ASSUME DecoderInStep
    PROVE  /\ Len(decoded) \in Nat /\ Len(decoded) <= N /\ N \in Nat
           /\ arrived \in Nat
           /\ Offset[Len(decoded) + 1] \in Nat
           /\ ~failed => Offset[Len(decoded) + 1] <= arrived
           /\ Len(decoded) < N => /\ Offset[Len(decoded) + 2] \in Nat
                                  /\ Offset[Len(decoded) + 1] + HeaderLen
                                         < Offset[Len(decoded) + 2]
<1> USE SizeAssumption DEF NoHeader
<1>1. /\ sent \in 0 .. N /\ arrived \in Nat /\ taken \in 0 .. arrived
      /\ decoded \in Seq(1 .. N) /\ Len(decoded) \in Nat /\ Len(decoded) <= sent
  BY DEF DecoderInStep, TypeOK, DecodedIsSent
<1>2. Len(decoded) + 1 \in 1 .. N + 1
  BY <1>1
<1>3. Offset[Len(decoded) + 1] \in Nat
  BY <1>2, OffsetAssumption
<1>4. ~failed => Offset[Len(decoded) + 1] <= arrived
  BY <1>1, <1>3 DEF DecoderInStep, HeaderLen
<1>5. ASSUME Len(decoded) < N
      PROVE  /\ Offset[Len(decoded) + 2] \in Nat
             /\ Offset[Len(decoded) + 1] + HeaderLen < Offset[Len(decoded) + 2]
  <2>1. Len(decoded) + 2 \in 1 .. N + 1 /\ Len(decoded) + 1 < Len(decoded) + 2
    BY <1>1, <1>5
  <2> QED
    BY <1>2, <2>1, OffsetAssumption
<1> QED
  BY <1>1, <1>3, <1>4, <1>5

\* A complete message that is not read makes the input stream ready.
LEMMA WaitingIsReady ==
    ASSUME DecoderInStep, ~failed, Waiting
    PROVE  HeaderReady \/ BodyReady
<1> DEFINE d == Len(decoded)
<1>1. /\ d \in Nat /\ d < N /\ N \in Nat /\ arrived \in Nat
      /\ Offset[d + 1] \in Nat /\ Offset[d + 2] \in Nat
      /\ Offset[d + 1] + HeaderLen < Offset[d + 2] /\ Offset[d + 2] <= arrived
  BY Positions DEF Waiting
<1>2. CASE msg_header = NoHeader
  <2>1. taken = Offset[d + 1]
    BY <1>2 DEF DecoderInStep
  <2> QED
    BY <1>1, <1>2, <2>1 DEF HeaderReady, HeaderLen
<1>3. CASE msg_header # NoHeader
  <2>1. taken = Offset[d + 1] + HeaderLen /\ msg_header = Size[d + 1]
    BY <1>3 DEF DecoderInStep
  <2>2. d + 1 \in 1 .. N
    BY <1>1
  <2>3. Offset[d + 2] = Offset[d + 1] + HeaderLen + Size[d + 1] /\ Size[d + 1] \in Nat
    BY <1>1, <2>2, Numbers
  <2> QED
    BY <1>1, <1>3, <2>1, <2>3 DEF BodyReady
<1> QED
  BY <1>2, <1>3

\* The connection starts in the invariant.
LEMMA MonInvInit == MonInit => MonInv
<1> SUFFICES ASSUME MonInit PROVE MonInv
  OBVIOUS
<1>1. DecoderInStep
  BY InStepInit DEF MonInit
<1>2. MonTypeOK
  <2>1. Len(kind) = 0 /\ kind \in Seq(Kind)
    BY DEF MonInit
  <2>2. TypeOK /\ sent = 0
    BY <1>1 DEF DecoderInStep, MonInit, Init
  <2> QED
    BY <2>1, <2>2, TimeAssumption DEF MonInit, MonTypeOK, MaxTime
<1>3. TimeInv
  <2>1. ~Waiting
    <3>1. Len(decoded) = 0 /\ arrived = 0 /\ ~failed
      BY DEF MonInit, Init
    <3> QED
      BY <1>1, <3>1, Positions DEF Waiting, HeaderLen
  <2>2. failed = FALSE
    BY DEF MonInit, Init
  <2> QED
    BY <2>1, <2>2, TimeAssumption
    DEF MonInit, TimeInv, OnlySilentIsKilled, AnsweringIsKept, Runs
<1> QED
  BY <1>1, <1>2, <1>3 DEF MonInv

\* A step of the monitored connection is a step of its decoder or none.
LEMMA MonStepIsFraming == [MonNext]_monVars => [Next]_vars
<1> SUFFICES ASSUME [MonNext]_monVars PROVE [Next]_vars
  OBVIOUS
<1>1. CASE UNCHANGED monVars
  BY <1>1 DEF monVars
<1>2. ASSUME NEW t \in Kind, Send(t) PROVE Next
  BY <1>2 DEF Send, Next
<1>3. ASSUME NEW upto \in 1 .. Offset[N + 1], Receive(upto) PROVE Next
  BY <1>3 DEF Receive, Next
<1>4. CASE ReadHeader
  BY <1>4 DEF ReadHeader, Next
<1>5. CASE ReadMessage
  BY <1>5 DEF ReadMessage, Next
<1>6. CASE HangUp \/ Forwarded \/ Fire \/ Tick
  BY <1>6 DEF HangUp, Forwarded, Fire, Tick
<1> QED
  BY <1>1, <1>2, <1>3, <1>4, <1>5, <1>6 DEF MonNext

\* Every step keeps the decoder in step and the types.
LEMMA MonTypeNext ==
    ASSUME MonInv, [MonNext]_monVars
    PROVE  MonTypeOK' /\ DecoderInStep'
<1>1. DecoderInStep'
  BY MonStepIsFraming, InStepNext DEF MonInv
<1> SUFFICES MonTypeOK'
  BY <1>1
<1>2. TypeOK' /\ MonTypeOK
  BY <1>1 DEF DecoderInStep, MonInv
<1>3. /\ PingInterval \in Nat \ {0} /\ PingTimeout \in Nat /\ AnswerTime \in Nat
      /\ MaxTime \in Nat /\ None \notin Nat
      /\ held \in 0 .. MaxTime /\ since \in 0 .. MaxTime
      /\ timer \in 0 .. PingInterval /\ quiet \in 0 .. PingTimeout + 1
      /\ asked \in 0 .. AnswerTime + 1 \cup {None}
      /\ kind \in Seq(Kind) /\ Len(kind) = sent
      /\ input \in {"free", "call", "push"}
      /\ stopped \in {"no", "timeout", "error", "closed"}
  BY <1>2, TimeAssumption DEF MonTypeOK, MaxTime
<1>4. ASSUME NEW t \in Kind, Send(t) PROVE MonTypeOK'
  <2>1. /\ kind' = Append(kind, t) /\ sent' = sent + 1 /\ input' = input
        /\ held' = held /\ since' = since /\ timer' = timer
        /\ stopped' = stopped /\ quiet' = quiet /\ asked' = asked
    BY <1>4 DEF Send, Encode
  <2>2. kind' \in Seq(Kind) /\ Len(kind') = sent'
    BY <1>3, <1>4, <2>1
  <2> QED
    BY <1>2, <1>3, <2>1, <2>2 DEF MonTypeOK, MaxTime
<1>5. ASSUME NEW upto \in 1 .. Offset[N + 1], Receive(upto) PROVE MonTypeOK'
  <2>1. /\ kind' = kind /\ sent' = sent /\ input' = input /\ held' = held
        /\ since' = since /\ timer' = timer /\ stopped' = stopped /\ quiet' = 0
        /\ asked' = None \/ asked' = asked
    BY <1>5 DEF Receive, Arrive
  <2> QED
    BY <1>2, <1>3, <2>1 DEF MonTypeOK, MaxTime
<1>6. CASE HangUp
  BY <1>2, <1>3, <1>6 DEF HangUp, vars, MonTypeOK, MaxTime
<1>7. CASE ReadHeader
  BY <1>2, <1>3, <1>7 DEF ReadHeader, DecodeHeader, monitor, MonTypeOK, MaxTime
<1>8. CASE ReadMessage
  <2>1. /\ kind' = kind /\ sent' = sent /\ since' = 0 /\ timer' = timer
        /\ quiet' = quiet /\ (asked' = None \/ asked' = asked)
    BY <1>8 DEF ReadMessage, DecodeBody, Touch
  <2>2. CASE failed'
    <3>1. stopped' = "error" /\ input' = input /\ held' = held
      BY <1>8, <2>2 DEF ReadMessage
    <3> QED
      BY <1>2, <1>3, <2>1, <3>1 DEF MonTypeOK, MaxTime
  <2>3. CASE ~failed'
    <3> DEFINE t == kind[decoded'[Len(decoded')]]
    <3>1. input' = (IF t = "quick" THEN "free" ELSE t) /\ held' = 0 /\ stopped' = stopped
      BY <1>8, <2>3 DEF ReadMessage
    <3>2. t \in Kind
      <4>1. PacketAt(taken, msg_header) # {}
        BY <1>8, <2>3 DEF ReadMessage, DecodeBody
      <4>2. PICK k \in 1 .. N : decoded' = Append(decoded, k)
        BY <1>8, <2>3, <4>1 DEF ReadMessage, DecodeBody, PacketAt
      <4>3. decoded \in Seq(1 .. N)
        BY <1>2 DEF MonTypeOK, TypeOK
      <4>4. Len(decoded') = Len(decoded) + 1 /\ Len(decoded') \in Nat
        BY <4>2, <4>3
      <4>5. Len(decoded') <= sent' /\ decoded'[Len(decoded')] = Len(decoded')
        BY <1>1, <4>3, <4>4 DEF DecoderInStep, DecodedIsSent
      <4>6. Len(decoded') \in 1 .. Len(kind)
        BY <1>3, <2>1, <4>3, <4>4, <4>5
      <4> QED
        BY <1>3, <4>5, <4>6
    <3> HIDE DEF t
    <3>3. input' \in {"free", "call", "push"}
      BY <3>1, <3>2 DEF Kind
    <3> QED
      BY <1>2, <1>3, <2>1, <3>1, <3>3 DEF MonTypeOK, MaxTime
  <2> QED
    BY <2>2, <2>3
<1>9. CASE Forwarded
  BY <1>2, <1>3, <1>9 DEF Forwarded, vars, MonTypeOK, MaxTime
<1>10. CASE Fire
  <2>1. /\ kind' = kind /\ sent' = sent /\ input' = input /\ held' = held
        /\ since' = since /\ timer' = 0 /\ quiet' = quiet
        /\ stopped' = "timeout" \/ stopped' = "no"
        /\ asked' = 0 \/ asked' = asked
    BY <1>10 DEF Fire, vars
  <2> QED
    BY <1>2, <1>3, <2>1 DEF MonTypeOK, MaxTime
<1>11. CASE Tick
  <2>1. /\ kind' = kind /\ sent' = sent /\ input' = input /\ stopped' = stopped
        /\ timer' = timer + 1 /\ timer # PingInterval
    BY <1>11 DEF Tick, Due, vars
  <2>2. held' \in 0 .. MaxTime /\ since' \in 0 .. MaxTime
    BY <1>3, <1>11 DEF Tick, AtMost
  <2>3. quiet' \in 0 .. PingTimeout + 1 /\ timer' \in 0 .. PingInterval
    BY <1>3, <1>11, <2>1 DEF Tick, AtMost
  <2>4. asked' \in 0 .. AnswerTime + 1 \cup {None}
    BY <1>3, <1>11 DEF Tick, AtMost
  <2> QED
    BY <1>2, <1>3, <2>1, <2>2, <2>3, <2>4 DEF MonTypeOK, MaxTime
<1>12. CASE UNCHANGED monVars
  BY <1>2, <1>3, <1>12 DEF monVars, monitor, vars, MonTypeOK, MaxTime
<1> QED
  BY <1>4, <1>5, <1>6, <1>7, <1>8, <1>9, <1>10, <1>11, <1>12 DEF MonNext

\* What is unread depends on the decoder and the bytes that arrived.
LEMMA UnreadStays ==
    ASSUME UNCHANGED <<decoded, arrived>>
    PROVE  (Waiting' <=> Waiting) /\ (Underway' <=> Underway)
  BY DEF Waiting, Underway

\* Bytes that arrive on a running connection belong to an unread message:
\* one that is complete after them, or the next one, which is under way.
\* The end of any message among them completes an unread one.
LEMMA ArrivalIsUnread ==
    ASSUME DecoderInStep, DecoderInStep', ~failed,
           NEW upto \in 1 .. Offset[N + 1], Arrive(upto)
    PROVE  /\ Waiting => Waiting'
           /\ Waiting' \/ Underway'
           /\ (\E k \in 1 .. N : arrived < Offset[k + 1] /\ Offset[k + 1] <= upto)
                 => Waiting'
<1> DEFINE d == Len(decoded)
<1>1. /\ d \in Nat /\ d <= N /\ N \in Nat /\ arrived \in Nat
      /\ Offset[d + 1] \in Nat /\ Offset[d + 1] <= arrived
      /\ d < N => Offset[d + 2] \in Nat /\ Offset[d + 1] < Offset[d + 2]
  BY Positions DEF HeaderLen
<1>2. /\ decoded' = decoded /\ failed' = failed /\ sent' = sent
      /\ arrived' = upto /\ arrived < upto /\ upto <= Offset[sent + 1] /\ upto \in Nat
  BY <1>1, OffsetAssumption DEF Arrive
<1>3. d < N
  <2>1. sent \in 0 .. N /\ d <= sent
    BY DEF DecoderInStep, TypeOK, DecodedIsSent
  <2>2. ASSUME d = N PROVE FALSE
    <3>1. sent = d
      BY <1>1, <2>1, <2>2
    <3> QED
      BY <1>1, <1>2, <3>1
  <2> QED
    BY <1>1, <2>2
<1> HIDE DEF d
<1>4. (Waiting <=> Offset[d + 2] <= arrived) /\ (Waiting' <=> Offset[d + 2] <= upto)
  BY <1>2, <1>3 DEF Waiting, d
<1>5. Underway' <=> Offset[d + 1] < upto /\ upto < Offset[d + 2]
  BY <1>2, <1>3 DEF Underway, d
<1>6. ASSUME NEW k \in 1 .. N, arrived < Offset[k + 1], Offset[k + 1] <= upto
      PROVE  Waiting'
  <2>1. k \in Nat /\ k + 1 \in 1 .. N + 1 /\ d + 1 \in 1 .. N + 1 /\ d + 2 \in 1 .. N + 1
    BY <1>1, <1>3
  <2>2. Offset[k + 1] \in Nat
    BY <2>1, OffsetAssumption
  <2>3. ASSUME k + 1 < d + 1 \/ k + 1 = d + 1 PROVE FALSE
    <3>1. CASE k + 1 = d + 1
      BY <1>1, <1>6, <3>1
    <3>2. CASE k + 1 < d + 1
      <4>1. Offset[k + 1] + HeaderLen < Offset[d + 1]
        BY <2>1, <3>2, OffsetAssumption
      <4> QED
        BY <1>1, <1>6, <2>2, <4>1 DEF HeaderLen
    <3> QED
      BY <2>3, <3>1, <3>2
  <2>4. d + 2 < k + 1 \/ d + 2 = k + 1
    BY <1>1, <2>1, <2>3
  <2>5. Offset[d + 2] <= Offset[k + 1]
    BY <1>1, <1>3, <2>1, <2>2, <2>4, OffsetAssumption, SMTT(40) DEF HeaderLen
  <2> QED
    BY <1>1, <1>2, <1>3, <1>4, <1>6, <2>2, <2>5
<1>7. Waiting => Waiting'
  BY <1>1, <1>2, <1>3, <1>4
<1>8. Waiting' \/ Underway'
  BY <1>1, <1>2, <1>3, <1>4, <1>5
<1> QED
  BY <1>6, <1>7, <1>8

\* What the invariant says of a connection that runs.
InTime ==
    /\ since <= PingTimeout + timer
    /\ input # "free" => held = since
    /\ Waiting => quiet = 0 \/ held = since
    /\ ~Waiting /\ ~Underway => quiet >= since \/ quiet > PingTimeout
    /\ asked \in 0 .. AnswerTime => asked = timer
    /\ asked = None /\ 2 * since > PingInterval + 2 * timer =>
           Waiting /\ (held = since \/ timer <= AnswerTime)

\* Of one that does not, it says only why.
LEMMA TimeInvParts ==
    TimeInv <=> /\ stopped = "no" => ~failed /\ InTime
                /\ stopped = "timeout" => OnlySilentIsKilled /\ AnsweringIsKept
  BY DEF TimeInv, InTime, OnlySilentIsKilled, AnsweringIsKept, Runs

\* Bytes arrive.
LEMMA ReceiveInTime ==
    ASSUME MonInv, DecoderInStep',
           NEW upto \in 1 .. Offset[N + 1], Receive(upto)
    PROVE  InTime'
<1>1. /\ InTime /\ ~failed /\ DecoderInStep /\ MonTypeOK
      /\ timer \in Nat /\ AnswerTime \in Nat /\ None \notin Nat
      /\ asked = None \/ (asked \in Nat /\ asked <= AnswerTime + 1)
  BY TimeInvParts, MonTypes DEF MonInv, Receive, Runs
<1>2. /\ Waiting => Waiting'
      /\ Waiting' \/ Underway'
      /\ (\E k \in 1 .. N : arrived < Offset[k + 1] /\ Offset[k + 1] <= upto) => Waiting'
  BY <1>1, ArrivalIsUnread DEF Receive
<1>3. /\ quiet' = 0 /\ since' = since /\ timer' = timer /\ held' = held /\ input' = input
      /\ \/ asked' = asked
         \/ asked' = None /\ asked # AnswerTime + 1 /\ Waiting'
  BY <1>2 DEF Receive
<1>4. asked' \in 0 .. AnswerTime => asked' = timer'
  BY <1>1, <1>3 DEF InTime
<1>5. asked' = None /\ 2 * since' > PingInterval + 2 * timer' =>
          Waiting' /\ (held' = since' \/ timer' <= AnswerTime)
  BY <1>1, <1>2, <1>3 DEF InTime
<1> QED
  BY <1>1, <1>2, <1>3, <1>4, <1>5 DEF InTime

\* A message is read.
LEMMA ReadInTime ==
    ASSUME MonInv, ReadMessage, ~failed'
    PROVE  InTime'
<1>1. /\ InTime /\ MonTypeOK /\ PingTimeout \in Nat /\ PingInterval \in Nat /\ AnswerTime \in Nat
      /\ timer \in Nat /\ quiet \in Nat /\ None \notin Nat
  BY TimeInvParts, MonTypes DEF MonInv, ReadMessage, Polls, Runs
<1>2. /\ since' = 0 /\ held' = 0 /\ timer' = timer /\ quiet' = quiet
      /\ asked' = asked \/ asked' = None
  BY DEF ReadMessage, Touch
<1> QED
  BY <1>1, <1>2 DEF InTime

\* A round of the timer.
LEMMA FireInTime ==
    ASSUME MonInv, Fire
    PROVE  /\ stopped' = "no" => InTime'
           /\ stopped' = "timeout" => OnlySilentIsKilled' /\ AnsweringIsKept'
<1>1. /\ InTime /\ MonTypeOK
      /\ PingTimeout \in Nat /\ PingInterval \in Nat /\ AnswerTime \in Nat /\ None \notin Nat
      /\ 3 * PingInterval <= 2 * PingTimeout /\ AnswerTime < PingInterval
      /\ timer \in Nat /\ quiet \in Nat /\ since \in Nat /\ held \in Nat
      /\ asked = None \/ (asked \in Nat /\ asked <= AnswerTime + 1)
  BY TimeInvParts, MonTypes DEF MonInv, Fire, Runs
<1>2. /\ timer = PingInterval /\ timer' = 0 /\ input' = input /\ held' = held
      /\ since' = since /\ quiet' = quiet /\ UNCHANGED <<decoded, arrived>>
  BY DEF Fire, vars
<1>3. (Waiting' <=> Waiting) /\ (Underway' <=> Underway)
  BY <1>2, UnreadStays
<1>4. asked \notin 0 .. AnswerTime
  BY <1>1, <1>2 DEF InTime
<1>5. CASE since > PingTimeout
  <2>1. 2 * since > PingInterval /\ 2 * since > PingInterval + 2 * timer
    BY <1>1, <1>2, <1>5
  <2>2. stopped' = "timeout" /\ asked' = asked
    BY <1>5, <2>1 DEF Fire, Quiet, Silent
  <2>3. asked = None => held = since
    BY <1>1, <1>2, <2>1 DEF InTime
  <2>4. asked = AnswerTime + 1 \/ held > PingTimeout
    BY <1>1, <1>4, <1>5, <2>3
  <2>5. quiet > PingTimeout \/ quiet = 0 \/ Underway \/ held > PingTimeout
    BY <1>1, <1>5 DEF InTime
  <2> QED
    BY <1>2, <1>3, <2>2, <2>4, <2>5 DEF OnlySilentIsKilled, AnsweringIsKept, HeldTooLong
<1>6. CASE ~(since > PingTimeout)
  <2>1. stopped' = "no" /\ asked' = (IF Quiet /\ asked = None THEN 0 ELSE asked)
    BY <1>6 DEF Fire, Silent
  <2>2. asked' \in 0 .. AnswerTime => asked' = timer'
    BY <1>1, <1>2, <1>4, <2>1
  <2>3. ~(asked' = None /\ 2 * since' > PingInterval + 2 * timer')
    BY <1>1, <1>2, <2>1 DEF Quiet
  <2> QED
    BY <1>1, <1>2, <1>3, <1>6, <2>1, <2>2, <2>3 DEF InTime
<1> QED
  BY <1>5, <1>6

\* Time passes.
LEMMA TickInTime ==
    ASSUME MonInv, Tick
    PROVE  InTime'
<1>1. /\ InTime /\ ~failed /\ MonTypeOK /\ DecoderInStep
      /\ PingTimeout \in Nat /\ PingInterval \in Nat /\ AnswerTime \in Nat /\ None \notin Nat
      /\ MaxTime = PingTimeout + PingInterval + 1
      /\ timer \in Nat /\ timer <= PingInterval /\ quiet \in Nat /\ quiet <= PingTimeout + 1
      /\ since \in Nat /\ held \in Nat
      /\ asked = None \/ (asked \in Nat /\ asked <= AnswerTime + 1)
  BY TimeInvParts, MonTypes DEF MonInv, Tick, Runs
<1>2. /\ timer # PingInterval /\ timer' = timer + 1 /\ input' = input
      /\ UNCHANGED <<decoded, arrived>>
  BY DEF Tick, Due, vars
<1>3. (Waiting' <=> Waiting) /\ (Underway' <=> Underway)
  BY <1>2, UnreadStays
<1>4. since < MaxTime /\ since' = since + 1
  BY <1>1, <1>2 DEF InTime, Tick, AtMost
<1>5. input # "free" => held' = since'
  BY <1>1, <1>4 DEF InTime, Tick, AtMost
<1>6. Waiting => input # "free"
  BY <1>1, WaitingIsReady DEF Tick, Due, Polls
<1>7. ~Waiting /\ ~Underway => quiet' >= since' \/ quiet' > PingTimeout
  BY <1>1, <1>4 DEF InTime, Tick, AtMost
<1>8. asked' \in 0 .. AnswerTime => asked' = timer'
  BY <1>1, <1>2 DEF InTime, Tick, AtMost
<1>9. asked' = None => asked = None
  BY <1>1 DEF Tick, AtMost
<1>10. asked' = None /\ 2 * since' > PingInterval + 2 * timer' => Waiting
  BY <1>1, <1>2, <1>4, <1>9 DEF InTime
<1>11. since' <= PingTimeout + timer'
  BY <1>1, <1>2, <1>4 DEF InTime
<1> QED
  BY <1>2, <1>3, <1>5, <1>6, <1>7, <1>8, <1>10, <1>11 DEF InTime

\* Every step keeps the part of the invariant that is about time.
LEMMA TimeNext ==
    ASSUME MonInv, [MonNext]_monVars
    PROVE  TimeInv'
<1>1. DecoderInStep'
  BY MonTypeNext
<1>2. /\ stopped = "no" => ~failed /\ InTime
      /\ stopped = "timeout" => OnlySilentIsKilled /\ AnsweringIsKept
  BY TimeInvParts DEF MonInv
<1> SUFFICES /\ stopped' = "no" => ~failed' /\ InTime'
             /\ stopped' = "timeout" => OnlySilentIsKilled' /\ AnsweringIsKept'
  BY DEF TimeInv, InTime, OnlySilentIsKilled, AnsweringIsKept, Runs
<1>3. ASSUME UNCHANGED <<decoded, arrived, failed, held, since, timer, quiet, asked>>,
             stopped = "no", stopped' = "no", input' = input \/ input' = "free"
      PROVE  ~failed' /\ InTime'
  <2>1. (Waiting' <=> Waiting) /\ (Underway' <=> Underway)
    BY <1>3, UnreadStays
  <2> QED
    BY <1>2, <1>3, <2>1 DEF InTime
<1>4. ASSUME NEW t \in Kind, Send(t) PROVE stopped' = "no" /\ ~failed' /\ InTime'
  BY <1>3, <1>4 DEF Send, Encode, Runs
<1>5. ASSUME NEW upto \in 1 .. Offset[N + 1], Receive(upto)
      PROVE  stopped' = "no" /\ ~failed' /\ InTime'
  <2>1. InTime'
    BY <1>1, <1>5, ReceiveInTime
  <2> QED
    BY <1>2, <1>5, <2>1 DEF Receive, Arrive, Runs
<1>6. CASE HangUp
  BY <1>6 DEF HangUp
<1>7. CASE ReadHeader
  BY <1>3, <1>7 DEF ReadHeader, DecodeHeader, monitor, Polls, Runs
<1>8. CASE ReadMessage
  <2>1. ~failed' => InTime'
    BY <1>8, ReadInTime
  <2>2. IF failed' THEN stopped' = "error" ELSE stopped' = "no"
    BY <1>8 DEF ReadMessage, Polls, Runs
  <2> QED
    BY <2>1, <2>2
<1>9. CASE Forwarded
  BY <1>3, <1>9 DEF Forwarded, vars, Runs
<1>10. CASE Fire
  <2>1. failed' = failed /\ ~failed
    BY <1>2, <1>10 DEF Fire, vars, Runs
  <2> QED
    BY <1>10, <2>1, FireInTime
<1>11. CASE Tick
  <2>1. failed' = failed /\ ~failed /\ stopped' = "no"
    BY <1>2, <1>11 DEF Tick, vars, Runs
  <2> QED
    BY <1>11, <2>1, TickInTime
<1>12. CASE UNCHANGED monVars
  BY <1>2, <1>12 DEF monVars, monitor, vars, InTime, OnlySilentIsKilled, AnsweringIsKept,
                     HeldTooLong, Waiting, Underway
<1> QED
  BY <1>4, <1>5, <1>6, <1>7, <1>8, <1>9, <1>10, <1>11, <1>12 DEF MonNext

-----------------------------------------------------------------------------

\* The decoder stays in step and the times in the relations of TimeInv,
\* whatever arrives and however long the input waits.
THEOREM MonitorInv == MonSpec => []MonInv
<1>1. MonInv /\ [MonNext]_monVars => MonInv'
  BY MonTypeNext, TimeNext DEF MonInv
<1> QED
  BY <1>1, MonInvInit, PTL DEF MonSpec

\* The timer (Connection::started) stops a connection only if nothing
\* arrived for ping_timeout or arrives at this moment, or the message that
\* did is not complete, or its input was held that long.
THEOREM SilentOnly == MonSpec => []OnlySilentIsKilled
<1>1. MonInv => OnlySilentIsKilled
  BY DEF MonInv, TimeInv
<1> QED
  BY <1>1, MonitorInv, PTL

\* The timer never stops the connection of a peer that answers its pings
\* within AnswerTime, unless its input was held longer than ping_timeout.
THEOREM AnsweringKept == MonSpec => []AnsweringIsKept
<1>1. MonInv => AnsweringIsKept
  BY DEF MonInv, TimeInv
<1> QED
  BY <1>1, MonitorInv, PTL
=============================================================================
