------------------------ MODULE RouterTopicsProofs ------------------------
(***************************************************************************)
(* Broadcasts of RouterTopics: a subscription that listens to the topic's  *)
(* channel misses nothing but what lagging costs it, subscribers agree on  *)
(* the order, and nothing reaches a connection that is not subscribed.     *)
(*                                                                         *)
(* The argument rests on where a message is: it is with one publisher or   *)
(* at one place (channel, position) of the logs.  A new channel has a      *)
(* higher number than all before it and a subscription only ever moves to  *)
(* later places, so what a connection was given is sorted by place, across *)
(* unsubscribing, subscribing again and the collector's work.              *)
(***************************************************************************)
EXTENDS RouterTopics, TLAPS

-----------------------------------------------------------------------------
(* The invariant.                                                          *)

\* The order of places.
Before(ch, j, ci, i) == ch < ci \/ (ch = ci /\ j < i)

\* Channels that are not there yet are empty.
ChanInv == \A ch \in Chan : ch > created => log[ch] = <<>>

\* Only what was published is in a log or with a publisher.
SentInv ==
    /\ \A ch \in Chan : \A j \in 1 .. Len(log[ch]) : log[ch][j] <= sent
    /\ \A c \in Conn : message[c] <= sent /\ (message[c] = 0 <=> publishing[c] = 0)

\* A message has one place ...
PlaceInv ==
    \A ch, ci \in Chan : \A j \in 1 .. Len(log[ch]), i \in 1 .. Len(log[ci]) :
        log[ch][j] = log[ci][i] => ch = ci /\ j = i

\* ... and none while its publisher still has it.
FlightInv ==
    /\ \A c \in Conn : message[c] # 0 =>
          \A ch \in Chan : \A j \in 1 .. Len(log[ch]) : log[ch][j] # message[c]
    /\ \A c, d \in Conn : message[c] # 0 /\ message[c] = message[d] => c = d

\* A stream belongs to a subscription and is at a position of its channel;
\* the router's channel for the topic is not an older one.
SubOK(c, t) ==
    /\ sub[c][t] # 0 =>
          /\ t \in topic_map[c]
          /\ next[c][t] <= Len(log[sub[c][t]]) + 1
          /\ topics[t] # 0 => sub[c][t] <= topics[t]
    /\ t \notin topic_map[c] => owed[c][t] = {}

\* What was sent before c subscribed has a place, and not one ahead.
PastOK(c, t) ==
    /\ \A m \in past[c][t] : \E ch \in Chan : \E j \in 1 .. Len(log[ch]) : log[ch][j] = m
    /\ sub[c][t] # 0 =>
          \A j \in next[c][t] .. Len(log[sub[c][t]]) : log[sub[c][t]][j] \notin past[c][t]

\* What c was given has a place ...
GivenOK(c, t) ==
    \A k \in 1 .. Len(delivered[c][t]) :
        \E ch \in Chan : \E j \in 1 .. Len(log[ch]) : log[ch][j] = delivered[c][t][k]

\* ... behind the position of its stream and not behind the topic's channel ...
BehindOK(c, t) ==
    \A k \in 1 .. Len(delivered[c][t]), ch \in Chan : \A j \in 1 .. Len(log[ch]) :
        log[ch][j] = delivered[c][t][k] =>
            /\ sub[c][t] # 0 => Before(ch, j, sub[c][t], next[c][t])
            /\ topics[t] # 0 => ch <= topics[t]

\* ... and it was given in the order of places.
OrderOK(c, t) ==
    \A k, n \in 1 .. Len(delivered[c][t]) : k < n =>
        \A ch, ci \in Chan : \A j \in 1 .. Len(log[ch]), i \in 1 .. Len(log[ci]) :
            log[ch][j] = delivered[c][t][k] /\ log[ci][i] = delivered[c][t][n]
                => Before(ch, j, ci, i)

\* Where a message owed to an attached subscription is.
OwedOK(c, t) ==
    sub[c][t] # 0 /\ sub[c][t] = topics[t] =>
        \A m \in owed[c][t] :
            \/ \E k \in 1 .. Len(delivered[c][t]) : delivered[c][t][k] = m
            \/ \E p \in Conn : publishing[p] = sub[c][t] /\ message[p] = m
            \/ \E j \in 1 .. Len(log[sub[c][t]]) :
                  /\ log[sub[c][t]][j] = m
                  /\ j >= next[c][t] \/ j <= Len(log[sub[c][t]]) - Backlog

Stream(c, t) ==
    /\ SubOK(c, t) /\ PastOK(c, t) /\ GivenOK(c, t)
    /\ BehindOK(c, t) /\ OrderOK(c, t) /\ OwedOK(c, t)

StreamInv == \A c \in Conn, t \in Topic : Stream(c, t)

LogInv == TypeOK /\ ChanInv /\ SentInv /\ PlaceInv /\ FlightInv

TopicInv == LogInv /\ StreamInv

-----------------------------------------------------------------------------
(* What a step leaves alone.                                               *)

LEMMA InitInv == Init => TopicInv
<1> SUFFICES ASSUME Init PROVE TopicInv
  OBVIOUS
<1>1. TypeOK
  <2>1. <<>> \in Seq(Msg) /\ 0 \in 0 .. MaxChan /\ 0 \in 0 .. MaxMsg /\ 0 \in 0 .. 0
    BY TopicsAssumption
  <2>2. delivered \in [Conn -> [Topic -> Seq(Msg)]] /\ log \in [Chan -> Seq(Msg)]
    BY <2>1 DEF Init
  <2>3. next \in [Conn -> [Topic -> Nat \ {0}]]
    BY DEF Init
  <2> QED
    BY <2>1, <2>2, <2>3 DEF Init, TypeOK
<1>2. \A ch \in Chan : log[ch] = <<>> /\ Len(log[ch]) = 0
  BY DEF Init
<1>3. ChanInv /\ SentInv /\ PlaceInv /\ FlightInv
  BY <1>2 DEF Init, ChanInv, SentInv, PlaceInv, FlightInv
<1>4. ASSUME NEW c \in Conn, NEW t \in Topic
      PROVE  Stream(c, t)
  <2>1. /\ sub[c][t] = 0 /\ owed[c][t] = {} /\ past[c][t] = {}
        /\ delivered[c][t] = <<>> /\ Len(delivered[c][t]) = 0
    BY DEF Init
  <2> QED
    BY <2>1 DEF Stream, SubOK, PastOK, GivenOK, BehindOK, OrderOK, OwedOK
<1> QED
  BY <1>1, <1>3, <1>4 DEF TopicInv, LogInv, StreamInv

\* A channel that is there.
LEMMA ChanType ==
    ASSUME TypeOK, NEW n \in 0 .. created, n # 0
    PROVE  n \in Chan /\ n \in Nat /\ log[n] \in Seq(Msg) /\ Len(log[n]) \in Nat
  BY TopicsAssumption DEF TypeOK, Chan

LEMMA LogFrame ==
    ASSUME TopicInv, UNCHANGED <<log, pubVars>>, created' \in Nat, created <= created'
    PROVE  ChanInv' /\ SentInv' /\ PlaceInv' /\ FlightInv'
<1>1. ChanInv'
  BY TopicsAssumption DEF TopicInv, LogInv, TypeOK, ChanInv, Chan
<1>2. SentInv'
  BY DEF TopicInv, LogInv, SentInv, pubVars
<1>3. PlaceInv'
  BY DEF TopicInv, LogInv, PlaceInv
<1>4. FlightInv'
  BY DEF TopicInv, LogInv, FlightInv, pubVars
<1> QED
  BY <1>1, <1>2, <1>3, <1>4

\* A subscription that the step is not about.  The topic's channel may go,
\* or be replaced by a new one.
LEMMA StreamFrame ==
    ASSUME TopicInv, NEW c \in Conn, NEW t \in Topic,
           log' = log, sub'[c][t] = sub[c][t], next'[c][t] = next[c][t],
           delivered'[c][t] = delivered[c][t], owed'[c][t] = owed[c][t],
           past'[c][t] = past[c][t], t \in topic_map'[c] <=> t \in topic_map[c],
           \A p \in Conn : publishing[p] # 0 =>
               publishing'[p] = publishing[p] /\ message'[p] = message[p],
           topics'[t] \in Nat,
           topics'[t] # topics[t] => topics'[t] = 0 \/ topics'[t] > created
    PROVE  Stream(c, t)'
<1> USE DEF TopicInv, LogInv
<1>0. /\ Stream(c, t) /\ sub[c][t] \in 0 .. created /\ topics[t] \in 0 .. created
      /\ created \in Nat
  BY DEF StreamInv, TypeOK
<1>1. SubOK(c, t)'
  BY <1>0 DEF Stream, SubOK
<1>2. PastOK(c, t)'
  BY <1>0 DEF Stream, PastOK
<1>3. GivenOK(c, t)'
  BY <1>0 DEF Stream, GivenOK
<1>4. BehindOK(c, t)'
  <2> SUFFICES ASSUME NEW k \in 1 .. Len(delivered[c][t]), NEW ch \in Chan,
                      NEW j \in 1 .. Len(log[ch]), log[ch][j] = delivered[c][t][k]
               PROVE  /\ sub[c][t] # 0 => Before(ch, j, sub[c][t], next[c][t])
                      /\ topics'[t] # 0 => ch <= topics'[t]
    BY DEF BehindOK, Before
  <2>1. /\ sub[c][t] # 0 => Before(ch, j, sub[c][t], next[c][t])
        /\ topics[t] # 0 => ch <= topics[t]
    BY <1>0 DEF Stream, BehindOK
  <2>2. ch <= created
    <3> SUFFICES ASSUME ch > created PROVE FALSE
      BY <1>0, TopicsAssumption DEF Chan
    <3>1. log[ch] = <<>>
      BY DEF ChanInv
    <3> QED
      BY <3>1
  <2> QED
    BY <1>0, <2>1, <2>2, TopicsAssumption DEF Chan
<1>5. OrderOK(c, t)'
  BY <1>0 DEF Stream, OrderOK, Before
<1>6. OwedOK(c, t)'
  <2> SUFFICES ASSUME sub[c][t] # 0, sub[c][t] = topics'[t], NEW m \in owed[c][t]
               PROVE  \/ \E k \in 1 .. Len(delivered[c][t]) : delivered[c][t][k] = m
                      \/ \E p \in Conn : publishing'[p] = sub[c][t] /\ message'[p] = m
                      \/ \E j \in 1 .. Len(log[sub[c][t]]) :
                            /\ log[sub[c][t]][j] = m
                            /\ j >= next[c][t] \/ j <= Len(log[sub[c][t]]) - Backlog
    BY DEF OwedOK
  <2>1. sub[c][t] = topics[t]
    BY <1>0
  <2>2. CASE \E p \in Conn : publishing[p] = sub[c][t] /\ message[p] = m
    BY <2>2
  <2>3. CASE ~\E p \in Conn : publishing[p] = sub[c][t] /\ message[p] = m
    BY <1>0, <2>1, <2>3 DEF Stream, OwedOK
  <2> QED
    BY <2>2, <2>3
<1> QED
  BY <1>1, <1>2, <1>3, <1>4, <1>5, <1>6 DEF Stream

-----------------------------------------------------------------------------
(* Subscribing and leaving.                                                *)

\* The streams and fields of everybody but c's subscription to t.
LEMMA StartStreamTypes ==
    ASSUME TypeOK, NEW c \in Conn, NEW t \in Topic, NEW ch \in Nat, NEW k \in Nat \ {0},
           NEW n \in Nat, ch <= n, created <= n, StartStream(c, t, ch, k)
    PROVE  /\ topic_map' \in [Conn -> SUBSET Topic] /\ sub' \in [Conn -> [Topic -> 0 .. n]]
           /\ next' \in [Conn -> [Topic -> Nat \ {0}]] /\ past' \in [Conn -> [Topic -> SUBSET Msg]]
           /\ sub'[c][t] = ch /\ next'[c][t] = k /\ past'[c][t] = AllSent /\ t \in topic_map'[c]
           /\ \A d \in Conn, u \in Topic : d # c \/ u # t =>
                 /\ sub'[d][u] = sub[d][u] /\ next'[d][u] = next[d][u]
                 /\ past'[d][u] = past[d][u] /\ (u \in topic_map'[d] <=> u \in topic_map[d])
<1>1. sub \in [Conn -> [Topic -> 0 .. n]]
  <2>1. 0 .. created \subseteq 0 .. n
    BY DEF TypeOK
  <2>2. ASSUME NEW d \in Conn
        PROVE  sub[d] \in [Topic -> 0 .. n]
    <3>1. sub[d] \in [Topic -> 0 .. created]
      BY DEF TypeOK
    <3> QED
      BY <2>1, <3>1
  <2> QED
    BY <2>2 DEF TypeOK
<1>2. AllSent \in SUBSET Msg
  BY DEF AllSent, ToSet, TypeOK
<1>3. ch \in 0 .. n
  OBVIOUS
<1>4. sub' \in [Conn -> [Topic -> 0 .. n]] /\ sub'[c][t] = ch
      /\ \A d \in Conn, u \in Topic : d # c \/ u # t => sub'[d][u] = sub[d][u]
  BY <1>1, <1>3 DEF StartStream
<1>5. next' \in [Conn -> [Topic -> Nat \ {0}]] /\ next'[c][t] = k
      /\ \A d \in Conn, u \in Topic : d # c \/ u # t => next'[d][u] = next[d][u]
  BY DEF StartStream, TypeOK
<1>6. past' \in [Conn -> [Topic -> SUBSET Msg]] /\ past'[c][t] = AllSent
      /\ \A d \in Conn, u \in Topic : d # c \/ u # t => past'[d][u] = past[d][u]
  BY <1>2 DEF StartStream, TypeOK
<1>7. topic_map' \in [Conn -> SUBSET Topic] /\ t \in topic_map'[c]
      /\ \A d \in Conn, u \in Topic : d # c \/ u # t => (u \in topic_map'[d] <=> u \in topic_map[d])
  BY DEF StartStream, TypeOK
<1> QED
  BY <1>4, <1>5, <1>6, <1>7

\* The subscription itself: everything there is lies behind it, nothing is
\* ahead and nothing owed.
LEMMA StartStreamOK ==
    ASSUME TopicInv, NEW c \in Conn, NEW t \in Topic, NEW ch \in Chan, log' = log,
           t \notin topic_map[c], t \in topic_map'[c],
           sub'[c][t] = ch, next'[c][t] = Len(log[ch]) + 1, past'[c][t] = AllSent,
           UNCHANGED <<delivered, owed>>,
           topics'[t] = ch, ch > created \/ ch = topics[t]
    PROVE  Stream(c, t)'
<1> USE DEF TopicInv, LogInv
<1>0. /\ Stream(c, t) /\ topics[t] \in 0 .. created
      /\ created \in Nat /\ ch \in Nat \ {0} /\ log[ch] \in Seq(Msg) /\ Len(log[ch]) \in Nat
  BY TopicsAssumption DEF StreamInv, TypeOK, Chan
<1>1. SubOK(c, t)'
  BY <1>0 DEF Stream, SubOK
<1>2. PastOK(c, t)'
  <2>1. \A m \in AllSent : \E ci \in Chan : \E j \in 1 .. Len(log[ci]) : log[ci][j] = m
    BY SMTT(40) DEF AllSent, ToSet, TypeOK
  <2>2. ~\E j \in Len(log[ch]) + 1 .. Len(log[ch]) : TRUE
    BY <1>0
  <2> QED
    BY <2>1, <2>2 DEF PastOK
<1>3. GivenOK(c, t)'
  BY <1>0 DEF Stream, GivenOK
<1>4. BehindOK(c, t)'
  <2> SUFFICES ASSUME NEW k \in 1 .. Len(delivered[c][t]), NEW ci \in Chan,
                      NEW j \in 1 .. Len(log[ci]), log[ci][j] = delivered[c][t][k]
               PROVE  Before(ci, j, ch, Len(log[ch]) + 1) /\ ci <= ch
    BY DEF BehindOK, Before
  <2>1. topics[t] # 0 => ci <= topics[t]
    BY <1>0 DEF Stream, BehindOK
  <2>2. ci <= created /\ ci \in Nat
    <3>1. ci \in Nat
      BY TopicsAssumption DEF Chan
    <3> SUFFICES ASSUME ci > created PROVE FALSE
      BY <1>0, <3>1
    <3>2. log[ci] = <<>>
      BY DEF ChanInv
    <3> QED
      BY <3>2
  <2>3. ci <= ch
    BY <1>0, <2>1, <2>2
  <2> QED
    BY <1>0, <2>2, <2>3 DEF Before
<1>5. OrderOK(c, t)'
  <2>1. OrderOK(c, t)
    BY <1>0 DEF Stream
  <2> QED
    BY <2>1 DEF OrderOK, Before
<1>6. OwedOK(c, t)'
  BY <1>0 DEF Stream, SubOK, OwedOK
<1> QED
  BY <1>1, <1>2, <1>3, <1>4, <1>5, <1>6 DEF Stream

LEMMA SubscribeNewInv ==
    ASSUME TopicInv, NEW c \in Conn, NEW t \in Topic, SubscribeNew(c, t)
    PROVE  TopicInv'
<1> USE DEF TopicInv, LogInv
<1>0. /\ created' \in Chan /\ created' = created + 1 /\ created \in Nat /\ created' \in Nat
      /\ created <= created' /\ created' \in 0 .. MaxChan
  BY TopicsAssumption DEF SubscribeNew, TypeOK, Chan
<1>1. /\ topics' \in [Topic -> 0 .. created'] /\ topics'[t] = created'
      /\ \A u \in Topic : u # t => topics'[u] = topics[u]
  BY <1>0 DEF SubscribeNew, TypeOK
<1>2. /\ topic_map' \in [Conn -> SUBSET Topic] /\ sub' \in [Conn -> [Topic -> 0 .. created']]
      /\ next' \in [Conn -> [Topic -> Nat \ {0}]] /\ past' \in [Conn -> [Topic -> SUBSET Msg]]
      /\ sub'[c][t] = created' /\ next'[c][t] = 1 /\ past'[c][t] = AllSent /\ t \in topic_map'[c]
      /\ \A d \in Conn, u \in Topic : d # c \/ u # t =>
            /\ sub'[d][u] = sub[d][u] /\ next'[d][u] = next[d][u]
            /\ past'[d][u] = past[d][u] /\ (u \in topic_map'[d] <=> u \in topic_map[d])
  <2>1. StartStream(c, t, created', 1)
    BY <1>0 DEF SubscribeNew
  <2> QED
    BY <1>0, <2>1, StartStreamTypes, SMTT(40)
<1>3. TypeOK'
  <2>1. publishing' \in [Conn -> 0 .. created']
    BY <1>0 DEF SubscribeNew, TypeOK, pubVars
  <2> QED
    BY <1>0, <1>1, <1>2, <2>1 DEF SubscribeNew, TypeOK, pubVars, gcVars
<1>4. ChanInv' /\ SentInv' /\ PlaceInv' /\ FlightInv'
  BY <1>0, LogFrame DEF SubscribeNew
<1>5. ASSUME NEW d \in Conn, NEW u \in Topic
      PROVE  Stream(d, u)'
  <2>1. CASE d = c /\ u = t
    <3>1. log[created'] = <<>> /\ Len(log[created']) = 0
      BY <1>0 DEF ChanInv
    <3>3. next'[c][t] = Len(log[created']) + 1 /\ created' > created
      BY <1>0, <1>2, <3>1
    <3>2. t \notin topic_map[c] /\ UNCHANGED <<log, delivered, owed>>
      BY DEF SubscribeNew, StartStream
    <3> QED
      BY <1>0, <1>1, <1>2, <2>1, <3>2, <3>3, StartStreamOK
  <2>2. CASE d # c \/ u # t
    <3>1. topics'[u] \in Nat /\ (topics'[u] # topics[u] => topics'[u] > created)
      BY <1>0, <1>1 DEF TypeOK
    <3> QED
      BY <1>2, <2>2, <3>1, StreamFrame DEF SubscribeNew, pubVars
  <2> QED
    BY <2>1, <2>2
<1> QED
  BY <1>3, <1>4, <1>5 DEF StreamInv

LEMMA SubscribeExistingInv ==
    ASSUME TopicInv, NEW c \in Conn, NEW t \in Topic, SubscribeExisting(c, t)
    PROVE  TopicInv'
<1> USE DEF TopicInv, LogInv
<1>0. /\ topics[t] \in Chan /\ topics[t] \in Nat /\ topics[t] <= created /\ created \in Nat
      /\ Len(log[topics[t]]) \in Nat /\ UNCHANGED chanVars
  BY ChanType, SMTT(40) DEF SubscribeExisting, TypeOK
<1>2. /\ topic_map' \in [Conn -> SUBSET Topic] /\ sub' \in [Conn -> [Topic -> 0 .. created]]
      /\ next' \in [Conn -> [Topic -> Nat \ {0}]] /\ past' \in [Conn -> [Topic -> SUBSET Msg]]
      /\ sub'[c][t] = topics[t] /\ next'[c][t] = Len(log[topics[t]]) + 1
      /\ past'[c][t] = AllSent /\ t \in topic_map'[c]
      /\ \A d \in Conn, u \in Topic : d # c \/ u # t =>
            /\ sub'[d][u] = sub[d][u] /\ next'[d][u] = next[d][u]
            /\ past'[d][u] = past[d][u] /\ (u \in topic_map'[d] <=> u \in topic_map[d])
  <2>1. StartStream(c, t, topics[t], Len(log[topics[t]]) + 1)
    BY DEF SubscribeExisting, AttachAt
  <2> QED
    BY <1>0, <2>1, StartStreamTypes
<1>3. TypeOK'
  BY <1>0, <1>2 DEF SubscribeExisting, TypeOK, pubVars, gcVars, chanVars
<1>4. ChanInv' /\ SentInv' /\ PlaceInv' /\ FlightInv'
  BY <1>0, LogFrame DEF SubscribeExisting, chanVars
<1>5. ASSUME NEW d \in Conn, NEW u \in Topic
      PROVE  Stream(d, u)'
  <2>1. CASE d = c /\ u = t
    <3>1. t \notin topic_map[c] /\ UNCHANGED <<log, topics, delivered, owed>>
      BY <1>0 DEF SubscribeExisting, StartStream, chanVars
    <3> QED
      BY <1>0, <1>2, <2>1, <3>1, StartStreamOK
  <2>2. CASE d # c \/ u # t
    <3>1. topics'[u] \in Nat /\ topics'[u] = topics[u]
      BY <1>0 DEF TypeOK, chanVars
    <3> QED
      BY <1>0, <1>2, <2>2, <3>1, StreamFrame DEF SubscribeExisting, pubVars, chanVars
  <2> QED
    BY <2>1, <2>2
<1> QED
  BY <1>3, <1>4, <1>5 DEF StreamInv

\* A subscription without a stream: nothing but the past is said of it.
LEMMA DetachedOK ==
    ASSUME TopicInv, NEW c \in Conn, NEW t \in Topic, UNCHANGED <<log, topics>>, sub'[c][t] = 0,
           delivered'[c][t] = delivered[c][t], past'[c][t] = past[c][t],
           t \notin topic_map'[c] => owed'[c][t] = {}
    PROVE  Stream(c, t)'
<1>0. Stream(c, t)
  BY DEF TopicInv, StreamInv
<1>1. SubOK(c, t)' /\ PastOK(c, t)' /\ GivenOK(c, t)' /\ OwedOK(c, t)'
  BY <1>0 DEF Stream, SubOK, PastOK, GivenOK, OwedOK
<1>2. BehindOK(c, t)'
  BY <1>0 DEF Stream, BehindOK
<1>3. OrderOK(c, t)'
  BY <1>0 DEF Stream, OrderOK, Before
<1> QED
  BY <1>1, <1>2, <1>3 DEF Stream

LEMMA UnsubscribeInv ==
    ASSUME TopicInv, NEW c \in Conn, NEW t \in Topic, Unsubscribe(c, t)
    PROVE  TopicInv'
<1> USE DEF TopicInv, LogInv
<1>1. /\ sub' \in [Conn -> [Topic -> 0 .. created]] /\ sub'[c][t] = 0
      /\ \A d \in Conn, u \in Topic : d # c \/ u # t => sub'[d][u] = sub[d][u]
  <2>1. 0 \in 0 .. created
    BY DEF TypeOK
  <2> QED
    BY <2>1 DEF Unsubscribe, Detach, TypeOK
<1>2. /\ owed' \in [Conn -> [Topic -> SUBSET Msg]] /\ owed'[c][t] = {}
      /\ \A d \in Conn, u \in Topic : d # c \/ u # t => owed'[d][u] = owed[d][u]
  BY DEF Unsubscribe, TypeOK
<1>3. /\ topic_map' \in [Conn -> SUBSET Topic]
      /\ \A d \in Conn, u \in Topic : d # c \/ u # t => (u \in topic_map'[d] <=> u \in topic_map[d])
  BY DEF Unsubscribe, TypeOK
<1>4. TypeOK'
  BY <1>1, <1>2, <1>3 DEF Unsubscribe, TypeOK, chanVars, pubVars, gcVars
<1>5. ChanInv' /\ SentInv' /\ PlaceInv' /\ FlightInv'
  BY LogFrame DEF Unsubscribe, chanVars, TypeOK
<1>6. ASSUME NEW d \in Conn, NEW u \in Topic
      PROVE  Stream(d, u)'
  <2>0. UNCHANGED <<log, topics, next, delivered, past, publishing, message>> /\ topics[u] \in Nat
    BY DEF Unsubscribe, chanVars, pubVars, TypeOK
  <2>1. CASE d = c /\ u = t
    BY <1>1, <1>2, <2>0, <2>1, DetachedOK
  <2>2. CASE d # c \/ u # t
    BY <1>1, <1>2, <1>3, <2>0, <2>2, StreamFrame
  <2> QED
    BY <2>1, <2>2
<1> QED
  BY <1>4, <1>5, <1>6 DEF StreamInv

LEMMA StreamEndsInv ==
    ASSUME TopicInv, NEW c \in Conn, NEW t \in Topic, StreamEnds(c, t)
    PROVE  TopicInv'
<1> USE DEF TopicInv, LogInv
<1>1. /\ sub' \in [Conn -> [Topic -> 0 .. created]] /\ sub'[c][t] = 0
      /\ \A d \in Conn, u \in Topic : d # c \/ u # t => sub'[d][u] = sub[d][u]
  <2>1. 0 \in 0 .. created
    BY DEF TypeOK
  <2> QED
    BY <2>1 DEF StreamEnds, TypeOK
<1>4. TypeOK'
  BY <1>1 DEF StreamEnds, TypeOK, chanVars, pubVars, gcVars, history
<1>5. ChanInv' /\ SentInv' /\ PlaceInv' /\ FlightInv'
  BY LogFrame DEF StreamEnds, chanVars, TypeOK
<1>6. ASSUME NEW d \in Conn, NEW u \in Topic
      PROVE  Stream(d, u)'
  <2>0. /\ UNCHANGED <<log, topics, topic_map, next, delivered, owed, past, publishing, message>>
        /\ topics[u] \in Nat
    BY DEF StreamEnds, chanVars, pubVars, history, TypeOK
  <2>1. CASE d = c /\ u = t
    <3>1. t \notin topic_map[c] => owed[c][t] = {}
      BY DEF StreamInv, Stream, SubOK
    <3> QED
      BY <1>1, <2>0, <2>1, <3>1, DetachedOK
  <2>2. CASE d # c \/ u # t
    BY <1>1, <2>0, <2>2, StreamFrame
  <2> QED
    BY <2>1, <2>2
<1> QED
  BY <1>4, <1>5, <1>6 DEF StreamInv

LEMMA StopInv ==
    ASSUME TopicInv, NEW c \in Conn, Stop(c)
    PROVE  TopicInv'
<1> USE DEF TopicInv, LogInv
<1>1. /\ sub' \in [Conn -> [Topic -> 0 .. created]] /\ \A u \in Topic : sub'[c][u] = 0
      /\ \A d \in Conn : d # c => sub'[d] = sub[d]
  <2>1. 0 \in 0 .. created
    BY DEF TypeOK
  <2> QED
    BY <2>1 DEF Stop, TypeOK
<1>2. /\ owed' \in [Conn -> [Topic -> SUBSET Msg]] /\ \A u \in Topic : owed'[c][u] = {}
      /\ \A d \in Conn : d # c => owed'[d] = owed[d]
  BY DEF Stop, TypeOK
<1>3. /\ topic_map' \in [Conn -> SUBSET Topic]
      /\ \A d \in Conn : d # c => topic_map'[d] = topic_map[d]
  BY DEF Stop, TypeOK
<1>4. TypeOK'
  BY <1>1, <1>2, <1>3 DEF Stop, TypeOK, chanVars, pubVars, gcVars
<1>5. ChanInv' /\ SentInv' /\ PlaceInv' /\ FlightInv'
  BY LogFrame DEF Stop, chanVars, TypeOK
<1>6. ASSUME NEW d \in Conn, NEW u \in Topic
      PROVE  Stream(d, u)'
  <2>0. UNCHANGED <<log, topics, next, delivered, past, publishing, message>> /\ topics[u] \in Nat
    BY DEF Stop, chanVars, pubVars, TypeOK
  <2>1. CASE d = c
    BY <1>1, <1>2, <2>0, <2>1, DetachedOK
  <2>2. CASE d # c
    BY <1>1, <1>2, <1>3, <2>0, <2>2, StreamFrame
  <2> QED
    BY <2>1, <2>2
<1> QED
  BY <1>4, <1>5, <1>6 DEF StreamInv

\* The collector.
LEMMA GcInv ==
    ASSUME TopicInv, GcCollect \/ GcRemove
    PROVE  TopicInv'
<1> USE DEF TopicInv, LogInv
<1>1. /\ topics' \in [Topic -> 0 .. created]
      /\ \A u \in Topic : topics'[u] # topics[u] => topics'[u] = 0
  <2>1. 0 \in 0 .. created
    BY DEF TypeOK
  <2>2. CASE GcCollect
    BY <2>2 DEF GcCollect, chanVars, TypeOK
  <2>3. CASE GcRemove
    BY <2>1, <2>3 DEF GcRemove, TypeOK
  <2> QED
    BY <2>2, <2>3
<1>2. /\ UNCHANGED <<alive, created, log, topic_map, sub, next, publishing, message, sent,
                     delivered, owed, past>>
      /\ gc_running' \in BOOLEAN /\ empty_topics' \subseteq Topic
  BY DEF GcCollect, GcRemove, EmptyTopics, chanVars, subVars, pubVars, history
<1>3. TypeOK'
  BY <1>1, <1>2 DEF TypeOK
<1>4. ChanInv' /\ SentInv' /\ PlaceInv' /\ FlightInv'
  BY <1>2, LogFrame DEF pubVars, TypeOK
<1>5. ASSUME NEW d \in Conn, NEW u \in Topic
      PROVE  Stream(d, u)'
  <2>1. topics'[u] \in Nat
    BY <1>1 DEF TypeOK
  <2> QED
    BY <1>1, <1>2, <2>1, StreamFrame
<1> QED
  BY <1>3, <1>4, <1>5 DEF StreamInv

-----------------------------------------------------------------------------
(* Publishing.                                                             *)

\* The message is new, and c has it now unless there is no channel.
LEMMA FindTopicInv ==
    ASSUME TopicInv, NEW c \in Conn, NEW t \in Topic, FindTopic(c, t)
    PROVE  TopicInv'
<1> USE DEF TopicInv, LogInv
<1>0. /\ sent \in Nat /\ sent' = sent + 1 /\ sent' \in 0 .. MaxMsg /\ sent' \in Msg
      /\ UNCHANGED <<alive, topics, created, log, topic_map, sub, next, gc_running, empty_topics,
                     delivered, past>>
      /\ publishing[c] = 0 /\ message[c] = 0
  BY TopicsAssumption DEF FindTopic, TypeOK, Msg, chanVars, subVars, gcVars, Idle, SentInv
<1>1. /\ publishing' \in [Conn -> 0 .. created] /\ publishing'[c] = topics[t]
      /\ \A p \in Conn : p # c => publishing'[p] = publishing[p]
  BY DEF FindTopic, TypeOK
<1>2. /\ message' \in [Conn -> 0 .. MaxMsg]
      /\ message'[c] = IF topics[t] = 0 THEN 0 ELSE sent'
      /\ \A p \in Conn : p # c => message'[p] = message[p]
  <2>1. (IF topics[t] = 0 THEN 0 ELSE sent') \in 0 .. MaxMsg
    BY <1>0, TopicsAssumption
  <2> QED
    BY <2>1 DEF FindTopic, TypeOK
<1>3. /\ owed' \in [Conn -> [Topic -> SUBSET Msg]]
      /\ \A d \in Conn, u \in Topic :
            owed'[d][u] = IF u = t /\ t \in topic_map[d] THEN owed[d][u] \cup {sent'}
                                                         ELSE owed[d][u]
  <2>1. owed' = [d \in Conn |->
                   [owed[d] EXCEPT ![t] = IF t \in topic_map[d] THEN @ \cup {sent'} ELSE @]]
    BY DEF FindTopic
  <2>2. ASSUME NEW d \in Conn
        PROVE  /\ owed'[d] \in [Topic -> SUBSET Msg]
               /\ \A u \in Topic :
                     owed'[d][u] = IF u = t /\ t \in topic_map[d] THEN owed[d][u] \cup {sent'}
                                                                  ELSE owed[d][u]
    <3>1. owed[d] \in [Topic -> SUBSET Msg]
      BY DEF TypeOK
    <3>2. owed'[d] = [owed[d] EXCEPT ![t] = IF t \in topic_map[d] THEN @ \cup {sent'} ELSE @]
      BY <2>1
    <3>3. owed[d][t] \cup {sent'} \in SUBSET Msg
      BY <1>0, <3>1
    <3>4. CASE t \in topic_map[d]
      BY <3>1, <3>2, <3>3, <3>4
    <3>5. CASE t \notin topic_map[d]
      BY <3>1, <3>2, <3>5
    <3> QED
      BY <3>4, <3>5
  <2> QED
    BY <2>1, <2>2
<1>4. TypeOK'
  BY <1>0, <1>1, <1>2, <1>3 DEF TypeOK
<1>5. ChanInv' /\ PlaceInv'
  BY <1>0 DEF ChanInv, PlaceInv
<1>6. \A ch \in Chan : \A j \in 1 .. Len(log[ch]) : log[ch][j] <= sent /\ log[ch][j] \in Nat
  BY TopicsAssumption DEF SentInv, TypeOK, Msg
<1>7. \A p \in Conn : message[p] <= sent /\ message[p] \in Nat
  BY TopicsAssumption DEF SentInv, TypeOK
<1>8. SentInv'
  <2>1. \A ch \in Chan : \A j \in 1 .. Len(log'[ch]) : log'[ch][j] <= sent'
    BY <1>0, <1>6
  <2>2. \A p \in Conn : message'[p] <= sent' /\ (message'[p] = 0 <=> publishing'[p] = 0)
    BY <1>0, <1>1, <1>2, <1>7 DEF SentInv
  <2> QED
    BY <2>1, <2>2 DEF SentInv
<1>9. FlightInv'
  <2>1. \A p \in Conn : message'[p] # 0 =>
           \A ch \in Chan : \A j \in 1 .. Len(log[ch]) : log[ch][j] # message'[p]
    BY <1>0, <1>2, <1>6 DEF FlightInv
  <2>2. \A p, q \in Conn : message'[p] # 0 /\ message'[p] = message'[q] => p = q
    BY <1>0, <1>2, <1>7 DEF FlightInv
  <2> QED
    BY <1>0, <2>1, <2>2 DEF FlightInv
<1>10. ASSUME NEW d \in Conn, NEW u \in Topic
       PROVE  Stream(d, u)'
  <2>0. \A p \in Conn : publishing[p] # 0 =>
           publishing'[p] = publishing[p] /\ message'[p] = message[p]
    BY <1>0, <1>1, <1>2
  <2>1. CASE owed'[d][u] = owed[d][u]
    <3>1. topics'[u] \in Nat /\ topics'[u] = topics[u]
      BY <1>0 DEF TypeOK
    <3> QED
      BY <1>0, <2>0, <2>1, <3>1, StreamFrame
  <2>2. CASE u = t /\ t \in topic_map[d] /\ owed'[d][u] = owed[d][u] \cup {sent'}
    <3>0. Stream(d, u)
      BY DEF StreamInv
    <3>1. SubOK(d, u)' /\ PastOK(d, u)' /\ GivenOK(d, u)'
      BY <1>0, <2>2, <3>0 DEF Stream, SubOK, PastOK, GivenOK
    <3>2. BehindOK(d, u)'
      BY <1>0, <3>0 DEF Stream, BehindOK, Before
    <3>3. OrderOK(d, u)'
      <4>1. OrderOK(d, u)
        BY <3>0 DEF Stream
      <4>2. log' = log /\ delivered' = delivered
        BY <1>0 DEF chanVars, subVars, history
      <4> QED
        BY <4>1, <4>2, SMTT(40) DEF OrderOK
    <3>4. OwedOK(d, u)'
      <4> SUFFICES ASSUME sub[d][u] # 0, sub[d][u] = topics[u], NEW m \in owed'[d][u]
                   PROVE  \/ \E k \in 1 .. Len(delivered[d][u]) : delivered[d][u][k] = m
                          \/ \E p \in Conn : publishing'[p] = sub[d][u] /\ message'[p] = m
                          \/ \E j \in 1 .. Len(log[sub[d][u]]) :
                                /\ log[sub[d][u]][j] = m
                                /\ j >= next[d][u] \/ j <= Len(log[sub[d][u]]) - Backlog
        BY <1>0 DEF OwedOK
      <4>1. CASE m = sent'
        BY <1>1, <1>2, <2>2, <4>1
      <4>2. CASE m \in owed[d][u]
        <5>1. CASE \E p \in Conn : publishing[p] = sub[d][u] /\ message[p] = m
          BY <2>0, <5>1
        <5>2. CASE ~\E p \in Conn : publishing[p] = sub[d][u] /\ message[p] = m
          BY <3>0, <4>2, <5>2 DEF Stream, OwedOK
        <5> QED
          BY <5>1, <5>2
      <4> QED
        BY <2>2, <4>1, <4>2
    <3> QED
      BY <3>1, <3>2, <3>3, <3>4 DEF Stream
  <2> QED
    BY <1>3, <2>1, <2>2
<1> QED
  BY <1>4, <1>5, <1>8, <1>9, <1>10 DEF StreamInv

\* What a send changes in the logs: one message more, at the end of one channel.
LEMMA SendEffect ==
    ASSUME TopicInv, NEW c \in Conn, SendBroadcast(c), Receivers(publishing[c]) # {}
    PROVE  /\ publishing[c] \in Chan /\ publishing[c] <= created
           /\ log' \in [Chan -> Seq(Msg)]
           /\ \A ch \in Chan : ch # publishing[c] => log'[ch] = log[ch]
           /\ Len(log'[publishing[c]]) = Len(log[publishing[c]]) + 1
           /\ log'[publishing[c]][Len(log[publishing[c]]) + 1] = message[c]
           /\ \A ch \in Chan : \A j \in 1 .. Len(log[ch]) :
                 j \in 1 .. Len(log'[ch]) /\ log'[ch][j] = log[ch][j]
           /\ \A ch \in Chan : \A j \in 1 .. Len(log'[ch]) :
                 \/ j \in 1 .. Len(log[ch]) /\ log'[ch][j] = log[ch][j]
                 \/ ch = publishing[c] /\ j = Len(log[publishing[c]]) + 1 /\ log'[ch][j] = message[c]
<1> USE DEF TopicInv, LogInv
<1>1. PICK ci : ci = publishing[c]
  OBVIOUS
<1>2. /\ ci \in Chan /\ ci <= created /\ log[ci] \in Seq(Msg) /\ Len(log[ci]) \in Nat
  BY <1>1, ChanType DEF SendBroadcast, TypeOK
<1>3. message[c] \in Msg
  BY DEF SendBroadcast, SentInv, TypeOK, Msg
<1>4. /\ log' \in [Chan -> Seq(Msg)] /\ log'[ci] = Append(log[ci], message[c])
      /\ \A ch \in Chan : ch # ci => log'[ch] = log[ch]
  <2>1. log' = [log EXCEPT ![ci] = Append(log[ci], message[c])]
    BY <1>1 DEF SendBroadcast
  <2> QED
    BY <1>2, <1>3, <2>1 DEF TypeOK
<1>5. /\ Len(log'[ci]) = Len(log[ci]) + 1 /\ log'[ci][Len(log[ci]) + 1] = message[c]
      /\ \A j \in 1 .. Len(log[ci]) : log'[ci][j] = log[ci][j]
  BY <1>2, <1>3, <1>4
<1>6. ASSUME NEW ch \in Chan, NEW j \in 1 .. Len(log[ch])
      PROVE  j \in 1 .. Len(log'[ch]) /\ log'[ch][j] = log[ch][j]
  BY <1>2, <1>4, <1>5, SMTT(40)
<1>7. ASSUME NEW ch \in Chan, NEW j \in 1 .. Len(log'[ch])
      PROVE  \/ j \in 1 .. Len(log[ch]) /\ log'[ch][j] = log[ch][j]
             \/ ch = ci /\ j = Len(log[ci]) + 1 /\ log'[ch][j] = message[c]
  BY <1>2, <1>4, <1>5
<1> QED
  BY <1>1, <1>2, <1>4, <1>5, <1>6, <1>7

\* Sender::send without a receiver: the message is gone, and nobody who
\* listens to that channel is there to miss it.
LEMMA SendNowhereInv ==
    ASSUME TopicInv, NEW c \in Conn, SendBroadcast(c), Receivers(publishing[c]) = {}
    PROVE  TopicInv'
<1> USE DEF TopicInv, LogInv
<1>0. /\ UNCHANGED <<alive, topics, created, topic_map, sub, next, sent, gc_running, empty_topics,
                     delivered, owed, past>>
      /\ publishing[c] # 0
  BY DEF SendBroadcast, subVars, gcVars, history
<1>1. log' = log
  <2>1. log' = [log EXCEPT ![publishing[c]] = log[publishing[c]]]
    BY DEF SendBroadcast
  <2> QED
    BY <2>1 DEF TypeOK
<1>2. /\ publishing' \in [Conn -> 0 .. created] /\ publishing'[c] = 0
      /\ \A p \in Conn : p # c => publishing'[p] = publishing[p]
  <2>1. 0 \in 0 .. created
    BY DEF TypeOK
  <2> QED
    BY <2>1 DEF SendBroadcast, TypeOK
<1>3. /\ message' \in [Conn -> 0 .. MaxMsg] /\ message'[c] = 0
      /\ \A p \in Conn : p # c => message'[p] = message[p]
  <2>1. 0 \in 0 .. MaxMsg
    BY TopicsAssumption
  <2> QED
    BY <2>1 DEF SendBroadcast, TypeOK
<1>4. TypeOK'
  BY <1>0, <1>1, <1>2, <1>3 DEF TypeOK
<1>5. ChanInv' /\ PlaceInv'
  BY <1>0, <1>1 DEF ChanInv, PlaceInv
<1>6. SentInv'
  <2>1. 0 <= sent
    BY DEF TypeOK
  <2> QED
    BY <1>0, <1>1, <1>2, <1>3, <2>1 DEF SentInv
<1>7. FlightInv'
  BY <1>1, <1>3 DEF FlightInv
<1>8. ASSUME NEW d \in Conn, NEW u \in Topic
      PROVE  Stream(d, u)'
  <2>0. Stream(d, u)
    BY DEF StreamInv
  <2>1. SubOK(d, u)' /\ PastOK(d, u)' /\ GivenOK(d, u)'
    BY <1>0, <1>1, <2>0 DEF Stream, SubOK, PastOK, GivenOK
  <2>2. BehindOK(d, u)'
    BY <1>0, <1>1, <2>0 DEF Stream, BehindOK, Before
  <2>3. OrderOK(d, u)'
    <3>1. OrderOK(d, u)
      BY <2>0 DEF Stream
    <3>2. log' = log /\ delivered' = delivered
      BY <1>0, <1>1 DEF chanVars, subVars, history
    <3> QED
      BY <3>1, <3>2, SMTT(40) DEF OrderOK
  <2>4. OwedOK(d, u)'
    <3> SUFFICES ASSUME sub[d][u] # 0, sub[d][u] = topics[u], NEW m \in owed[d][u]
                 PROVE  \/ \E k \in 1 .. Len(delivered[d][u]) : delivered[d][u][k] = m
                        \/ \E p \in Conn : publishing'[p] = sub[d][u] /\ message'[p] = m
                        \/ \E j \in 1 .. Len(log[sub[d][u]]) :
                              /\ log[sub[d][u]][j] = m
                              /\ j >= next[d][u] \/ j <= Len(log[sub[d][u]]) - Backlog
      BY <1>0, <1>1 DEF OwedOK
    <3>1. sub[d][u] # publishing[c]
      <4> SUFFICES ASSUME sub[d][u] = publishing[c] PROVE FALSE
        OBVIOUS
      <4>1. <<d, u>> \in Receivers(publishing[c])
        BY DEF Receivers
      <4> QED
        BY <4>1
    <3>2. CASE \E p \in Conn : publishing[p] = sub[d][u] /\ message[p] = m
      BY <1>2, <1>3, <3>1, <3>2
    <3>3. CASE ~\E p \in Conn : publishing[p] = sub[d][u] /\ message[p] = m
      BY <2>0, <3>3 DEF Stream, OwedOK
    <3> QED
      BY <3>2, <3>3
  <2> QED
    BY <2>1, <2>2, <2>3, <2>4 DEF Stream
<1> QED
  BY <1>4, <1>5, <1>6, <1>7, <1>8 DEF StreamInv

\* Sender::send with receivers: the message gets the next place of the channel.
LEMMA SendInv ==
    ASSUME TopicInv, NEW c \in Conn, SendBroadcast(c), Receivers(publishing[c]) # {}
    PROVE  TopicInv'
<1> USE DEF TopicInv, LogInv
<1>0. /\ UNCHANGED <<alive, topics, created, topic_map, sub, next, sent, gc_running, empty_topics,
                     delivered, owed, past>>
      /\ publishing[c] # 0 /\ message[c] # 0
  BY DEF SendBroadcast, subVars, gcVars, history, SentInv
<1> DEFINE P == publishing[c]
           N == Len(log[P]) + 1
<1>1. /\ P \in Chan /\ P <= created /\ log' \in [Chan -> Seq(Msg)]
      /\ Len(log'[P]) = N /\ log'[P][N] = message[c]
      /\ \A ch \in Chan : ch # P => log'[ch] = log[ch]
      /\ \A ch \in Chan : \A j \in 1 .. Len(log[ch]) :
            j \in 1 .. Len(log'[ch]) /\ log'[ch][j] = log[ch][j]
      /\ \A ch \in Chan : \A j \in 1 .. Len(log'[ch]) :
            \/ j \in 1 .. Len(log[ch]) /\ log'[ch][j] = log[ch][j]
            \/ ch = P /\ j = N /\ log'[ch][j] = message[c]
  BY SendEffect
<1>2. /\ publishing' \in [Conn -> 0 .. created] /\ publishing'[c] = 0
      /\ \A p \in Conn : p # c => publishing'[p] = publishing[p]
  <2>1. 0 \in 0 .. created
    BY DEF TypeOK
  <2> QED
    BY <2>1 DEF SendBroadcast, TypeOK
<1>3. /\ message' \in [Conn -> 0 .. MaxMsg] /\ message'[c] = 0
      /\ \A p \in Conn : p # c => message'[p] = message[p]
  <2>1. 0 \in 0 .. MaxMsg
    BY TopicsAssumption
  <2> QED
    BY <2>1 DEF SendBroadcast, TypeOK
<1>a. N \in Nat \ {0} /\ Len(log[P]) \in Nat
  <2>1. log[P] \in Seq(Msg)
    BY <1>1 DEF TypeOK
  <2> QED
    BY <2>1
<1>b. \A ch \in Chan : Len(log[ch]) \in Nat /\ Len(log'[ch]) \in Nat
  BY <1>1 DEF TypeOK
<1>c. \A ch \in Chan : \A j \in 1 .. Len(log[ch]) : log[ch][j] # message[c]
  BY <1>0 DEF FlightInv
<1> HIDE DEF P, N
<1>4. TypeOK'
  BY <1>0, <1>1, <1>2, <1>3 DEF TypeOK
<1>5. ChanInv'
  <2>1. \A ch \in Chan : ch > created => ch # P
    BY <1>1, TopicsAssumption DEF TypeOK, Chan
  <2> QED
    BY <1>0, <1>1, <2>1 DEF ChanInv
<1>6. PlaceInv'
  <2> SUFFICES ASSUME NEW ch \in Chan, NEW ci \in Chan, NEW j \in 1 .. Len(log'[ch]),
                      NEW i \in 1 .. Len(log'[ci]), log'[ch][j] = log'[ci][i]
               PROVE  ch = ci /\ j = i
    BY DEF PlaceInv
  <2>1. CASE ch = P /\ j = N /\ log'[ch][j] = message[c]
    BY <1>1, <1>c, <2>1
  <2>2. CASE ci = P /\ i = N /\ log'[ci][i] = message[c]
    BY <1>1, <1>c, <2>2
  <2>3. CASE /\ j \in 1 .. Len(log[ch]) /\ log'[ch][j] = log[ch][j]
             /\ i \in 1 .. Len(log[ci]) /\ log'[ci][i] = log[ci][i]
    <3>1. log[ch][j] = log[ci][i]
      BY <2>3
    <3> QED
      BY <2>3, <3>1 DEF PlaceInv
  <2> QED
    BY <1>1, <2>1, <2>2, <2>3
<1>7. SentInv'
  <2>1. 0 <= sent
    BY DEF TypeOK
  <2>2. \A ch \in Chan : \A j \in 1 .. Len(log'[ch]) : log'[ch][j] <= sent
    BY <1>1 DEF SentInv
  <2>3. \A p \in Conn : message'[p] <= sent /\ (message'[p] = 0 <=> publishing'[p] = 0)
    BY <1>2, <1>3, <2>1 DEF SentInv
  <2> QED
    BY <1>0, <2>2, <2>3 DEF SentInv
<1>8. FlightInv'
  <2>1. \A p \in Conn : message'[p] # 0 => p # c /\ message'[p] = message[p] /\ message[p] # message[c]
    BY <1>0, <1>3 DEF FlightInv
  <2>2. \A p \in Conn : message'[p] # 0 =>
           \A ch \in Chan : \A j \in 1 .. Len(log'[ch]) : log'[ch][j] # message'[p]
    BY <1>1, <2>1 DEF FlightInv
  <2>3. \A p, q \in Conn : message'[p] # 0 /\ message'[p] = message'[q] => p = q
    BY <2>1 DEF FlightInv
  <2> QED
    BY <2>2, <2>3 DEF FlightInv
<1>9. ASSUME NEW d \in Conn, NEW u \in Topic
      PROVE  Stream(d, u)'
  <2>0. Stream(d, u) /\ sub[d][u] \in 0 .. created /\ next[d][u] \in Nat \ {0}
    BY DEF StreamInv, TypeOK
  <2>1. sub[d][u] # 0 => sub[d][u] \in Chan
    BY <2>0, ChanType
  <2>2. SubOK(d, u)'
    <3>1. \A ch \in Chan : Len(log[ch]) <= Len(log'[ch])
      BY <1>1, <1>a, <1>b DEF N
    <3> QED
      BY <1>0, <1>b, <2>0, <2>1, <3>1, SMTT(40) DEF Stream, SubOK
  <2>3. PastOK(d, u)'
    <3>1. \A m \in past[d][u] : \E ch \in Chan : \E j \in 1 .. Len(log[ch]) : log[ch][j] = m
      BY <2>0 DEF Stream, PastOK
    <3>2. message[c] \notin past[d][u]
      BY <1>c, <3>1
    <3>3. \A m \in past[d][u] : \E ch \in Chan : \E j \in 1 .. Len(log'[ch]) : log'[ch][j] = m
      <4> SUFFICES ASSUME NEW m \in past[d][u]
                   PROVE  \E ch \in Chan : \E j \in 1 .. Len(log'[ch]) : log'[ch][j] = m
        OBVIOUS
      <4>1. PICK ch \in Chan : \E j \in 1 .. Len(log[ch]) : log[ch][j] = m
        BY <3>1
      <4>2. PICK j \in 1 .. Len(log[ch]) : log[ch][j] = m
        BY <4>1
      <4> QED
        BY <1>1, <4>2
    <3>4. ASSUME sub[d][u] # 0, NEW j \in next[d][u] .. Len(log'[sub[d][u]])
          PROVE  log'[sub[d][u]][j] \notin past[d][u]
      <4>1. j \in 1 .. Len(log'[sub[d][u]])
        BY <1>b, <2>0, <2>1, <3>4
      <4>2. CASE j \in 1 .. Len(log[sub[d][u]]) /\ log'[sub[d][u]][j] = log[sub[d][u]][j]
        <5>1. j \in next[d][u] .. Len(log[sub[d][u]])
          BY <1>b, <2>0, <2>1, <3>4, <4>2
        <5> QED
          BY <2>0, <3>4, <4>2, <5>1 DEF Stream, PastOK
      <4>3. CASE log'[sub[d][u]][j] = message[c]
        BY <3>2, <4>3
      <4> QED
        BY <1>1, <2>1, <3>4, <4>1, <4>2, <4>3
    <3> QED
      BY <1>0, <3>3, <3>4 DEF PastOK
  <2>4. GivenOK(d, u)'
    BY <1>0, <1>1, <2>0 DEF Stream, GivenOK
  <2>5. ASSUME NEW k \in 1 .. Len(delivered[d][u]), NEW ch \in Chan, NEW j \in 1 .. Len(log'[ch]),
               log'[ch][j] = delivered[d][u][k]
        PROVE  j \in 1 .. Len(log[ch]) /\ log[ch][j] = delivered[d][u][k]
    <3>1. delivered[d][u][k] # message[c]
      BY <1>c, <2>0 DEF Stream, GivenOK
    <3> QED
      BY <1>1, <2>5, <3>1
  <2>6. BehindOK(d, u)'
    <3>1. BehindOK(d, u)
      BY <2>0 DEF Stream
    <3> QED
      BY <1>0, <2>5, <3>1, SMTT(40) DEF BehindOK, Before
  <2>7. OrderOK(d, u)'
    <3>1. OrderOK(d, u)
      BY <2>0 DEF Stream
    <3> QED
      BY <1>0, <2>5, <3>1, SMTT(40) DEF OrderOK, Before
  <2>8. OwedOK(d, u)'
    <3> DEFINE S == sub[d][u]
    <3> SUFFICES ASSUME S # 0, S = topics[u], NEW m \in owed[d][u]
                 PROVE  \/ \E k \in 1 .. Len(delivered[d][u]) : delivered[d][u][k] = m
                        \/ \E p \in Conn : publishing'[p] = S /\ message'[p] = m
                        \/ \E j \in 1 .. Len(log'[S]) :
                              /\ log'[S][j] = m
                              /\ j >= next[d][u] \/ j <= Len(log'[S]) - Backlog
      BY <1>0 DEF OwedOK
    <3>1. CASE publishing[c] = S /\ message[c] = m
      <4>1. P = S /\ log'[S][N] = m /\ N \in 1 .. Len(log'[S])
        BY <1>1, <1>a, <3>1 DEF P
      <4>2. N >= next[d][u]
        BY <2>0, <4>1 DEF Stream, SubOK, N
      <4> QED
        BY <4>1, <4>2
    <3>2. ASSUME NEW p \in Conn, publishing[p] = S, message[p] = m, ~(publishing[c] = S /\ message[c] = m)
          PROVE  publishing'[p] = S /\ message'[p] = m
      BY <1>2, <1>3, <3>2
    <3>3. ASSUME NEW j \in 1 .. Len(log[S]), log[S][j] = m,
                 j >= next[d][u] \/ j <= Len(log[S]) - Backlog
          PROVE  /\ j \in 1 .. Len(log'[S]) /\ log'[S][j] = m
                 /\ j >= next[d][u] \/ j <= Len(log'[S]) - Backlog
      <4>1. S \in Chan /\ Len(log[S]) <= Len(log'[S])
        BY <1>1, <1>a, <1>b, <2>1 DEF N
      <4>2. j \in 1 .. Len(log'[S]) /\ log'[S][j] = m
        BY <1>1, <3>3, <4>1
      <4>3. j <= Len(log[S]) - Backlog => j <= Len(log'[S]) - Backlog
        BY <1>b, <4>1, TopicsAssumption
      <4> QED
        BY <3>3, <4>2, <4>3
    <3>4. \/ \E k \in 1 .. Len(delivered[d][u]) : delivered[d][u][k] = m
          \/ \E p \in Conn : publishing[p] = S /\ message[p] = m
          \/ \E j \in 1 .. Len(log[S]) :
                /\ log[S][j] = m
                /\ j >= next[d][u] \/ j <= Len(log[S]) - Backlog
      BY <2>0 DEF Stream, OwedOK
    <3> HIDE DEF S
    <3> QED
      BY <3>1, <3>2, <3>3, <3>4
  <2> QED
    BY <2>2, <2>3, <2>4, <2>6, <2>7, <2>8 DEF Stream
<1> QED
  BY <1>4, <1>5, <1>6, <1>7, <1>8, <1>9 DEF StreamInv

-----------------------------------------------------------------------------
(* Receiving.                                                              *)

\* What receiving does: the message at the stream's position is given, and
\* the stream moves behind it.
LEMMA ReceiveEffect ==
    ASSUME TopicInv, NEW c \in Conn, NEW t \in Topic, Receive(c, t)
    PROVE  /\ sub[c][t] \in Chan /\ sub[c][t] # 0 /\ next[c][t] \in 1 .. Len(log[sub[c][t]])
           /\ next' \in [Conn -> [Topic -> Nat \ {0}]] /\ next'[c][t] = next[c][t] + 1
           /\ delivered' \in [Conn -> [Topic -> Seq(Msg)]]
           /\ Len(delivered[c][t]) \in Nat /\ Len(delivered'[c][t]) = Len(delivered[c][t]) + 1
           /\ delivered'[c][t][Len(delivered[c][t]) + 1] = log[sub[c][t]][next[c][t]]
           /\ \A k \in 1 .. Len(delivered[c][t]) : delivered'[c][t][k] = delivered[c][t][k]
           /\ \A d \in Conn, u \in Topic : d # c \/ u # t =>
                 next'[d][u] = next[d][u] /\ delivered'[d][u] = delivered[d][u]
<1> USE DEF TopicInv, LogInv
<1>1. /\ sub[c][t] \in Chan /\ sub[c][t] # 0 /\ log[sub[c][t]] \in Seq(Msg)
      /\ next[c][t] \in 1 .. Len(log[sub[c][t]]) /\ next[c][t] \in Nat
  <2>1. sub[c][t] # 0 /\ sub[c][t] \in 0 .. created /\ next[c][t] \in Nat \ {0}
    BY DEF Receive, HasNext, TypeOK
  <2>2. sub[c][t] \in Chan /\ log[sub[c][t]] \in Seq(Msg) /\ Len(log[sub[c][t]]) \in Nat
    BY <2>1, ChanType
  <2> QED
    BY <2>1, <2>2 DEF Receive, HasNext
<1>2. PICK m : m = log[sub[c][t]][next[c][t]]
  OBVIOUS
<1>3. m \in Msg
  BY <1>1, <1>2
<1>4. /\ next' \in [Conn -> [Topic -> Nat \ {0}]] /\ next'[c][t] = next[c][t] + 1
      /\ \A d \in Conn, u \in Topic : d # c \/ u # t => next'[d][u] = next[d][u]
  BY <1>1 DEF Receive, Advance, TypeOK
<1>5. /\ delivered' \in [Conn -> [Topic -> Seq(Msg)]]
      /\ delivered'[c][t] = Append(delivered[c][t], m)
      /\ \A d \in Conn, u \in Topic : d # c \/ u # t => delivered'[d][u] = delivered[d][u]
  <2>1. delivered' = [delivered EXCEPT ![c][t] = Append(@, m)]
    BY <1>2 DEF Receive
  <2>2. delivered[c][t] \in Seq(Msg) /\ Append(delivered[c][t], m) \in Seq(Msg)
    BY <1>3 DEF TypeOK
  <2> QED
    BY <2>1, <2>2 DEF TypeOK
<1>6. /\ Len(delivered[c][t]) \in Nat /\ Len(delivered'[c][t]) = Len(delivered[c][t]) + 1
      /\ delivered'[c][t][Len(delivered[c][t]) + 1] = m
      /\ \A k \in 1 .. Len(delivered[c][t]) : delivered'[c][t][k] = delivered[c][t][k]
  <2>1. delivered[c][t] \in Seq(Msg)
    BY DEF TypeOK
  <2> QED
    BY <1>3, <1>5, <2>1
<1> QED
  BY <1>1, <1>2, <1>4, <1>5, <1>6

LEMMA ReceiveInv ==
    ASSUME TopicInv, NEW c \in Conn, NEW t \in Topic, Receive(c, t)
    PROVE  TopicInv'
<1> USE DEF TopicInv, LogInv
<1> DEFINE S == sub[c][t]
           n == next[c][t]
           D == delivered[c][t]
           E == delivered'[c][t]
<1>0. UNCHANGED <<alive, topics, created, log, topic_map, sub, publishing, message, sent,
                  gc_running, empty_topics, owed, past>>
  BY DEF Receive, chanVars, pubVars, gcVars
<1>1. /\ S \in Chan /\ S # 0 /\ n \in 1 .. Len(log[S])
      /\ next' \in [Conn -> [Topic -> Nat \ {0}]] /\ next'[c][t] = n + 1
      /\ delivered' \in [Conn -> [Topic -> Seq(Msg)]]
      /\ Len(D) \in Nat /\ Len(E) = Len(D) + 1 /\ E[Len(D) + 1] = log[S][n]
      /\ \A k \in 1 .. Len(D) : E[k] = D[k]
      /\ \A d \in Conn, u \in Topic : d # c \/ u # t =>
            next'[d][u] = next[d][u] /\ delivered'[d][u] = delivered[d][u]
  BY ReceiveEffect
<1>2. Len(log[S]) \in Nat /\ n \in Nat /\ S \in Nat
  <2>1. log[S] \in Seq(Msg) /\ n \in Nat /\ S \in Nat
    BY <1>1, TopicsAssumption DEF TypeOK
  <2> QED
    BY <2>1
<1>3. TypeOK'
  BY <1>0, <1>1 DEF TypeOK
<1>4. ChanInv' /\ SentInv' /\ PlaceInv' /\ FlightInv'
  BY <1>0, LogFrame DEF pubVars, TypeOK
<1>5. Stream(c, t)'
  <2>0. Stream(c, t)
    BY DEF StreamInv
  <2>a. SubOK(c, t) /\ PastOK(c, t) /\ GivenOK(c, t) /\ BehindOK(c, t) /\ OrderOK(c, t) /\ OwedOK(c, t)
    BY <2>0 DEF Stream
  <2>b. \A ch \in Chan : \A j \in 1 .. Len(log[ch]) : log[ch][j] = log[S][n] => ch = S /\ j = n
    BY <1>1, SMTT(40) DEF PlaceInv
  <2>c. \A k \in 1 .. Len(E) : \/ k \in 1 .. Len(D) /\ E[k] = D[k]
                               \/ k = Len(D) + 1 /\ E[k] = log[S][n]
    BY <1>1
  <2>e. /\ log' = log /\ S' = S /\ n' = n + 1 /\ D' = E /\ owed'[c][t] = owed[c][t]
        /\ publishing' = publishing /\ message' = message /\ topics' = topics
    BY <1>0, <1>1
  <2>1. SubOK(c, t)'
    BY <1>0, <1>1, <1>2, <2>a DEF SubOK
  <2>2. PastOK(c, t)'
    <3>1. \A j \in n + 1 .. Len(log[S]) : j \in n .. Len(log[S])
      BY <1>2
    <3> QED
      BY <1>0, <1>1, <2>a, <3>1 DEF PastOK
  <2>3. GivenOK(c, t)'
    <3> SUFFICES ASSUME NEW k \in 1 .. Len(E)
                 PROVE  \E ch \in Chan : \E j \in 1 .. Len(log[ch]) : log[ch][j] = E[k]
      BY <1>0 DEF GivenOK
    <3>1. CASE k \in 1 .. Len(D) /\ E[k] = D[k]
      BY <2>a, <3>1 DEF GivenOK
    <3>2. CASE E[k] = log[S][n]
      BY <1>1, <3>2
    <3> QED
      BY <2>c, <3>1, <3>2
  <2>d. \A k \in 1 .. Len(D), ch \in Chan : \A j \in 1 .. Len(log[ch]) :
           log[ch][j] = D[k] => Before(ch, j, S, n) /\ (topics[t] # 0 => ch <= topics[t])
    BY <1>1, <2>a DEF BehindOK
  <2>4. BehindOK(c, t)'
    <3> SUFFICES ASSUME NEW k \in 1 .. Len(E), NEW ch \in Chan, NEW j \in 1 .. Len(log[ch]),
                        log[ch][j] = E[k]
                 PROVE  Before(ch, j, S, n + 1) /\ (topics[t] # 0 => ch <= topics[t])
      BY <1>0, <1>1 DEF BehindOK, Before
    <3>1. CASE k \in 1 .. Len(D) /\ E[k] = D[k]
      <4>1. Before(ch, j, S, n) /\ (topics[t] # 0 => ch <= topics[t])
        BY <2>d, <3>1
      <4>2. j \in Nat
        OBVIOUS
      <4> QED
        BY <1>2, <4>1, <4>2 DEF Before
    <3>2. CASE E[k] = log[S][n]
      <4>1. ch = S /\ j = n
        BY <2>b, <3>2
      <4> QED
        BY <1>1, <1>2, <2>a, <4>1 DEF Before, SubOK
    <3> QED
      BY <2>c, <3>1, <3>2
  <2>5. OrderOK(c, t)'
    <3> SUFFICES ASSUME NEW k \in 1 .. Len(E), NEW l \in 1 .. Len(E), k < l,
                        NEW ch \in Chan, NEW ci \in Chan,
                        NEW j \in 1 .. Len(log[ch]), NEW i \in 1 .. Len(log[ci]),
                        log[ch][j] = E[k], log[ci][i] = E[l]
                 PROVE  Before(ch, j, ci, i)
      BY <2>e DEF OrderOK, Before
    <3>1. k \in 1 .. Len(D) /\ E[k] = D[k]
      BY <1>1, SMTT(40)
    <3>2. CASE l \in 1 .. Len(D) /\ E[l] = D[l]
      BY <2>a, <3>1, <3>2 DEF OrderOK
    <3>3. CASE E[l] = log[S][n]
      <4>1. ci = S /\ i = n
        BY <2>b, <3>3
      <4> QED
        BY <2>d, <3>1, <4>1
    <3> QED
      BY <2>c, <3>2, <3>3
  <2>6. OwedOK(c, t)'
    <3> SUFFICES ASSUME S # 0, S = topics[t], NEW m \in owed[c][t]
                 PROVE  \/ \E k \in 1 .. Len(E) : E[k] = m
                        \/ \E p \in Conn : publishing[p] = S /\ message[p] = m
                        \/ \E j \in 1 .. Len(log[S]) :
                              /\ log[S][j] = m
                              /\ j >= n + 1 \/ j <= Len(log[S]) - Backlog
      BY <2>e DEF OwedOK
    <3>1. \/ \E k \in 1 .. Len(D) : D[k] = m
          \/ \E p \in Conn : publishing[p] = S /\ message[p] = m
          \/ \E j \in 1 .. Len(log[S]) :
                /\ log[S][j] = m
                /\ j >= n \/ j <= Len(log[S]) - Backlog
      BY <2>a DEF OwedOK
    <3>2. CASE \E k \in 1 .. Len(D) : D[k] = m
      <4>1. \A k \in 1 .. Len(D) : k \in 1 .. Len(E) /\ E[k] = D[k]
        BY <1>1
      <4> QED
        BY <3>2, <4>1
    <3>3. ASSUME NEW j \in 1 .. Len(log[S]), log[S][j] = m, j >= n \/ j <= Len(log[S]) - Backlog
          PROVE  (\E k \in 1 .. Len(E) : E[k] = m) \/ j >= n + 1 \/ j <= Len(log[S]) - Backlog
      <4>1. CASE j = n
        <5>1. Len(D) + 1 \in 1 .. Len(E) /\ E[Len(D) + 1] = m
          BY <1>1, <3>3, <4>1
        <5> QED
          BY <5>1
      <4>2. CASE j # n
        BY <1>2, <3>3, <4>2
      <4> QED
        BY <4>1, <4>2
    <3> HIDE DEF S, n, D, E
    <3> QED
      BY <3>1, <3>2, <3>3
  <2> QED
    BY <2>1, <2>2, <2>3, <2>4, <2>5, <2>6 DEF Stream
<1>6. ASSUME NEW d \in Conn, NEW u \in Topic
      PROVE  Stream(d, u)'
  <2>1. CASE d = c /\ u = t
    BY <1>5, <2>1
  <2>2. CASE d # c \/ u # t
    <3>1. topics'[u] \in Nat /\ topics'[u] = topics[u]
      BY <1>0 DEF TypeOK
    <3> QED
      BY <1>0, <1>1, <2>2, <3>1, StreamFrame
  <2> QED
    BY <2>1, <2>2
<1> QED
  BY <1>3, <1>4, <1>6 DEF StreamInv

\* A stream that fell behind skips what was overwritten.
LEMMA LaggedInv ==
    ASSUME TopicInv, NEW c \in Conn, NEW t \in Topic, Lagged(c, t)
    PROVE  TopicInv'
<1> USE DEF TopicInv, LogInv
<1> DEFINE S == sub[c][t]
           n == next[c][t]
           L == Len(log[S])
<1>0. UNCHANGED <<alive, topics, created, log, topic_map, sub, publishing, message, sent,
                  gc_running, empty_topics, delivered, owed, past>>
  BY DEF Lagged, chanVars, pubVars, gcVars, history
<1>1. S \in Chan /\ S # 0 /\ n \in Nat \ {0} /\ L \in Nat /\ S \in Nat
  <2>1. sub[c][t] # 0 /\ sub[c][t] \in 0 .. created /\ next[c][t] \in Nat \ {0}
    BY DEF Lagged, HasNext, TypeOK
  <2> QED
    BY <2>1, ChanType
<1>2. n < Oldest(S) /\ Oldest(S) = L - Backlog + 1 /\ Oldest(S) \in Nat \ {0} /\ Oldest(S) <= L
  BY <1>1, TopicsAssumption, SMTT(40) DEF Lagged, Oldest
<1>3. /\ next' \in [Conn -> [Topic -> Nat \ {0}]] /\ next'[c][t] = Oldest(S)
      /\ \A d \in Conn, u \in Topic : d # c \/ u # t => next'[d][u] = next[d][u]
  BY <1>2 DEF Lagged, SkipTo, TypeOK
<1>4. TypeOK'
  BY <1>0, <1>3 DEF TypeOK
<1>5. ChanInv' /\ SentInv' /\ PlaceInv' /\ FlightInv'
  BY <1>0, LogFrame DEF pubVars, TypeOK
<1>6. PICK o : o = Oldest(S)
  OBVIOUS
<1>7. o \in Nat \ {0} /\ n < o /\ o = L - Backlog + 1 /\ o <= L /\ next'[c][t] = o
  BY <1>2, <1>3, <1>6
<1>8. Stream(c, t)'
  <2>0. Stream(c, t)
    BY DEF StreamInv
  <2>a. SubOK(c, t) /\ PastOK(c, t) /\ GivenOK(c, t) /\ BehindOK(c, t) /\ OrderOK(c, t) /\ OwedOK(c, t)
    BY <2>0 DEF Stream
  <2>1. SubOK(c, t)'
    BY <1>0, <1>1, <1>7, <2>a DEF SubOK
  <2>2. PastOK(c, t)'
    <3>1. \A j \in o .. L : j \in n .. L
      BY <1>1, <1>7
    <3> QED
      BY <1>0, <1>7, <2>a, <3>1 DEF PastOK
  <2>3. GivenOK(c, t)'
    BY <1>0, <2>a DEF GivenOK
  <2>4. BehindOK(c, t)'
    <3> SUFFICES ASSUME NEW k \in 1 .. Len(delivered[c][t]), NEW ch \in Chan,
                        NEW j \in 1 .. Len(log[ch]), log[ch][j] = delivered[c][t][k]
                 PROVE  Before(ch, j, S, o) /\ (topics[t] # 0 => ch <= topics[t])
      BY <1>0, <1>7 DEF BehindOK, Before
    <3>1. Before(ch, j, S, n) /\ (topics[t] # 0 => ch <= topics[t])
      BY <1>1, <2>a DEF BehindOK
    <3> QED
      BY <1>1, <1>7, <3>1 DEF Before
  <2>5. OrderOK(c, t)'
    BY <1>0, <2>a DEF OrderOK, Before
  <2>6. OwedOK(c, t)'
    <3> SUFFICES ASSUME S # 0, S = topics[t], NEW m \in owed[c][t]
                 PROVE  \/ \E k \in 1 .. Len(delivered[c][t]) : delivered[c][t][k] = m
                        \/ \E p \in Conn : publishing[p] = S /\ message[p] = m
                        \/ \E j \in 1 .. L : log[S][j] = m /\ (j >= o \/ j <= L - Backlog)
      BY <1>0, <1>7 DEF OwedOK
    <3>1. \/ \E k \in 1 .. Len(delivered[c][t]) : delivered[c][t][k] = m
          \/ \E p \in Conn : publishing[p] = S /\ message[p] = m
          \/ \E j \in 1 .. L : log[S][j] = m /\ (j >= n \/ j <= L - Backlog)
      BY <2>a DEF OwedOK
    <3>2. \A j \in 1 .. L : j >= o \/ j <= L - Backlog
      BY <1>1, <1>7, TopicsAssumption
    <3> HIDE DEF S, n, L
    <3> QED
      BY <3>1, <3>2
  <2> QED
    BY <2>1, <2>2, <2>3, <2>4, <2>5, <2>6 DEF Stream
<1>9. ASSUME NEW d \in Conn, NEW u \in Topic
      PROVE  Stream(d, u)'
  <2>1. CASE d = c /\ u = t
    BY <1>8, <2>1
  <2>2. CASE d # c \/ u # t
    <3>1. topics'[u] \in Nat /\ topics'[u] = topics[u]
      BY <1>0 DEF TypeOK
    <3> QED
      BY <1>0, <1>3, <2>2, <3>1, StreamFrame
  <2> QED
    BY <2>1, <2>2
<1> QED
  BY <1>4, <1>5, <1>9 DEF StreamInv

-----------------------------------------------------------------------------
(* The theorems.                                                           *)

LEMMA NextInv == TopicInv /\ [Next]_vars => TopicInv'
<1> SUFFICES ASSUME TopicInv, [Next]_vars PROVE TopicInv'
  OBVIOUS
<1>1. CASE UNCHANGED vars
  <2>0. /\ UNCHANGED <<alive, topics, created, log, topic_map, sub, next, publishing, message, sent,
                       gc_running, empty_topics, delivered, owed, past>>
        /\ created \in Nat /\ created <= created
    BY <1>1 DEF vars, chanVars, subVars, pubVars, gcVars, history, TopicInv, LogInv, TypeOK
  <2>1. TypeOK'
    BY <2>0 DEF TopicInv, LogInv, TypeOK
  <2>2. ChanInv' /\ SentInv' /\ PlaceInv' /\ FlightInv'
    BY <2>0, LogFrame DEF pubVars
  <2>3. ASSUME NEW d \in Conn, NEW u \in Topic
        PROVE  Stream(d, u)'
    <3>1. topics'[u] \in Nat /\ topics'[u] = topics[u]
      BY <2>0 DEF TopicInv, LogInv, TypeOK
    <3> QED
      BY <2>0, <3>1, StreamFrame
  <2> QED
    BY <2>1, <2>2, <2>3 DEF TopicInv, LogInv, StreamInv
<1>2. ASSUME NEW c \in Conn, SendBroadcast(c)
      PROVE  TopicInv'
  BY <1>2, SendInv, SendNowhereInv
<1>3. ASSUME NEW c \in Conn, Stop(c)
      PROVE  TopicInv'
  BY <1>3, StopInv
<1>4. ASSUME NEW c \in Conn, NEW t \in Topic, SubscribeNew(c, t) \/ SubscribeExisting(c, t)
      PROVE  TopicInv'
  BY <1>4, SubscribeNewInv, SubscribeExistingInv
<1>5. ASSUME NEW c \in Conn, NEW t \in Topic, Unsubscribe(c, t) \/ StreamEnds(c, t)
      PROVE  TopicInv'
  BY <1>5, UnsubscribeInv, StreamEndsInv
<1>6. ASSUME NEW c \in Conn, NEW t \in Topic, FindTopic(c, t) \/ Receive(c, t) \/ Lagged(c, t)
      PROVE  TopicInv'
  BY <1>6, FindTopicInv, ReceiveInv, LaggedInv
<1> QED
  BY <1>1, <1>2, <1>3, <1>4, <1>5, <1>6, GcInv DEF Next

\* The inductive invariant: every message has one place or one publisher,
\* and every subscription is related to the logs as Stream says, through
\* every interleaving of publishers, subscribers and the collector.
THEOREM TopicInvariant == Spec => []TopicInv
<1> QED
  BY InitInv, NextInv, PTL DEF Spec

\* A connection whose stream listens to the topic's channel misses nothing
\* published since it subscribed but what lagging behind costs it.
THEOREM AttachedGetAll == Spec => []BroadcastReachesAttached
<1>1. TopicInv => BroadcastReachesAttached
  <2> SUFFICES ASSUME TopicInv, NEW c \in Conn, NEW t \in Topic,
                      sub[c][t] # 0, sub[c][t] = topics[t], NEW m \in owed[c][t]
               PROVE  \/ m \in ToSet(delivered[c][t]) \/ m \in {message[p] : p \in Conn}
                      \/ m \in Ahead(c, t) \/ m \in Overwritten(c, t)
    BY DEF BroadcastReachesAttached, Missed
  <2>1. OwedOK(c, t)
    BY DEF TopicInv, StreamInv, Stream
  <2>2. ASSUME NEW k \in 1 .. Len(delivered[c][t]), delivered[c][t][k] = m
        PROVE  m \in ToSet(delivered[c][t])
    <3>1. delivered[c][t] \in Seq(Msg)
      BY DEF TopicInv, LogInv, TypeOK
    <3> QED
      BY <2>2, <3>1 DEF ToSet
  <2>3. ASSUME NEW j \in 1 .. Len(log[sub[c][t]]), log[sub[c][t]][j] = m,
               j >= next[c][t] \/ j <= Len(log[sub[c][t]]) - Backlog
        PROVE  m \in Ahead(c, t) \/ m \in Overwritten(c, t)
    <3>1. Log(c, t) = log[sub[c][t]]
      BY DEF Log
    <3>2. next[c][t] \in Nat /\ Len(log[sub[c][t]]) \in Nat
      BY ChanType DEF TopicInv, LogInv, TypeOK
    <3>3. \/ j \in next[c][t] .. Len(log[sub[c][t]])
          \/ j \in 1 .. (Len(log[sub[c][t]]) - Backlog)
      BY <2>3, <3>2, TopicsAssumption
    <3> QED
      BY <2>3, <3>1, <3>3 DEF Ahead, Overwritten
  <2> QED
    BY <2>1, <2>2, <2>3 DEF OwedOK
<1> QED
  BY <1>1, TopicInvariant, PTL

\* Connections get the messages of a topic in one common order, and none
\* gets a message twice.
THEOREM OneOrder == Spec => []SubscribersAgree
<1>1. TopicInv => SubscribersAgree
  <2> SUFFICES ASSUME TopicInv, NEW c \in Conn, NEW d \in Conn, NEW t \in Topic,
                      NEW j \in 1 .. Len(delivered[c][t]), NEW k \in 1 .. Len(delivered[c][t]),
                      j < k
               PROVE  /\ delivered[c][t][j] # delivered[c][t][k]
                      /\ \A x, y \in 1 .. Len(delivered[d][t]) :
                            /\ delivered[d][t][x] = delivered[c][t][j]
                            /\ delivered[d][t][y] = delivered[c][t][k]
                            => x < y
    BY DEF SubscribersAgree
  <2>1. GivenOK(c, t) /\ OrderOK(c, t) /\ OrderOK(d, t)
    BY DEF TopicInv, StreamInv, Stream
  <2>2. PICK ch \in Chan : \E p \in 1 .. Len(log[ch]) : log[ch][p] = delivered[c][t][j]
    BY <2>1 DEF GivenOK
  <2>3. PICK p \in 1 .. Len(log[ch]) : log[ch][p] = delivered[c][t][j]
    BY <2>2
  <2>4. PICK ci \in Chan : \E q \in 1 .. Len(log[ci]) : log[ci][q] = delivered[c][t][k]
    BY <2>1 DEF GivenOK
  <2>5. PICK q \in 1 .. Len(log[ci]) : log[ci][q] = delivered[c][t][k]
    BY <2>4
  <2>6. Before(ch, p, ci, q)
    BY <2>1, <2>3, <2>5 DEF OrderOK
  <2>7. ch \in Nat /\ ci \in Nat /\ p \in Nat /\ q \in Nat
    BY TopicsAssumption DEF Chan
  <2>8. ~Before(ci, q, ch, p) /\ ~(ch = ci /\ p = q)
    BY <2>6, <2>7 DEF Before
  <2>9. delivered[c][t][j] # delivered[c][t][k]
    BY <2>3, <2>5, <2>8 DEF TopicInv, LogInv, PlaceInv
  <2>10. ASSUME NEW x \in 1 .. Len(delivered[d][t]), NEW y \in 1 .. Len(delivered[d][t]),
                delivered[d][t][x] = delivered[c][t][j], delivered[d][t][y] = delivered[c][t][k]
         PROVE  x < y
    <3>1. x # y
      BY <2>9, <2>10
    <3>2. ~(y < x)
      BY <2>1, <2>3, <2>5, <2>8, <2>10 DEF OrderOK
    <3> QED
      BY <3>1, <3>2
  <2> QED
    BY <2>9, <2>10
<1> QED
  BY <1>1, TopicInvariant, PTL

\* A broadcast is given only to a connection that is subscribed, and only
\* one that was sent after it subscribed.
THEOREM SubscribedOnly == Spec => OnlyWhileSubscribed
<1> DEFINE Fits == \A c \in Conn, t \in Topic :
                      delivered'[c][t] # delivered[c][t] =>
                          /\ t \in topic_map[c]
                          /\ Last(delivered'[c][t]) \notin past[c][t]
<1>1. ASSUME TopicInv, [Next]_vars PROVE [Fits]_vars
  <2>1. CASE delivered' = delivered
    BY <2>1
  <2>2. ASSUME NEW c \in Conn, NEW t \in Topic, Receive(c, t)
        PROVE  Fits
    <3> SUFFICES ASSUME NEW d \in Conn, NEW u \in Topic, delivered'[d][u] # delivered[d][u]
                 PROVE  u \in topic_map[d] /\ Last(delivered'[d][u]) \notin past[d][u]
      OBVIOUS
    <3>1. d = c /\ u = t
      BY <1>1, <2>2, ReceiveEffect
    <3>2. /\ sub[c][t] # 0 /\ next[c][t] \in 1 .. Len(log[sub[c][t]])
          /\ Last(delivered'[c][t]) = log[sub[c][t]][next[c][t]]
      BY <1>1, <2>2, ReceiveEffect DEF Last
    <3>3. SubOK(c, t) /\ PastOK(c, t)
      BY <1>1 DEF TopicInv, StreamInv, Stream
    <3>4. next[c][t] \in next[c][t] .. Len(log[sub[c][t]])
      BY <3>2
    <3> QED
      BY <3>1, <3>2, <3>3, <3>4 DEF SubOK, PastOK
  <2>3. \/ delivered' = delivered
        \/ \E c \in Conn, t \in Topic : Receive(c, t)
    BY <1>1 DEF Next, vars, history, SubscribeNew, SubscribeExisting, Unsubscribe, FindTopic,
                SendBroadcast, Lagged, StreamEnds, Stop, GcCollect, GcRemove
  <2> QED
    BY <2>1, <2>2, <2>3
<1>2. TopicInv /\ [Next]_vars => [Fits]_vars
  BY <1>1
<1> QED
  BY <1>2, TopicInvariant, PTL DEF Spec, OnlyWhileSubscribed
=============================================================================
