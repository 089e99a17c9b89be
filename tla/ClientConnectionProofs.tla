---------------------- MODULE ClientConnectionProofs ----------------------
(***************************************************************************)
(* The requesting side of a client connection, for any requests, replies   *)
(* and buffers.  Replies to commands carry no id, so that the reply queues *)
(* have to mirror what is on the wire; replies to a stream pass the        *)
(* socket, the channel and the consumer without loss or change of order.   *)
(***************************************************************************)
EXTENDS ClientConnection, TLAPS


-----------------------------------------------------------------------------
(* Commands.                                                               *)

\* A reply on the socket for the queue of kind k.
IsReply(m, k) == m.for = "command" /\ m.kind = k

\* A command on its way to the router, whose reply will be for that queue.
IsCommand(m, k) == m \in Cmd /\ KindOf[m] = k

InQueue(q, c) == \E i \in 1 .. Len(q) : q[i] = c

\* Wherever both are in q, c comes before d.
Before(q, c, d) == \A i, j \in 1 .. Len(q) : q[i] = c /\ q[j] = d => i < j

\* Replies for the queue q of kind k answer commands in it ...
RepliesKnown(k, in, q, ans) ==
    \A i \in 1 .. Len(in) :
        IsReply(in[i], k) =>
            /\ IsCommand(in[i].of, k)
            /\ InQueue(q, in[i].of)
            /\ in[i].code = ans[in[i].of]

\* ... commands on their way are in it ...
CommandsKnown(k, out, q) ==
    \A i \in 1 .. Len(out) : IsCommand(out[i], k) => InQueue(q, out[i])

\* ... in the order of the queue ...
RepliesOrdered(k, in, q) ==
    \A i, j \in 1 .. Len(in) :
        i < j /\ IsReply(in[i], k) /\ IsReply(in[j], k) => Before(q, in[i].of, in[j].of)

CommandsOrdered(k, out, q) ==
    \A i, j \in 1 .. Len(out) :
        i < j /\ IsCommand(out[i], k) /\ IsCommand(out[j], k) => Before(q, out[i], out[j])

\* ... those that are answered first ...
AnsweredFirst(k, in, out, q) ==
    \A i \in 1 .. Len(in), j \in 1 .. Len(out) :
        IsReply(in[i], k) /\ IsCommand(out[j], k) => Before(q, in[i].of, out[j])

\* ... and whoever is in the queue is on the wire in one way or the other.
AllOnWire(k, in, out, q) ==
    \A n \in 1 .. Len(q) :
        /\ IsCommand(q[n], k)
        /\ \/ \E i \in 1 .. Len(in) : IsReply(in[i], k) /\ in[i].of = q[n]
           \/ \E i \in 1 .. Len(out) : out[i] = q[n]

\* The reply queue q of kind k mirrors the wire.
Mirrors(k, in, out, q, ans) ==
    /\ RepliesKnown(k, in, q, ans)
    /\ CommandsKnown(k, out, q)
    /\ RepliesOrdered(k, in, q)
    /\ CommandsOrdered(k, out, q)
    /\ AnsweredFirst(k, in, out, q)
    /\ AllOnWire(k, in, out, q)

\* Nobody is in a queue twice.
NoDuplicates(q) == \A i, j \in 1 .. Len(q) : q[i] = q[j] => i = j

QueueOK(k) ==
    /\ Mirrors(k, incoming, buffer, queue[k], answer)
    /\ NoDuplicates(queue[k])
    /\ \A i \in 1 .. Len(queue[k]) : st[queue[k][i]] = "pending"

\* A command that was answered got the router's answer.
AnswerOK(c) == outcome[c] \in {"ok", "refused"} => st[c] = "done" /\ outcome[c] = answer[c]

-----------------------------------------------------------------------------
(* Streams.                                                                *)

IsChunk(m, s) == m.for = "call" /\ m.id = s

\* The replies to s on the socket are those in its log rs, in order.
ChunksLogged(s, in, rs) ==
    \A i \in 1 .. Len(in) :
        IsChunk(in[i], s) => in[i].nr \in 1 .. Len(rs) /\ in[i].reply = rs[in[i].nr]

ChunksOrdered(s, in) ==
    \A i, j \in 1 .. Len(in) :
        i < j /\ IsChunk(in[i], s) /\ IsChunk(in[j], s) => in[i].nr < in[j].nr

\* They are those behind the first n.
ChunksNext(s, in, rs, n) ==
    /\ \A i \in 1 .. Len(in) : IsChunk(in[i], s) => in[i].nr > n
    /\ \A x \in n + 1 .. Len(rs) : \E i \in 1 .. Len(in) : IsChunk(in[i], s) /\ in[i].nr = x

\* What reached the consumer or its channel.
Seen(g, ch) == g \o ch

\* It is what StreamIsPrefix asks for.
Prefixed(w, rs) ==
    IF Len(w) > 0 /\ w[Len(w)] = Closed THEN Len(w) = 1
    ELSE /\ Len(w) <= Len(rs)
         /\ \A i \in 1 .. Len(w) : w[i] = rs[i]
         /\ \A i \in 1 .. Len(w) - 1 : w[i].type = "part"

\* A stream whose message the actor has not handled.
UnsentOK(s) ==
    st[s] \in {"idle", "mailbox"} =>
        /\ got[s] = <<>> /\ chan[s] = <<>> /\ replies[s] = <<>>
        /\ s \notin call_reply \cup routed \cup ended
        /\ \A i \in 1 .. Len(buffer) : buffer[i] # s

\* A stream that goes on: only partial replies so far, and the next ones are
\* on the socket.
FlowingOK(s) ==
    s \in call_reply =>
        /\ st[s] = "done"
        /\ s \in open =>
              /\ Len(Seen(got[s], chan[s])) <= Len(replies[s])
              /\ \A i \in 1 .. Len(Seen(got[s], chan[s])) :
                    /\ Seen(got[s], chan[s])[i] = replies[s][i]
                    /\ Seen(got[s], chan[s])[i].type = "part"
              /\ ChunksNext(s, incoming, replies[s], Len(Seen(got[s], chan[s])))

\* One that is complete.
CompleteOK(s) ==
    alive /\ st[s] = "done" /\ s \notin call_reply /\ s \in open =>
        LET w == Seen(got[s], chan[s]) IN Len(w) > 0 /\ w[Len(w)].type = "full"

EndedOK(s) ==
    s \in ended =>
        /\ st[s] = "done" /\ chan[s] = <<>> /\ s \notin call_reply
        /\ alive => Len(got[s]) > 0 /\ got[s][Len(got[s])].type = "full"

\* The actor waits while a channel is too full; a stream that was dropped
\* has none.
BoundOK(s) ==
    /\ alive /\ Len(chan[s]) > StreamBuffer => waiting = s
    /\ s \notin open => chan[s] = <<>>
    /\ st[s] = "idle" => s \in open

LogOK(s) == ChunksLogged(s, incoming, replies[s]) /\ ChunksOrdered(s, incoming)

StreamOK(s) ==
    /\ LogOK(s)
    /\ Prefixed(Seen(got[s], chan[s]), replies[s])
    /\ UnsentOK(s) /\ FlowingOK(s) /\ CompleteOK(s) /\ EndedOK(s)

-----------------------------------------------------------------------------

CommandInv == (\A k \in Kind : QueueOK(k)) /\ \A c \in Cmd : AnswerOK(c)

StreamInv == \A s \in Stream : StreamOK(s)

ClientInv == TypeOK /\ (\A s \in Stream : BoundOK(s)) /\ CommandInv /\ StreamInv


-----------------------------------------------------------------------------
(* What the steps on the wire do to the mirror.                            *)

\* A message for somebody else arrives ...
LEMMA MirrorIn ==
    ASSUME NEW k, NEW M, NEW in \in Seq(M), NEW out, NEW q, NEW ans, NEW x \in M,
           Mirrors(k, in, out, q, ans), ~IsReply(x, k)
    PROVE  Mirrors(k, Append(in, x), out, q, ans)
<1> DEFINE L == Len(in)
<1>0. PICK v : v = Append(in, x)
  OBVIOUS
<1>1. L \in Nat /\ Len(v) = L + 1 /\ v[L + 1] = x /\ \A i \in 1 .. L : v[i] = in[i]
  BY <1>0
<1>2. \A i \in 1 .. Len(v) : IsReply(v[i], k) => i \in 1 .. L /\ v[i] = in[i]
  BY <1>1
<1>3. \A i \in 1 .. L : i \in 1 .. Len(v)
  BY <1>1
<1> HIDE DEF L
<1>4. RepliesKnown(k, v, q, ans) /\ RepliesOrdered(k, v, q)
  BY <1>1, <1>2 DEF Mirrors, RepliesKnown, RepliesOrdered, L
<1>5. AnsweredFirst(k, v, out, q) /\ AllOnWire(k, v, out, q)
  BY <1>1, <1>2, <1>3 DEF Mirrors, AnsweredFirst, AllOnWire, L
<1> QED
  BY <1>0, <1>4, <1>5 DEF Mirrors

\* ... or is sent ...
LEMMA MirrorOut ==
    ASSUME NEW k, NEW M, NEW in, NEW out \in Seq(M), NEW q, NEW ans, NEW x \in M,
           Mirrors(k, in, out, q, ans), ~IsCommand(x, k)
    PROVE  Mirrors(k, in, Append(out, x), q, ans)
<1> DEFINE L == Len(out)
<1>0. PICK v : v = Append(out, x)
  OBVIOUS
<1>1. L \in Nat /\ Len(v) = L + 1 /\ v[L + 1] = x /\ \A i \in 1 .. L : v[i] = out[i]
  BY <1>0
<1>2. \A i \in 1 .. Len(v) : IsCommand(v[i], k) => i \in 1 .. L /\ v[i] = out[i]
  BY <1>1
<1>3. \A i \in 1 .. L : i \in 1 .. Len(v)
  BY <1>1
<1> HIDE DEF L
<1>4. CommandsKnown(k, v, q) /\ CommandsOrdered(k, v, q)
  BY <1>1, <1>2 DEF Mirrors, CommandsKnown, CommandsOrdered, L
<1>5. AnsweredFirst(k, in, v, q) /\ AllOnWire(k, in, v, q)
  BY <1>1, <1>2, <1>3 DEF Mirrors, AnsweredFirst, AllOnWire, L
<1> QED
  BY <1>0, <1>4, <1>5 DEF Mirrors

\* ... or is read ...
LEMMA MirrorInTail ==
    ASSUME NEW k, NEW M, NEW in \in Seq(M), in # <<>>, NEW out, NEW q, NEW ans,
           Mirrors(k, in, out, q, ans), ~IsReply(Head(in), k)
    PROVE  Mirrors(k, Tail(in), out, q, ans)
<1> DEFINE L == Len(in)
<1>0. PICK v : v = Tail(in)
  OBVIOUS
<1>1. /\ L \in Nat \ {0} /\ Len(v) = L - 1 /\ Head(in) = in[1]
      /\ \A i \in 1 .. L - 1 : v[i] = in[i + 1]
  BY <1>0
<1>2. \A i \in 1 .. Len(v) : i + 1 \in 1 .. L /\ v[i] = in[i + 1]
  BY <1>1
<1>3. \A j \in 1 .. L : IsReply(in[j], k) => j - 1 \in 1 .. Len(v) /\ in[j] = v[j - 1]
  <2> SUFFICES ASSUME NEW j \in 1 .. L, IsReply(in[j], k)
               PROVE  j - 1 \in 1 .. Len(v) /\ in[j] = v[j - 1]
    OBVIOUS
  <2>1. j # 1
    BY <1>1
  <2>2. j - 1 \in 1 .. L - 1 /\ (j - 1) + 1 = j
    BY <1>1, <2>1
  <2> QED
    BY <1>1, <2>2
<1>4. RepliesKnown(k, v, q, ans)
  BY <1>2 DEF Mirrors, RepliesKnown
<1>5. RepliesOrdered(k, v, q)
  <2> SUFFICES ASSUME NEW i \in 1 .. Len(v), NEW j \in 1 .. Len(v), i < j,
                      IsReply(v[i], k), IsReply(v[j], k)
               PROVE  Before(q, v[i].of, v[j].of)
    BY DEF RepliesOrdered
  <2>1. i + 1 < j + 1
    BY <1>1
  <2> QED
    BY <1>2, <2>1 DEF Mirrors, RepliesOrdered
<1>6. AnsweredFirst(k, v, out, q)
  BY <1>2 DEF Mirrors, AnsweredFirst
<1>7. AllOnWire(k, v, out, q)
  BY <1>3 DEF Mirrors, AllOnWire
<1> QED
  BY <1>0, <1>4, <1>5, <1>6, <1>7 DEF Mirrors

\* ... or reaches the router.
LEMMA MirrorOutTail ==
    ASSUME NEW k, NEW M, NEW in, NEW out \in Seq(M), out # <<>>, NEW q, NEW ans,
           Mirrors(k, in, out, q, ans), ~IsCommand(Head(out), k)
    PROVE  Mirrors(k, in, Tail(out), q, ans)
<1> DEFINE L == Len(out)
<1>0. PICK v : v = Tail(out)
  OBVIOUS
<1>1. /\ L \in Nat \ {0} /\ Len(v) = L - 1 /\ Head(out) = out[1]
      /\ \A i \in 1 .. L - 1 : v[i] = out[i + 1]
  BY <1>0
<1>2. \A i \in 1 .. Len(v) : i + 1 \in 1 .. L /\ v[i] = out[i + 1]
  BY <1>1
<1>3. \A j \in 1 .. L : IsCommand(out[j], k) => j - 1 \in 1 .. Len(v) /\ out[j] = v[j - 1]
  <2> SUFFICES ASSUME NEW j \in 1 .. L, IsCommand(out[j], k)
               PROVE  j - 1 \in 1 .. Len(v) /\ out[j] = v[j - 1]
    OBVIOUS
  <2>1. j # 1
    BY <1>1
  <2>2. j - 1 \in 1 .. L - 1 /\ (j - 1) + 1 = j
    BY <1>1, <2>1
  <2> QED
    BY <1>1, <2>2
<1>4. CommandsKnown(k, v, q)
  BY <1>2 DEF Mirrors, CommandsKnown
<1>5. CommandsOrdered(k, v, q)
  <2> SUFFICES ASSUME NEW i \in 1 .. Len(v), NEW j \in 1 .. Len(v), i < j,
                      IsCommand(v[i], k), IsCommand(v[j], k)
               PROVE  Before(q, v[i], v[j])
    BY DEF CommandsOrdered
  <2>1. i + 1 < j + 1
    BY <1>1
  <2> QED
    BY <1>2, <2>1 DEF Mirrors, CommandsOrdered
<1>6. AnsweredFirst(k, in, v, q)
  BY <1>2 DEF Mirrors, AnsweredFirst
<1>7. AllOnWire(k, in, v, q)
  <2> SUFFICES ASSUME NEW n \in 1 .. Len(q)
               PROVE  /\ IsCommand(q[n], k)
                      /\ \/ \E i \in 1 .. Len(in) : IsReply(in[i], k) /\ in[i].of = q[n]
                         \/ \E i \in 1 .. Len(v) : v[i] = q[n]
    BY DEF AllOnWire
  <2> QED
    BY <1>3 DEF Mirrors, AllOnWire
<1> QED
  BY <1>0, <1>4, <1>5, <1>6, <1>7 DEF Mirrors


\* Answers to commands of other kinds do not matter.
LEMMA MirrorSame ==
    ASSUME NEW k, NEW in, NEW out, NEW q, NEW ans, NEW ans2,
           Mirrors(k, in, out, q, ans), \A c : IsCommand(c, k) => ans2[c] = ans[c]
    PROVE  Mirrors(k, in, out, q, ans2)
  BY DEF Mirrors, RepliesKnown

\* A queue that grows at its end.
LEMMA QueueGrows ==
    ASSUME NEW q \in Seq(Cmd), NEW c \in Cmd, ~InQueue(q, c)
    PROVE  /\ InQueue(Append(q, c), c)
           /\ \A d : InQueue(q, d) => InQueue(Append(q, c), d) /\ Before(Append(q, c), d, c)
           /\ \A d, e : InQueue(q, d) /\ InQueue(q, e) /\ Before(q, d, e) =>
                             Before(Append(q, c), d, e)
           /\ NoDuplicates(q) => NoDuplicates(Append(q, c))
<1> DEFINE L == Len(q)
<1>0. PICK v : v = Append(q, c)
  OBVIOUS
<1>1. L \in Nat /\ Len(v) = L + 1 /\ v[L + 1] = c /\ \A i \in 1 .. L : v[i] = q[i]
  BY <1>0
<1>2. \A i \in 1 .. Len(v) : i = L + 1 \/ i \in 1 .. L
  BY <1>1
<1>3. \A i \in 1 .. L : i \in 1 .. Len(v) /\ v[i] # c /\ i < L + 1
  BY <1>1 DEF InQueue
<1>4. InQueue(v, c)
  BY <1>1 DEF InQueue
<1>5. ASSUME NEW d, InQueue(q, d)
      PROVE  InQueue(v, d) /\ Before(v, d, c)
  <2>1. d # c /\ InQueue(v, d)
    BY <1>1, <1>3, <1>5 DEF InQueue
  <2> QED
    BY <1>1, <1>2, <1>3, <2>1 DEF Before
<1>6. ASSUME NEW d, NEW e, InQueue(q, d), InQueue(q, e), Before(q, d, e)
      PROVE  Before(v, d, e)
  <2>1. d # c /\ e # c
    BY <1>6
  <2> QED
    BY <1>1, <1>2, <1>6, <2>1 DEF Before
<1>7. NoDuplicates(q) => NoDuplicates(v)
  <2> SUFFICES ASSUME NoDuplicates(q), NEW i \in 1 .. Len(v), NEW j \in 1 .. Len(v), v[i] = v[j]
               PROVE  i = j
    BY DEF NoDuplicates
  <2> QED
    BY <1>1, <1>2, <1>3 DEF NoDuplicates
<1> QED
  BY <1>0, <1>4, <1>5, <1>6, <1>7

\* A command is put into its queue and sent.
LEMMA MirrorSend ==
    ASSUME NEW k, NEW M, NEW in, NEW out \in Seq(M), NEW q \in Seq(Cmd), NEW ans,
           NEW c \in Cmd, c \in M, IsCommand(c, k), ~InQueue(q, c),
           Mirrors(k, in, out, q, ans)
    PROVE  Mirrors(k, in, Append(out, c), Append(q, c), ans)
<1> DEFINE L == Len(out)
<1>0. PICK v : v = Append(out, c)
  OBVIOUS
<1>1. L \in Nat /\ Len(v) = L + 1 /\ v[L + 1] = c /\ \A i \in 1 .. L : v[i] = out[i]
  BY <1>0
<1>2. \A i \in 1 .. Len(v) : i = L + 1 \/ i \in 1 .. L
  BY <1>1
<1>3. PICK p : p = Append(q, c)
  OBVIOUS
<1>4. /\ InQueue(p, c)
      /\ \A d : InQueue(q, d) => InQueue(p, d) /\ Before(p, d, c)
      /\ \A d, e : InQueue(q, d) /\ InQueue(q, e) /\ Before(q, d, e) => Before(p, d, e)
  BY <1>3, QueueGrows
<1>5. RepliesKnown(k, in, p, ans) /\ RepliesOrdered(k, in, p)
  BY <1>4 DEF Mirrors, RepliesKnown, RepliesOrdered
<1>6. CommandsKnown(k, v, p)
  BY <1>1, <1>2, <1>4 DEF Mirrors, CommandsKnown
<1>7. CommandsOrdered(k, v, p)
  <2> SUFFICES ASSUME NEW i \in 1 .. Len(v), NEW j \in 1 .. Len(v), i < j,
                      IsCommand(v[i], k), IsCommand(v[j], k)
               PROVE  Before(p, v[i], v[j])
    BY DEF CommandsOrdered
  <2>1. i \in 1 .. L
    BY <1>1, <1>2
  <2>2. InQueue(q, v[i])
    BY <1>1, <2>1 DEF Mirrors, CommandsKnown
  <2>3. CASE j = L + 1
    BY <1>1, <1>4, <2>2, <2>3
  <2>4. CASE j \in 1 .. L
    <3>1. InQueue(q, v[j]) /\ Before(q, v[i], v[j])
      BY <1>1, <2>1, <2>4 DEF Mirrors, CommandsKnown, CommandsOrdered
    <3> QED
      BY <1>4, <2>2, <3>1
  <2> QED
    BY <1>2, <2>3, <2>4
<1>8. AnsweredFirst(k, in, v, p)
  <2> SUFFICES ASSUME NEW i \in 1 .. Len(in), NEW j \in 1 .. Len(v),
                      IsReply(in[i], k), IsCommand(v[j], k)
               PROVE  Before(p, in[i].of, v[j])
    BY DEF AnsweredFirst
  <2>1. InQueue(q, in[i].of)
    BY DEF Mirrors, RepliesKnown
  <2>2. CASE j = L + 1
    BY <1>1, <1>4, <2>1, <2>2
  <2>3. CASE j \in 1 .. L
    <3>1. InQueue(q, v[j]) /\ Before(q, in[i].of, v[j])
      BY <1>1, <2>3 DEF Mirrors, CommandsKnown, AnsweredFirst
    <3> QED
      BY <1>4, <2>1, <3>1
  <2> QED
    BY <1>2, <2>2, <2>3
<1>9. AllOnWire(k, in, v, p)
  <2>1. Len(p) = Len(q) + 1 /\ p[Len(q) + 1] = c /\ \A n \in 1 .. Len(q) : p[n] = q[n]
    BY <1>3
  <2> SUFFICES ASSUME NEW n \in 1 .. Len(p)
               PROVE  /\ IsCommand(p[n], k)
                      /\ \/ \E i \in 1 .. Len(in) : IsReply(in[i], k) /\ in[i].of = p[n]
                         \/ \E i \in 1 .. Len(v) : v[i] = p[n]
    BY DEF AllOnWire
  <2>2. CASE n = Len(q) + 1
    <3>1. L + 1 \in 1 .. Len(v) /\ v[L + 1] = p[n]
      BY <1>1, <2>1, <2>2
    <3> QED
      BY <2>1, <2>2, <3>1
  <2>3. CASE n \in 1 .. Len(q)
    <3>1. \A i \in 1 .. L : i \in 1 .. Len(v)
      BY <1>1
    <3> QED
      BY <1>1, <2>1, <2>3, <3>1 DEF Mirrors, AllOnWire
  <2> QED
    BY <2>1, <2>2, <2>3
<1> QED
  BY <1>0, <1>3, <1>5, <1>6, <1>7, <1>8, <1>9 DEF Mirrors


\* Nobody comes before himself.
LEMMA NotBeforeItself ==
    ASSUME NEW q, NEW c, Len(q) \in Nat, InQueue(q, c)
    PROVE  ~Before(q, c, c)
  BY DEF InQueue, Before

\* The router answers the command m that was sent first.
LEMMA MirrorAnswer ==
    ASSUME NEW k, NEW M, NEW N, NEW in \in Seq(M), NEW out \in Seq(N), out # <<>>,
           NEW q \in Seq(Cmd), NEW ans, NEW ans2, NEW x \in M,
           IsCommand(Head(out), k), IsReply(x, k), x.of = Head(out), x.code = ans2[Head(out)],
           \A c : IsCommand(c, k) /\ c # Head(out) => ans2[c] = ans[c],
           Mirrors(k, in, out, q, ans)
    PROVE  Mirrors(k, Append(in, x), Tail(out), q, ans2)
<1> DEFINE I == Len(in)
           O == Len(out)
           m == Head(out)
<1>0. PICK u, v : u = Append(in, x) /\ v = Tail(out)
  OBVIOUS
<1>1. I \in Nat /\ Len(u) = I + 1 /\ u[I + 1] = x /\ \A i \in 1 .. I : u[i] = in[i]
  BY <1>0
<1>2. \A i \in 1 .. Len(u) : i = I + 1 \/ i \in 1 .. I
  BY <1>1
<1>3. /\ O \in Nat \ {0} /\ Len(v) = O - 1 /\ m = out[1] /\ 1 \in 1 .. O
      /\ \A i \in 1 .. O - 1 : v[i] = out[i + 1]
  BY <1>0
<1>4. \A i \in 1 .. Len(v) : i + 1 \in 1 .. O /\ v[i] = out[i + 1] /\ 1 < i + 1
  BY <1>3
<1>5. InQueue(q, m) /\ Len(q) \in Nat
  BY <1>3 DEF Mirrors, CommandsKnown
<1>6. \A i \in 1 .. I : IsReply(in[i], k) => Before(q, in[i].of, m) /\ in[i].of # m
  BY <1>3, <1>5, NotBeforeItself DEF Mirrors, AnsweredFirst
<1>7. RepliesKnown(k, u, q, ans2)
  <2> SUFFICES ASSUME NEW i \in 1 .. Len(u), IsReply(u[i], k)
               PROVE  IsCommand(u[i].of, k) /\ InQueue(q, u[i].of) /\ u[i].code = ans2[u[i].of]
    BY DEF RepliesKnown
  <2>1. CASE i = I + 1
    BY <1>1, <1>5, <2>1
  <2>2. CASE i \in 1 .. I
    <3>1. /\ IsCommand(in[i].of, k) /\ InQueue(q, in[i].of) /\ in[i].code = ans[in[i].of]
          /\ in[i].of # m /\ u[i] = in[i]
      BY <1>1, <1>6, <2>2 DEF Mirrors, RepliesKnown
    <3> QED
      BY <3>1
  <2> QED
    BY <1>2, <2>1, <2>2
<1>8. RepliesOrdered(k, u, q)
  <2> SUFFICES ASSUME NEW i \in 1 .. Len(u), NEW j \in 1 .. Len(u), i < j,
                      IsReply(u[i], k), IsReply(u[j], k)
               PROVE  Before(q, u[i].of, u[j].of)
    BY DEF RepliesOrdered
  <2>1. i \in 1 .. I /\ u[i] = in[i]
    BY <1>1, <1>2
  <2>2. CASE j = I + 1
    BY <1>1, <1>6, <2>1, <2>2
  <2>3. CASE j \in 1 .. I
    BY <1>1, <2>1, <2>3 DEF Mirrors, RepliesOrdered
  <2> QED
    BY <1>2, <2>2, <2>3
<1>9. CommandsKnown(k, v, q)
  BY <1>4 DEF Mirrors, CommandsKnown
<1>10. CommandsOrdered(k, v, q)
  <2> SUFFICES ASSUME NEW i \in 1 .. Len(v), NEW j \in 1 .. Len(v), i < j,
                      IsCommand(v[i], k), IsCommand(v[j], k)
               PROVE  Before(q, v[i], v[j])
    BY DEF CommandsOrdered
  <2>1. i + 1 < j + 1
    BY <1>3
  <2> QED
    BY <1>4, <2>1 DEF Mirrors, CommandsOrdered
<1>11. AnsweredFirst(k, u, v, q)
  <2> SUFFICES ASSUME NEW i \in 1 .. Len(u), NEW j \in 1 .. Len(v),
                      IsReply(u[i], k), IsCommand(v[j], k)
               PROVE  Before(q, u[i].of, v[j])
    BY DEF AnsweredFirst
  <2>1. CASE i = I + 1
    BY <1>1, <1>3, <1>4, <2>1 DEF Mirrors, CommandsOrdered
  <2>2. CASE i \in 1 .. I
    BY <1>1, <1>4, <2>2 DEF Mirrors, AnsweredFirst
  <2> QED
    BY <1>2, <2>1, <2>2
<1>12. AllOnWire(k, u, v, q)
  <2> SUFFICES ASSUME NEW n \in 1 .. Len(q)
               PROVE  /\ IsCommand(q[n], k)
                      /\ \/ \E i \in 1 .. Len(u) : IsReply(u[i], k) /\ u[i].of = q[n]
                         \/ \E i \in 1 .. Len(v) : v[i] = q[n]
    BY DEF AllOnWire
  <2>1. IsCommand(q[n], k)
    BY DEF Mirrors, AllOnWire
  <2>2. CASE q[n] = m
    <3>1. I + 1 \in 1 .. Len(u)
      BY <1>1
    <3> QED
      BY <1>1, <2>1, <2>2, <3>1
  <2>3. CASE q[n] # m
    <3>1. CASE \E i \in 1 .. I : IsReply(in[i], k) /\ in[i].of = q[n]
      <4>1. \A i \in 1 .. I : i \in 1 .. Len(u)
        BY <1>1
      <4> QED
        BY <1>1, <2>1, <3>1, <4>1
    <3>2. ASSUME NEW i \in 1 .. O, out[i] = q[n]
          PROVE  \E j \in 1 .. Len(v) : v[j] = q[n]
      <4>1. i # 1
        BY <1>3, <2>3, <3>2
      <4>2. i - 1 \in 1 .. O - 1 /\ (i - 1) + 1 = i
        BY <1>3, <4>1
      <4>3. i - 1 \in 1 .. Len(v) /\ v[i - 1] = q[n]
        BY <1>3, <3>2, <4>2
      <4> QED
        BY <4>3
    <3> QED
      BY <2>1, <3>1, <3>2 DEF Mirrors, AllOnWire
  <2> QED
    BY <2>2, <2>3
<1> QED
  BY <1>0, <1>7, <1>8, <1>9, <1>10, <1>11, <1>12 DEF Mirrors

\* The reply that is read next is that of the first in the queue.
LEMMA MirrorPop ==
    ASSUME NEW k, NEW M, NEW in \in Seq(M), in # <<>>, NEW N, NEW out \in Seq(N),
           NEW q \in Seq(Cmd), NEW ans, NoDuplicates(q), IsReply(Head(in), k),
           Mirrors(k, in, out, q, ans)
    PROVE  /\ q # <<>> /\ Head(in).of = q[1] /\ Head(in).code = ans[q[1]]
           /\ Mirrors(k, Tail(in), out, Tail(q), ans)
           /\ NoDuplicates(Tail(q))
<1> DEFINE I == Len(in)
           Q == Len(q)
           c == Head(in).of
<1>0. PICK u, p : u = Tail(in) /\ p = Tail(q)
  OBVIOUS
<1>1. /\ I \in Nat \ {0} /\ Len(u) = I - 1 /\ Head(in) = in[1] /\ 1 \in 1 .. I
      /\ \A i \in 1 .. I - 1 : u[i] = in[i + 1]
  BY <1>0
<1>2. \A i \in 1 .. Len(u) : i + 1 \in 1 .. I /\ u[i] = in[i + 1] /\ 1 < i + 1
  BY <1>1
<1>3. InQueue(q, c) /\ in[1].code = ans[c]
  BY <1>1 DEF Mirrors, RepliesKnown
<1>4. Q \in Nat \ {0} /\ q # <<>> /\ 1 \in 1 .. Q
  <2>1. Q \in Nat
    OBVIOUS
  <2>2. PICK i \in 1 .. Q : q[i] = c
    BY <1>3 DEF InQueue
  <2> QED
    BY <2>1, <2>2
<1>5. Len(p) = Q - 1 /\ \A i \in 1 .. Q - 1 : p[i] = q[i + 1]
  BY <1>0, <1>4
<1>6. \A i \in 1 .. Len(p) : i + 1 \in 1 .. Q /\ p[i] = q[i + 1]
  BY <1>4, <1>5
<1>7. q[1] = c
  <2>1. PICK n \in 1 .. Q : q[n] = c
    BY <1>3 DEF InQueue
  <2>2. ASSUME NEW i \in 1 .. I, IsReply(in[i], k), in[i].of = q[1]
        PROVE  q[1] = c
    <3>1. CASE i = 1
      BY <1>1, <2>2, <3>1
    <3>2. CASE i # 1
      <4>1. Before(q, c, q[1])
        <5>1. 1 < i
          BY <1>1, <3>2
        <5> QED
          BY <1>1, <2>2, <5>1 DEF Mirrors, RepliesOrdered
      <4>2. n < 1
        BY <1>4, <2>1, <4>1 DEF Before
      <4> QED
        BY <1>4, <2>1, <4>2
    <3> QED
      BY <3>1, <3>2
  <2>3. ASSUME NEW i \in 1 .. Len(out), out[i] = q[1]
        PROVE  q[1] = c
    <3>1. IsCommand(q[1], k)
      BY <1>4 DEF Mirrors, AllOnWire
    <3>2. Before(q, c, q[1])
      BY <1>1, <2>3, <3>1 DEF Mirrors, AnsweredFirst
    <3>3. n < 1
      BY <1>4, <2>1, <3>2 DEF Before
    <3> QED
      BY <1>4, <2>1, <3>3
  <2> QED
    BY <1>4, <2>2, <2>3 DEF Mirrors, AllOnWire
\* Whoever is in the queue and is another one is in the rest of it.
<1>8. ASSUME NEW d, InQueue(q, d), d # c
      PROVE  InQueue(p, d)
  <2>1. PICK i \in 1 .. Q : q[i] = d
    BY <1>8 DEF InQueue
  <2>2. i # 1
    BY <1>7, <1>8, <2>1
  <2>3. i - 1 \in 1 .. Q - 1 /\ (i - 1) + 1 = i
    BY <1>4, <2>2
  <2>4. i - 1 \in 1 .. Len(p) /\ p[i - 1] = d
    BY <1>5, <2>1, <2>3
  <2> QED
    BY <2>4 DEF InQueue
<1>9. ASSUME NEW d, NEW e, Before(q, d, e)
      PROVE  Before(p, d, e)
  <2> SUFFICES ASSUME NEW i \in 1 .. Len(p), NEW j \in 1 .. Len(p), p[i] = d, p[j] = e
               PROVE  i < j
    BY DEF Before
  <2>1. i + 1 < j + 1
    BY <1>6, <1>9 DEF Before
  <2> QED
    BY <1>4, <1>5, <2>1
\* The other replies and the commands on their way are others'.
<1>10. \A i \in 1 .. Len(u) : IsReply(u[i], k) => u[i].of # c
  <2> SUFFICES ASSUME NEW i \in 1 .. Len(u), IsReply(u[i], k), u[i].of = c PROVE FALSE
    OBVIOUS
  <2>1. Before(q, c, c)
    BY <1>1, <1>2 DEF Mirrors, RepliesOrdered
  <2> QED
    BY <1>3, <1>4, <2>1, NotBeforeItself
<1>11. \A i \in 1 .. Len(out) : IsCommand(out[i], k) => out[i] # c
  <2> SUFFICES ASSUME NEW i \in 1 .. Len(out), IsCommand(out[i], k), out[i] = c PROVE FALSE
    OBVIOUS
  <2>1. Before(q, c, c)
    BY <1>1 DEF Mirrors, AnsweredFirst
  <2> QED
    BY <1>3, <1>4, <2>1, NotBeforeItself
<1> HIDE DEF c
<1>12. RepliesKnown(k, u, p, ans)
  BY <1>2, <1>8, <1>10 DEF Mirrors, RepliesKnown
<1>13. CommandsKnown(k, out, p)
  BY <1>8, <1>11 DEF Mirrors, CommandsKnown
<1>14. RepliesOrdered(k, u, p)
  <2> SUFFICES ASSUME NEW i \in 1 .. Len(u), NEW j \in 1 .. Len(u), i < j,
                      IsReply(u[i], k), IsReply(u[j], k)
               PROVE  Before(p, u[i].of, u[j].of)
    BY DEF RepliesOrdered
  <2>1. i + 1 < j + 1
    BY <1>1
  <2>2. Before(q, u[i].of, u[j].of)
    BY <1>2, <2>1 DEF Mirrors, RepliesOrdered
  <2> QED
    BY <1>9, <2>2
<1>15. CommandsOrdered(k, out, p)
  BY <1>9 DEF Mirrors, CommandsOrdered
<1>16. AnsweredFirst(k, u, out, p)
  BY <1>2, <1>9 DEF Mirrors, AnsweredFirst
<1>17. AllOnWire(k, u, out, p)
  <2> SUFFICES ASSUME NEW n \in 1 .. Len(p)
               PROVE  /\ IsCommand(p[n], k)
                      /\ \/ \E i \in 1 .. Len(u) : IsReply(u[i], k) /\ u[i].of = p[n]
                         \/ \E i \in 1 .. Len(out) : out[i] = p[n]
    BY DEF AllOnWire
  <2>1. n + 1 \in 1 .. Q /\ p[n] = q[n + 1] /\ IsCommand(q[n + 1], k)
    BY <1>6 DEF Mirrors, AllOnWire
  <2>2. p[n] # c
    <3>1. n + 1 # 1
      BY <1>5
    <3> QED
      BY <1>4, <1>7, <2>1, <3>1 DEF NoDuplicates
  <2>3. ASSUME NEW i \in 1 .. I, IsReply(in[i], k), in[i].of = p[n]
        PROVE  \E j \in 1 .. Len(u) : IsReply(u[j], k) /\ u[j].of = p[n]
    <3>1. i # 1
      BY <1>1, <2>2, <2>3 DEF c
    <3>2. i - 1 \in 1 .. I - 1 /\ (i - 1) + 1 = i
      BY <1>1, <3>1
    <3>3. i - 1 \in 1 .. Len(u) /\ u[i - 1] = in[i]
      BY <1>1, <3>2
    <3> QED
      BY <2>3, <3>3
  <2> QED
    BY <2>1, <2>3 DEF Mirrors, AllOnWire
<1>18. NoDuplicates(p)
  <2> SUFFICES ASSUME NEW i \in 1 .. Len(p), NEW j \in 1 .. Len(p), p[i] = p[j]
               PROVE  i = j
    BY DEF NoDuplicates
  <2>1. i + 1 = j + 1
    BY <1>6 DEF NoDuplicates
  <2> QED
    BY <1>4, <1>5, <2>1
<1>19. Mirrors(k, u, out, p, ans)
  BY <1>12, <1>13, <1>14, <1>15, <1>16, <1>17 DEF Mirrors
<1> QED
  BY <1>0, <1>1, <1>3, <1>4, <1>7, <1>18, <1>19 DEF c


-----------------------------------------------------------------------------
(* What the steps on the wire do to the replies of a stream.               *)

\* A message about something else arrives.
LEMMA ChunksIn ==
    ASSUME NEW s, NEW M, NEW in \in Seq(M), NEW rs, NEW x \in M, ~IsChunk(x, s),
           ChunksLogged(s, in, rs), ChunksOrdered(s, in)
    PROVE  /\ ChunksLogged(s, Append(in, x), rs) /\ ChunksOrdered(s, Append(in, x))
           /\ \A n : ChunksNext(s, in, rs, n) => ChunksNext(s, Append(in, x), rs, n)
<1> DEFINE L == Len(in)
<1>0. PICK v : v = Append(in, x)
  OBVIOUS
<1>1. L \in Nat /\ Len(v) = L + 1 /\ v[L + 1] = x /\ \A i \in 1 .. L : v[i] = in[i]
  BY <1>0
<1>2. \A i \in 1 .. Len(v) : IsChunk(v[i], s) => i \in 1 .. L /\ v[i] = in[i]
  BY <1>1
<1>3. \A i \in 1 .. L : i \in 1 .. Len(v)
  BY <1>1
<1>4. ChunksLogged(s, v, rs)
  BY <1>2 DEF ChunksLogged
<1>5. ChunksOrdered(s, v)
  BY <1>2 DEF ChunksOrdered
<1>6. \A n : ChunksNext(s, in, rs, n) => ChunksNext(s, v, rs, n)
  BY <1>1, <1>2, <1>3 DEF ChunksNext
<1> QED
  BY <1>0, <1>4, <1>5, <1>6

\* A message is read.
LEMMA ChunksTail ==
    ASSUME NEW s, NEW M, NEW in \in Seq(M), in # <<>>, NEW rs,
           ChunksLogged(s, in, rs), ChunksOrdered(s, in)
    PROVE  /\ ChunksLogged(s, Tail(in), rs) /\ ChunksOrdered(s, Tail(in))
           /\ ~IsChunk(Head(in), s) =>
                 \A n : ChunksNext(s, in, rs, n) => ChunksNext(s, Tail(in), rs, n)
<1> DEFINE L == Len(in)
<1>0. PICK v : v = Tail(in)
  OBVIOUS
<1>1. /\ L \in Nat \ {0} /\ Len(v) = L - 1 /\ Head(in) = in[1]
      /\ \A i \in 1 .. L - 1 : v[i] = in[i + 1]
  BY <1>0
<1>2. \A i \in 1 .. Len(v) : i + 1 \in 1 .. L /\ v[i] = in[i + 1]
  BY <1>1
<1>3. ChunksLogged(s, v, rs)
  BY <1>2 DEF ChunksLogged
<1>4. ChunksOrdered(s, v)
  <2> SUFFICES ASSUME NEW i \in 1 .. Len(v), NEW j \in 1 .. Len(v), i < j,
                      IsChunk(v[i], s), IsChunk(v[j], s)
               PROVE  v[i].nr < v[j].nr
    BY DEF ChunksOrdered
  <2>1. i + 1 < j + 1
    BY <1>1
  <2> QED
    BY <1>2, <2>1 DEF ChunksOrdered
<1>5. ASSUME ~IsChunk(Head(in), s), NEW n, ChunksNext(s, in, rs, n)
      PROVE  ChunksNext(s, v, rs, n)
  <2>1. \A i \in 1 .. Len(v) : IsChunk(v[i], s) => v[i].nr > n
    BY <1>2, <1>5 DEF ChunksNext
  <2>2. ASSUME NEW y \in n + 1 .. Len(rs)
        PROVE  \E i \in 1 .. Len(v) : IsChunk(v[i], s) /\ v[i].nr = y
    <3>1. PICK j \in 1 .. L : IsChunk(in[j], s) /\ in[j].nr = y
      BY <1>5 DEF ChunksNext
    <3>2. j # 1
      BY <1>1, <1>5, <3>1
    <3>3. j - 1 \in 1 .. L - 1 /\ (j - 1) + 1 = j
      BY <1>1, <3>2
    <3>4. j - 1 \in 1 .. Len(v) /\ v[j - 1] = in[j]
      BY <1>1, <3>3
    <3> QED
      BY <3>1, <3>4
  <2> QED
    BY <2>1, <2>2 DEF ChunksNext
<1> QED
  BY <1>0, <1>3, <1>4, <1>5

\* The router sends one more reply.
LEMMA ChunksMore ==
    ASSUME NEW s, NEW M, NEW R, NEW in \in Seq(M), NEW rs \in Seq(R), NEW rep \in R, NEW x \in M,
           IsChunk(x, s), x.nr = Len(rs) + 1, x.reply = rep,
           ChunksLogged(s, in, rs), ChunksOrdered(s, in)
    PROVE  /\ ChunksLogged(s, Append(in, x), Append(rs, rep)) /\ ChunksOrdered(s, Append(in, x))
           /\ \A n \in 0 .. Len(rs) : ChunksNext(s, in, rs, n) =>
                                          ChunksNext(s, Append(in, x), Append(rs, rep), n)
<1> DEFINE L == Len(in)
           R0 == Len(rs)
<1>0. PICK v, ws : v = Append(in, x) /\ ws = Append(rs, rep)
  OBVIOUS
<1>1. L \in Nat /\ Len(v) = L + 1 /\ v[L + 1] = x /\ \A i \in 1 .. L : v[i] = in[i]
  BY <1>0
<1>2. \A i \in 1 .. Len(v) : i = L + 1 \/ i \in 1 .. L
  BY <1>1
<1>3. R0 \in Nat /\ Len(ws) = R0 + 1 /\ ws[R0 + 1] = rep /\ \A i \in 1 .. R0 : ws[i] = rs[i]
  BY <1>0
<1>4. ChunksLogged(s, v, ws)
  <2> SUFFICES ASSUME NEW i \in 1 .. Len(v), IsChunk(v[i], s)
               PROVE  v[i].nr \in 1 .. Len(ws) /\ v[i].reply = ws[v[i].nr]
    BY DEF ChunksLogged
  <2>1. CASE i = L + 1
    BY <1>1, <1>3, <2>1
  <2>2. CASE i \in 1 .. L
    <3>1. v[i].nr \in 1 .. R0 /\ v[i].reply = rs[v[i].nr]
      BY <1>1, <2>2 DEF ChunksLogged
    <3> QED
      BY <1>3, <3>1
  <2> QED
    BY <1>2, <2>1, <2>2
<1>5. ChunksOrdered(s, v)
  <2> SUFFICES ASSUME NEW i \in 1 .. Len(v), NEW j \in 1 .. Len(v), i < j,
                      IsChunk(v[i], s), IsChunk(v[j], s)
               PROVE  v[i].nr < v[j].nr
    BY DEF ChunksOrdered
  <2>1. i \in 1 .. L
    BY <1>1, <1>2
  <2>2. CASE j = L + 1
    <3>1. v[i].nr \in 1 .. R0
      BY <1>1, <2>1 DEF ChunksLogged
    <3> QED
      BY <1>1, <1>3, <2>2, <3>1
  <2>3. CASE j \in 1 .. L
    BY <1>1, <2>1, <2>3 DEF ChunksOrdered
  <2> QED
    BY <1>2, <2>2, <2>3
<1>6. ASSUME NEW n \in 0 .. R0, ChunksNext(s, in, rs, n)
      PROVE  ChunksNext(s, v, ws, n)
  <2>1. ASSUME NEW i \in 1 .. Len(v), IsChunk(v[i], s)
        PROVE  v[i].nr > n
    <3>1. CASE i = L + 1
      BY <1>1, <1>3, <3>1
    <3>2. CASE i \in 1 .. L
      BY <1>1, <1>6, <2>1, <3>2 DEF ChunksNext
    <3> QED
      BY <1>2, <3>1, <3>2
  <2>2. ASSUME NEW y \in n + 1 .. Len(ws)
        PROVE  \E i \in 1 .. Len(v) : IsChunk(v[i], s) /\ v[i].nr = y
    <3>1. CASE y = R0 + 1
      <4>1. L + 1 \in 1 .. Len(v)
        BY <1>1
      <4> QED
        BY <1>1, <3>1, <4>1
    <3>2. CASE y # R0 + 1
      <4>1. y \in n + 1 .. R0
        BY <1>3, <3>2
      <4>2. PICK i \in 1 .. L : IsChunk(in[i], s) /\ in[i].nr = y
        BY <1>6, <4>1 DEF ChunksNext
      <4>3. i \in 1 .. Len(v) /\ v[i] = in[i]
        BY <1>1
      <4> QED
        BY <4>2, <4>3
    <3> QED
      BY <3>1, <3>2
  <2> QED
    BY <2>1, <2>2 DEF ChunksNext
<1> QED
  BY <1>0, <1>4, <1>5, <1>6

\* The first reply on the socket is the next of the stream.
LEMMA ChunksPop ==
    ASSUME NEW s, NEW M, NEW in \in Seq(M), in # <<>>, NEW R, NEW rs \in Seq(R), NEW n \in Nat,
           IsChunk(Head(in), s), ChunksLogged(s, in, rs), ChunksOrdered(s, in),
           ChunksNext(s, in, rs, n)
    PROVE  /\ n + 1 <= Len(rs) /\ Head(in).reply = rs[n + 1]
           /\ ChunksNext(s, Tail(in), rs, n + 1)
<1> DEFINE L == Len(in)
<1>0. PICK v : v = Tail(in)
  OBVIOUS
<1>1. /\ L \in Nat \ {0} /\ Len(v) = L - 1 /\ Head(in) = in[1] /\ 1 \in 1 .. L
      /\ \A i \in 1 .. L - 1 : v[i] = in[i + 1]
  BY <1>0
<1>2. \A i \in 1 .. Len(v) : i + 1 \in 1 .. L /\ v[i] = in[i + 1] /\ 1 < i + 1
  BY <1>1
<1>3. in[1].nr \in 1 .. Len(rs) /\ in[1].reply = rs[in[1].nr] /\ in[1].nr > n /\ Len(rs) \in Nat
  BY <1>1 DEF ChunksLogged, ChunksNext
<1>4. in[1].nr = n + 1
  <2> SUFFICES ASSUME in[1].nr # n + 1 PROVE FALSE
    OBVIOUS
  <2>1. n + 1 \in n + 1 .. Len(rs)
    BY <1>3
  <2>2. PICK i \in 1 .. L : IsChunk(in[i], s) /\ in[i].nr = n + 1
    BY <2>1 DEF ChunksNext
  <2>3. 1 < i
    BY <1>1, <2>2
  <2>4. in[1].nr < in[i].nr
    BY <1>1, <2>2, <2>3 DEF ChunksOrdered
  <2> QED
    BY <1>3, <2>2, <2>4
<1>5. ASSUME NEW i \in 1 .. Len(v), IsChunk(v[i], s)
      PROVE  v[i].nr > n + 1
  <2>1. in[1].nr < in[i + 1].nr
    BY <1>1, <1>2, <1>5 DEF ChunksOrdered
  <2>2. in[i + 1].nr \in 1 .. Len(rs)
    BY <1>2, <1>5 DEF ChunksLogged
  <2> QED
    BY <1>2, <1>3, <1>4, <2>1, <2>2
<1>6. ASSUME NEW y \in (n + 1) + 1 .. Len(rs)
      PROVE  \E i \in 1 .. Len(v) : IsChunk(v[i], s) /\ v[i].nr = y
  <2>1. y \in n + 1 .. Len(rs) /\ y # n + 1
    BY <1>3
  <2>2. PICK j \in 1 .. L : IsChunk(in[j], s) /\ in[j].nr = y
    BY <2>1 DEF ChunksNext
  <2>3. j # 1
    BY <1>4, <2>1, <2>2
  <2>4. j - 1 \in 1 .. L - 1 /\ (j - 1) + 1 = j
    BY <1>1, <2>3
  <2>5. j - 1 \in 1 .. Len(v) /\ v[j - 1] = in[j]
    BY <1>1, <2>4
  <2> QED
    BY <2>2, <2>5
<1>7. ChunksNext(s, v, rs, n + 1)
  BY <1>5, <1>6 DEF ChunksNext
<1> QED
  BY <1>0, <1>1, <1>3, <1>4, <1>7

-----------------------------------------------------------------------------
(* What a consumer has seen.                                               *)

Item == CallReply \cup {Closed}

LEMMA SeenFacts ==
    ASSUME NEW g \in Seq(Item), NEW ch \in Seq(Item)
    PROVE  /\ Seen(g, ch) \in Seq(Item) /\ Len(Seen(g, ch)) = Len(g) + Len(ch)
           /\ \A i \in 1 .. Len(g) : Seen(g, ch)[i] = g[i]
           /\ \A i \in 1 .. Len(ch) : Seen(g, ch)[Len(g) + i] = ch[i]
  BY DEF Seen

LEMMA SameItems ==
    ASSUME NEW v \in Seq(Item), NEW w \in Seq(Item), Len(v) = Len(w),
           \A i \in 1 .. Len(v) : v[i] = w[i]
    PROVE  v = w
  OBVIOUS

\* One more item in the channel.
LEMMA SeenPass ==
    ASSUME NEW g \in Seq(Item), NEW ch \in Seq(Item), NEW x \in Item
    PROVE  Seen(g, Append(ch, x)) = Append(Seen(g, ch), x)
<1> DEFINE G == Len(g)
           C == Len(ch)
<1>0. PICK d : d = Append(ch, x)
  OBVIOUS
<1>1. /\ d \in Seq(Item) /\ Len(d) = C + 1 /\ d[C + 1] = x /\ C \in Nat /\ G \in Nat
      /\ \A i \in 1 .. C : d[i] = ch[i]
  BY <1>0
<1>2. PICK v, w : v = Seen(g, d) /\ w = Seen(g, ch)
  OBVIOUS
<1>3. /\ v \in Seq(Item) /\ Len(v) = G + (C + 1) /\ \A i \in 1 .. G : v[i] = g[i]
      /\ \A i \in 1 .. C + 1 : v[G + i] = d[i]
  <2>1. /\ v \in Seq(Item) /\ Len(v) = G + Len(d) /\ \A i \in 1 .. G : v[i] = g[i]
        /\ \A i \in 1 .. Len(d) : v[G + i] = d[i]
    BY <1>1, <1>2, SeenFacts
  <2> QED
    BY <1>1, <2>1
<1>4. /\ w \in Seq(Item) /\ Len(w) = G + C /\ \A i \in 1 .. G : w[i] = g[i]
      /\ \A i \in 1 .. C : w[G + i] = ch[i]
  BY <1>2, SeenFacts
<1>5. PICK z : z = Append(w, x)
  OBVIOUS
<1>6. /\ z \in Seq(Item) /\ Len(z) = (G + C) + 1 /\ z[(G + C) + 1] = x
      /\ \A i \in 1 .. G + C : z[i] = w[i]
  <2>1. /\ z \in Seq(Item) /\ Len(z) = Len(w) + 1 /\ z[Len(w) + 1] = x
        /\ \A i \in 1 .. Len(w) : z[i] = w[i]
    <3>1. w \in Seq(Item)
      BY <1>4
    <3> QED
      BY <1>5, <3>1
  <2> QED
    BY <1>4, <2>1
<1>7. ASSUME NEW i \in 1 .. Len(v) PROVE v[i] = z[i]
  <2>1. CASE i \in 1 .. G
    BY <1>1, <1>3, <1>4, <1>6, <2>1
  <2>2. CASE i \notin 1 .. G
    <3>1. i - G \in 1 .. C + 1 /\ G + (i - G) = i
      BY <1>1, <1>3, <2>2
    <3>2. v[i] = d[i - G]
      BY <1>3, <3>1
    <3>3. CASE i - G = C + 1
      <4>1. i = (G + C) + 1
        BY <1>1, <3>1, <3>3
      <4> QED
        BY <1>1, <1>6, <3>2, <3>3, <4>1
    <3>4. CASE i - G # C + 1
      <4>1. i - G \in 1 .. C /\ i \in 1 .. G + C
        BY <1>1, <3>1, <3>4, SMTT(40)
      <4>2. w[i] = ch[i - G]
        BY <1>4, <3>1, <4>1
      <4> QED
        BY <1>1, <1>6, <3>2, <4>1, <4>2
    <3> QED
      BY <3>3, <3>4
  <2> QED
    BY <2>1, <2>2
<1>8. Len(v) = Len(z)
  BY <1>1, <1>3, <1>6
<1>9. v = z
  BY <1>3, <1>6, <1>7, <1>8, SameItems
<1> QED
  BY <1>0, <1>2, <1>5, <1>9

\* The consumer takes an item.
LEMMA SeenMove ==
    ASSUME NEW g \in Seq(Item), NEW ch \in Seq(Item), ch # <<>>
    PROVE  Seen(Append(g, Head(ch)), Tail(ch)) = Seen(g, ch)
<1> DEFINE G == Len(g)
           C == Len(ch)
<1>0. PICK h, d : h = Append(g, Head(ch)) /\ d = Tail(ch)
  OBVIOUS
<1>1. /\ C \in Nat \ {0} /\ G \in Nat /\ Head(ch) \in Item /\ Head(ch) = ch[1]
      /\ d \in Seq(Item) /\ Len(d) = C - 1 /\ \A i \in 1 .. C - 1 : d[i] = ch[i + 1]
  BY <1>0
<1>2. /\ h \in Seq(Item) /\ Len(h) = G + 1 /\ h[G + 1] = ch[1] /\ \A i \in 1 .. G : h[i] = g[i]
  BY <1>0, <1>1
<1>3. PICK v, w : v = Seen(h, d) /\ w = Seen(g, ch)
  OBVIOUS
<1>4. /\ v \in Seq(Item) /\ Len(v) = (G + 1) + (C - 1) /\ \A i \in 1 .. G + 1 : v[i] = h[i]
      /\ \A i \in 1 .. C - 1 : v[(G + 1) + i] = d[i]
  <2>1. /\ v \in Seq(Item) /\ Len(v) = Len(h) + Len(d) /\ \A i \in 1 .. Len(h) : v[i] = h[i]
        /\ \A i \in 1 .. Len(d) : v[Len(h) + i] = d[i]
    <3>1. h \in Seq(Item) /\ d \in Seq(Item)
      BY <1>1, <1>2
    <3> QED
      BY <1>3, <3>1, SeenFacts, ZenonT(40)
  <2> QED
    BY <1>1, <1>2, <2>1
<1>5. /\ w \in Seq(Item) /\ Len(w) = G + C /\ \A i \in 1 .. G : w[i] = g[i]
      /\ \A i \in 1 .. C : w[G + i] = ch[i]
  BY <1>3, SeenFacts
<1>6. ASSUME NEW i \in 1 .. Len(w) PROVE v[i] = w[i]
  <2>1. CASE i \in 1 .. G
    BY <1>1, <1>2, <1>4, <1>5, <2>1
  <2>2. CASE i = G + 1
    <3>1. w[G + 1] = ch[1]
      BY <1>1, <1>5
    <3> QED
      BY <1>1, <1>2, <1>4, <2>2, <3>1
  <2>3. CASE i \notin 1 .. G + 1
    <3>1. /\ i - (G + 1) \in 1 .. C - 1 /\ (G + 1) + (i - (G + 1)) = i
          /\ (i - (G + 1)) + 1 \in 1 .. C /\ G + ((i - (G + 1)) + 1) = i
      <4>1. i \in 1 .. G + C /\ G \in Nat /\ C \in Nat
        BY <1>1, <1>5
      <4> HIDE DEF G, C
      <4> QED
        BY <2>3, <4>1
    <3>2. v[i] = d[i - (G + 1)] /\ d[i - (G + 1)] = ch[(i - (G + 1)) + 1]
      BY <1>1, <1>4, <3>1
    <3>3. w[i] = ch[(i - (G + 1)) + 1]
      BY <1>5, <3>1
    <3> QED
      BY <3>2, <3>3
  <2> QED
    BY <1>1, <2>1, <2>2, <2>3
<1>7. Len(v) = Len(w)
  BY <1>1, <1>4, <1>5
<1>8. v = w
  BY <1>4, <1>5, <1>6, <1>7, SameItems
<1> QED
  BY <1>0, <1>3, <1>8


-----------------------------------------------------------------------------
(* Types, and the bounds of the channels.                                  *)

Bounded == TypeOK /\ \A s \in Stream : BoundOK(s)

LEMMA Disjoint ==
    /\ Cmd \cap Call = {} /\ Cmd \cap Push = {} /\ Call \cap Push = {} /\ Rpc \cap Stream = {}
    /\ None \notin Stream
    /\ "pong" \notin Request
    /\ Cmd \subseteq Request /\ Call \subseteq Request /\ Push \subseteq Request
    /\ Rpc \subseteq Call /\ Stream \subseteq Call /\ Stream \subseteq Request
    /\ KindOf \in [Cmd -> Kind]
  BY RequestAssumption DEF Call, Request, Kind

LEMMA ItemTypes ==
    /\ Closed \in Item /\ CallReply \subseteq Item
    /\ Closed \notin CallReply /\ Closed.type = "full"
    /\ \A rep \in CallReply : rep.type \in {"part", "full"} /\ rep # Closed
  BY DEF Item, Closed, CallReply

\* pop_front.
LEMMA PopFront ==
    ASSUME NEW q \in Seq(Cmd), q # <<>>
    PROVE  q[Oldest(q)] = q[1] /\ q[1] \in Cmd /\ RemoveAt(q, Oldest(q)) = Tail(q)
<1>1. Len(q) \in Nat \ {0} /\ 1 \in 1 .. Len(q)
  OBVIOUS
<1>2. q[1] \in Cmd
  BY <1>1
<1>3. SubSeq(q, 1, 0) = <<>> /\ SubSeq(q, 2, Len(q)) = Tail(q)
  BY <1>1
<1>4. RemoveAt(q, 1) = SubSeq(q, 1, 1 - 1) \o SubSeq(q, 1 + 1, Len(q))
  BY DEF RemoveAt
<1>5. 1 - 1 = 0 /\ 1 + 1 = 2
  OBVIOUS
<1>6. Tail(q) \in Seq(Cmd)
  BY <1>1
<1>7. <<>> \o Tail(q) = Tail(q)
  BY <1>6
<1> QED
  BY <1>2, <1>3, <1>4, <1>5, <1>7 DEF Oldest

LEMMA BoundedInit == Init => Bounded
<1> SUFFICES ASSUME Init PROVE Bounded
  OBVIOUS
<1>1. /\ <<>> \in Seq(Cmd) /\ <<>> \in Seq(CallReply \cup {Closed}) /\ <<>> \in Seq(Request \cup {"pong"})
      /\ <<>> \in Seq(InSocket) /\ <<>> \in Seq(CallReply) /\ Len(<<>>) = 0
  OBVIOUS
<1>2. st \in [Request -> State] /\ outcome \in [Request -> Outcome]
  BY DEF Init, State, Outcome
<1>3. /\ queue \in [Kind -> Seq(Cmd)] /\ chan \in [Call -> Seq(CallReply \cup {Closed})]
      /\ \A c \in Call : chan[c] = <<>>
      /\ replies \in [Call -> Seq(CallReply)] /\ got \in [Stream -> Seq(CallReply \cup {Closed})]
  BY <1>1 DEF Init
<1>4. answer \in [Cmd -> {"none", "ok", "refused"}]
  BY DEF Init
<1>5. TypeOK
  BY <1>1, <1>2, <1>3, <1>4, Disjoint, BoundAssumption DEF Init, TypeOK
<1>6. \A s \in Stream : BoundOK(s)
  BY <1>1, <1>3, Disjoint, BoundAssumption DEF Init, BoundOK
<1> QED
  BY <1>5, <1>6 DEF Bounded

\* A step that leaves channels and context alone.
LEMMA BoundedFrame ==
    ASSUME Bounded, TypeOK', alive' = alive, chan' = chan, waiting' = waiting, open' = open,
           \A s \in Stream : st'[s] = "idle" => st[s] = "idle"
    PROVE  Bounded'
  BY DEF Bounded, BoundOK

LEMMA BoundedHandle ==
    ASSUME Bounded, NEW r \in Request, Handle(r)
    PROVE  Bounded'
<1>0. TypeOK
  BY DEF Bounded
<1>1. Append(buffer, r) \in Seq(Request \cup {"pong"})
  BY <1>0 DEF TypeOK
<1>2. CASE r \in Cmd /\ HandleCmd(r)
  <2>1. queue' \in [Kind -> Seq(Cmd)]
    <3>1. KindOf[r] \in Kind
      BY <1>2, Disjoint
    <3>2. queue[KindOf[r]] \in Seq(Cmd)
      BY <1>0, <3>1 DEF TypeOK
    <3>3. Append(queue[KindOf[r]], r) \in Seq(Cmd)
      BY <1>2, <3>2
    <3>4. queue' = [queue EXCEPT ![KindOf[r]] = Append(queue[KindOf[r]], r)]
      BY <1>2 DEF HandleCmd, Enqueue
    <3> QED
      BY <1>0, <3>1, <3>3, <3>4 DEF TypeOK
  <2>2. st' \in [Request -> State] /\ \A s \in Request : st'[s] = "idle" => st[s] = "idle"
    BY <1>0, <1>2 DEF TypeOK, HandleCmd, State
  <2>3. TypeOK'
    BY <1>0, <1>1, <1>2, <2>1, <2>2 DEF TypeOK, HandleCmd, channel, router, consumer
  <2> QED
    BY <1>2, <2>2, <2>3, BoundedFrame, Disjoint DEF HandleCmd, channel
<1>3. CASE r \in Call /\ HandleCall(r)
  <2>1. st' \in [Request -> State] /\ \A s \in Request : st'[s] = "idle" => st[s] = "idle"
    BY <1>0, <1>3 DEF TypeOK, HandleCall, State
  <2>2. TypeOK'
    BY <1>0, <1>1, <1>3, <2>1 DEF TypeOK, HandleCall, router, consumer
  <2> QED
    BY <1>3, <2>1, <2>2, BoundedFrame, Disjoint DEF HandleCall
<1>4. CASE r \in Push /\ HandlePush(r)
  <2>1. /\ st' \in [Request -> State] /\ \A s \in Request : st'[s] = "idle" => st[s] = "idle"
        /\ outcome' \in [Request -> Outcome]
    BY <1>0, <1>4 DEF TypeOK, HandlePush, Resolve, State, Outcome
  <2>2. TypeOK'
    BY <1>0, <1>1, <1>4, <2>1 DEF TypeOK, HandlePush, channel, router, consumer
  <2> QED
    BY <1>4, <2>1, <2>2, BoundedFrame, Disjoint DEF HandlePush, channel
<1> QED
  BY <1>2, <1>3, <1>4 DEF Handle

LEMMA BoundedTransmit ==
    ASSUME Bounded, Transmit
    PROVE  Bounded'
<1> DEFINE m == Head(buffer)
<1>0. /\ TypeOK /\ buffer # <<>> /\ buffer' = Tail(buffer)
      /\ UNCHANGED <<alive, request, queue, channel, consumer>>
  BY DEF Bounded, Transmit
<1>1. Tail(buffer) \in Seq(Request \cup {"pong"})
  BY <1>0 DEF TypeOK
<1>2. CASE /\ m \in Cmd
           /\ \E a \in {"ok", "refused"} :
                /\ answer' = [answer EXCEPT ![m] = a]
                /\ incoming' = Append(incoming, [for |-> "command", kind |-> KindOf[m],
                                                 code |-> a, of |-> m])
           /\ UNCHANGED <<routed, notice, replies>>
  <2>1. PICK a \in {"ok", "refused"} :
                /\ answer' = [answer EXCEPT ![m] = a]
                /\ incoming' = Append(incoming, [for |-> "command", kind |-> KindOf[m],
                                                 code |-> a, of |-> m])
    BY <1>2
  <2>2. [for |-> "command", kind |-> KindOf[m], code |-> a, of |-> m] \in InSocket
    BY <1>2, Disjoint DEF InSocket
  <2>3. incoming' \in Seq(InSocket)
    BY <1>0, <2>1, <2>2 DEF TypeOK
  <2>4. answer' \in [Cmd -> {"none", "ok", "refused"}]
    BY <1>0, <2>1 DEF TypeOK
  <2>5. TypeOK'
    BY <1>0, <1>1, <1>2, <2>3, <2>4 DEF TypeOK, request, channel, consumer
  <2> QED
    BY <1>0, <2>5, BoundedFrame DEF channel, request
<1>3. CASE /\ m \in Call
           /\ routed' = routed \cup {m}
           /\ UNCHANGED <<incoming, notice, answer, replies>>
  <2>1. TypeOK'
    BY <1>0, <1>1, <1>3 DEF TypeOK, request, channel, consumer
  <2> QED
    BY <1>0, <2>1, BoundedFrame DEF channel, request
<1>4. CASE UNCHANGED <<incoming, routed, answer, replies>> /\ notice' \in {notice, "handled"}
  <2>1. TypeOK'
    BY <1>0, <1>1, <1>4 DEF TypeOK, request, channel, consumer
  <2> QED
    BY <1>0, <2>1, BoundedFrame DEF channel, request
<1> QED
  BY <1>2, <1>3, <1>4 DEF Transmit, router

\* What is in the channels when the actor stops.
StoppedChan(c) ==
    CASE c \in Rpc -> <<>>
      [] c \in Stream /\ st[c] = "mailbox" /\ c \in open -> Append(chan[c], Closed)
      [] OTHER -> chan[c]

LEMMA StopsChan ==
    ASSUME Bounded, \A s \in Stream : UnsentOK(s), Stops
    PROVE  /\ chan' \in [Call -> Seq(CallReply \cup {Closed})]
           /\ \A c \in Rpc : chan'[c] = <<>>
           /\ \A s \in Stream :
                 \/ st[s] = "mailbox" /\ s \in open /\ chan[s] = <<>> /\ chan'[s] = <<Closed>>
                 \/ ~(st[s] = "mailbox" /\ s \in open) /\ chan'[s] = chan[s]
<1>0. TypeOK
  BY DEF Bounded
<1>1. chan' = [c \in Call |-> StoppedChan(c)]
  BY DEF Stops, StoppedChan
<1>2. \A c \in Rpc : c \in Call /\ chan'[c] = <<>>
  BY <1>1, Disjoint DEF StoppedChan
<1>3. ASSUME NEW s \in Stream
      PROVE  \/ st[s] = "mailbox" /\ s \in open /\ chan[s] = <<>> /\ chan'[s] = <<Closed>>
             \/ ~(st[s] = "mailbox" /\ s \in open) /\ chan'[s] = chan[s]
  <2>1. s \in Call /\ s \notin Rpc
    BY Disjoint
  <2>2. CASE st[s] = "mailbox" /\ s \in open
    <3>1. chan[s] = <<>>
      BY <2>2 DEF UnsentOK
    <3>2. chan'[s] = Append(chan[s], Closed)
      BY <1>1, <2>1, <2>2 DEF StoppedChan
    <3>3. Append(<<>>, Closed) = <<Closed>>
      OBVIOUS
    <3> QED
      BY <2>2, <3>1, <3>2, <3>3
  <2>3. CASE ~(st[s] = "mailbox" /\ s \in open)
    BY <1>1, <2>1, <2>3 DEF StoppedChan
  <2> QED
    BY <2>2, <2>3
<1>4. ASSUME NEW c \in Call
      PROVE  StoppedChan(c) \in Seq(CallReply \cup {Closed})
  <2>1. <<>> \in Seq(CallReply \cup {Closed}) /\ <<Closed>> \in Seq(CallReply \cup {Closed})
    OBVIOUS
  <2>2. c \in Rpc \/ c \in Stream
    BY DEF Call
  <2>3. chan'[c] = StoppedChan(c)
    BY <1>1
  <2>4. chan[c] \in Seq(CallReply \cup {Closed})
    BY <1>0 DEF TypeOK
  <2> QED
    BY <1>2, <1>3, <2>1, <2>2, <2>3, <2>4
<1> QED
  BY <1>1, <1>2, <1>3, <1>4

LEMMA BoundedStops ==
    ASSUME Bounded, \A s \in Stream : UnsentOK(s), Stops
    PROVE  Bounded'
<1>0. TypeOK
  BY DEF Bounded
<1>1. /\ chan' \in [Call -> Seq(CallReply \cup {Closed})]
      /\ \A c \in Rpc : chan'[c] = <<>>
      /\ \A s \in Stream :
            \/ st[s] = "mailbox" /\ s \in open /\ chan[s] = <<>> /\ chan'[s] = <<Closed>>
            \/ ~(st[s] = "mailbox" /\ s \in open) /\ chan'[s] = chan[s]
  BY StopsChan
<1>2. Len(<<Closed>>) = 1 /\ Len(<<>>) = 0
  OBVIOUS
<1>3. \A s \in Stream : Len(chan'[s]) <= StreamBuffer + 1
  <2> TAKE s \in Stream
  <2>1. Len(chan[s]) <= StreamBuffer + 1
    BY <1>0 DEF TypeOK
  <2>2. 1 <= StreamBuffer + 1
    BY BoundAssumption
  <2>3. chan'[s] = <<Closed>> \/ chan'[s] = chan[s]
    BY <1>1
  <2> QED
    BY <1>2, <2>1, <2>2, <2>3
<1>4. \A c \in Rpc : Len(chan'[c]) <= 1
  BY <1>1, <1>2
<1>5. /\ st' \in [Request -> State] /\ outcome' \in [Request -> Outcome]
      /\ \A s \in Request : st'[s] = "idle" => st[s] = "idle"
  BY <1>0 DEF TypeOK, Stops, Closing, State, Outcome
<1>6. /\ <<>> \in Seq(Cmd) /\ <<>> \in Seq(InSocket) /\ <<>> \in Seq(Request \cup {"pong"})
  OBVIOUS
<1>7. queue' \in [Kind -> Seq(Cmd)]
  BY <1>6 DEF Stops
<1>8. TypeOK'
  BY <1>0, <1>1, <1>3, <1>4, <1>5, <1>6, <1>7 DEF TypeOK, Stops, consumer
<1>9. ASSUME NEW s \in Stream
      PROVE  BoundOK(s)'
  <2>1. ~alive' /\ open' = open
    BY DEF Stops
  <2>2. BoundOK(s) /\ s \in Request
    BY Disjoint DEF Bounded
  <2> QED
    BY <1>1, <1>5, <2>1, <2>2 DEF BoundOK
<1> QED
  BY <1>8, <1>9 DEF Bounded


LEMMA BoundedRead ==
    ASSUME Bounded, \A s \in Stream : UnsentOK(s), Read
    PROVE  Bounded'
<1>0. TypeOK
  BY DEF Bounded
<1>1. CASE InvalidReply
  BY <1>1, BoundedStops DEF InvalidReply
<1>2. ASSUME ~InvalidReply
      PROVE  Bounded'
  <2>1. incoming \in Seq(InSocket) /\ incoming # <<>> /\ incoming' = Tail(incoming) /\ alive' = alive
    BY <1>0, <1>2 DEF TypeOK, Read, CommandReply, PassReply, IgnoreReply, Pong, TakeNotice, CanRead
  <2>2. Head(incoming) \in InSocket /\ Tail(incoming) \in Seq(InSocket)
    BY <2>1
  <2>3. CASE CommandReply
    <3> DEFINE m == Head(incoming)
               q == queue[m.kind]
    <3>1. m.for = "command"
      BY <2>3 DEF CommandReply, CanRead
    <3>2. m.kind \in Kind /\ m.code \in {"ok", "refused"}
      BY <2>2, <3>1 DEF InSocket
    <3>3. q \in Seq(Cmd) /\ q # <<>>
      BY <1>0, <2>3, <3>2 DEF TypeOK, CommandReply
    <3>4. q[Oldest(q)] \in Cmd /\ Tail(q) \in Seq(Cmd) /\ RemoveAt(q, Oldest(q)) = Tail(q)
      <4>1. PICK p : p = q
        OBVIOUS
      <4>2. p \in Seq(Cmd) /\ p # <<>>
        BY <3>3, <4>1
      <4>3. Tail(p) \in Seq(Cmd)
        BY <4>2
      <4>4. p[Oldest(p)] \in Cmd /\ RemoveAt(p, Oldest(p)) = Tail(p)
        BY <4>2, PopFront
      <4> QED
        BY <4>1, <4>3, <4>4
    <3>5. queue' \in [Kind -> Seq(Cmd)]
      BY <1>0, <2>3, <3>2, <3>4 DEF TypeOK, CommandReply
    <3>6. /\ st' \in [Request -> State] /\ outcome' \in [Request -> Outcome]
          /\ \A s \in Request : st'[s] = "idle" => st[s] = "idle"
      BY <1>0, <2>3, <3>2, <3>4, Disjoint DEF TypeOK, CommandReply, Resolve, State, Outcome
    <3>7. TypeOK'
      BY <1>0, <2>1, <2>2, <2>3, <3>5, <3>6 DEF TypeOK, CommandReply, channel, router, consumer
    <3> QED
      BY <2>3, <3>6, <3>7, BoundedFrame, Disjoint DEF CommandReply, channel
  <2>4. CASE PassReply
    <3> DEFINE c == Head(incoming).id
               rep == Head(incoming).reply
    <3>1. Head(incoming).for = "call" /\ waiting = None /\ \A d \in Rpc : chan[d] = <<>>
      BY <2>4 DEF PassReply, CanRead, Runs
    <3>2. c \in Call /\ rep \in CallReply
      BY <2>2, <3>1 DEF InSocket
    <3>3. /\ chan' = IF c \in open THEN [chan EXCEPT ![c] = Append(chan[c], rep)] ELSE chan
          /\ waiting' = IF Len(chan'[c]) > BufferOf(c) THEN c ELSE None
          /\ call_reply' = Forget(c, rep)
          /\ UNCHANGED <<alive, request, queue, open, buffer, router, consumer>>
      BY <2>4 DEF PassReply
    <3>4. chan[c] \in Seq(CallReply \cup {Closed}) /\ Len(chan[c]) \in Nat
      <4>1. chan[c] \in Seq(CallReply \cup {Closed})
        BY <1>0, <3>2 DEF TypeOK
      <4> QED
        BY <4>1
    <3>5. /\ Append(chan[c], rep) \in Seq(CallReply \cup {Closed})
          /\ Len(Append(chan[c], rep)) = Len(chan[c]) + 1
      BY <3>2, <3>4
    <3> HIDE DEF c, rep
    <3>6. /\ chan' \in [Call -> Seq(CallReply \cup {Closed})]
          /\ \A d \in Call : d # c => chan'[d] = chan[d]
          /\ c \in open => Len(chan'[c]) = Len(chan[c]) + 1
          /\ c \notin open => chan'[c] = chan[c]
      <4>1. chan \in [Call -> Seq(CallReply \cup {Closed})]
        BY <1>0 DEF TypeOK
      <4> QED
        BY <3>2, <3>3, <3>5, <4>1
    <3>7. c \in Stream => Len(chan[c]) <= StreamBuffer
      <4> SUFFICES ASSUME c \in Stream PROVE Len(chan[c]) <= StreamBuffer
        OBVIOUS
      <4>1. alive /\ waiting # c
        BY <2>4, <3>1, Disjoint DEF PassReply, CanRead, Runs
      <4>2. ~(Len(chan[c]) > StreamBuffer)
        BY <4>1 DEF Bounded, BoundOK
      <4> QED
        BY <3>4, <4>2, BoundAssumption
    <3>8. c \in Rpc => Len(chan[c]) = 0
      <4>1. Len(<<>>) = 0
        OBVIOUS
      <4> QED
        BY <3>1, <4>1
    <3>9. \A s \in Stream : Len(chan'[s]) <= StreamBuffer + 1
      <4> TAKE s \in Stream
      <4>1. s \in Call /\ Len(chan[s]) <= StreamBuffer + 1
        BY <1>0, Disjoint DEF TypeOK
      <4>2. CASE s = c
        BY <3>4, <3>6, <3>7, <4>1, <4>2, BoundAssumption
      <4>3. CASE s # c
        BY <3>6, <4>1, <4>3
      <4> QED
        BY <4>2, <4>3
    <3>10. \A d \in Rpc : d \in Call /\ Len(chan'[d]) <= 1
      <4> TAKE d \in Rpc
      <4>1. d \in Call /\ Len(chan[d]) <= 1
        BY <1>0, Disjoint DEF TypeOK
      <4>2. CASE d = c
        BY <3>6, <3>8, <4>1, <4>2
      <4>3. CASE d # c
        BY <3>6, <4>1, <4>3
      <4> QED
        BY <4>2, <4>3
    <3>11. waiting' \in Stream \cup {None}
      <4>1. CASE c \in Rpc
        <5>1. ~(Len(chan'[c]) > BufferOf(c))
          BY <3>6, <3>8, <4>1 DEF BufferOf
        <5> QED
          BY <3>3, <5>1
      <4>2. CASE c \in Stream
        BY <3>3, <4>2
      <4> QED
        BY <3>2, <4>1, <4>2 DEF Call
    <3>12. call_reply' \subseteq Call
      BY <1>0, <3>3 DEF TypeOK, Forget
    <3>13. TypeOK'
      BY <1>0, <2>1, <2>2, <3>3, <3>6, <3>9, <3>10, <3>11, <3>12
      DEF TypeOK, request, router, consumer
    <3>14. ASSUME NEW s \in Stream
           PROVE  BoundOK(s)'
      <4>1. BoundOK(s) /\ s \in Call /\ BufferOf(s) = StreamBuffer
        BY Disjoint DEF Bounded, BufferOf
      <4>2. alive' = alive /\ open' = open /\ st' = st
        BY <3>3 DEF request
      <4>3. CASE s = c
        BY <3>3, <3>6, <4>1, <4>2, <4>3 DEF BoundOK
      <4>4. CASE s # c
        <5>1. chan'[s] = chan[s]
          BY <3>6, <4>1, <4>4
        <5>2. alive => ~(Len(chan[s]) > StreamBuffer)
          BY <3>1, <4>1, Disjoint DEF BoundOK
        <5> QED
          BY <4>1, <4>2, <5>1, <5>2 DEF BoundOK
      <4> QED
        BY <4>3, <4>4
    <3> QED
      BY <3>13, <3>14 DEF Bounded
  <2>5. CASE IgnoreReply
    <3>1. TypeOK'
      BY <1>0, <2>1, <2>2, <2>5 DEF TypeOK, IgnoreReply, request, channel, router, consumer
    <3> QED
      BY <2>5, <3>1, BoundedFrame DEF IgnoreReply, channel, request
  <2>6. CASE Pong
    <3>1. buffer' \in Seq(Request \cup {"pong"})
      BY <1>0, <2>6 DEF TypeOK, Pong
    <3>2. TypeOK'
      BY <1>0, <2>1, <2>2, <2>6, <3>1 DEF TypeOK, Pong, request, channel, router, consumer
    <3> QED
      BY <2>6, <3>2, BoundedFrame DEF Pong, channel, request
  <2>7. CASE TakeNotice
    <3>1. TypeOK'
      BY <1>0, <2>1, <2>2, <2>7 DEF TypeOK, TakeNotice, request, channel, consumer
    <3> QED
      BY <2>7, <3>1, BoundedFrame DEF TakeNotice, channel, request
  <2> QED
    BY <1>2, <2>3, <2>4, <2>5, <2>6, <2>7 DEF Read
<1> QED
  BY <1>1, <1>2

LEMMA BoundedRequest ==
    ASSUME Bounded, \A s \in Stream : UnsentOK(s), NEW r \in Request, Submit(r) \/ Abandon(r)
    PROVE  Bounded'
<1>0. TypeOK
  BY DEF Bounded
<1>1. CASE Abandon(r)
  <2>1. st' \in [Request -> State] /\ \A s \in Request : st'[s] = "idle" => st[s] = "idle"
    BY <1>0, <1>1 DEF TypeOK, Abandon, State
  <2>2. TypeOK'
    BY <1>0, <1>1, <2>1 DEF TypeOK, Abandon, channel, router, consumer
  <2> QED
    BY <1>1, <2>1, <2>2, BoundedFrame, Disjoint DEF Abandon, channel
<1>2. CASE Submit(r) /\ alive
  <2>1. st' \in [Request -> State] /\ \A s \in Request : st'[s] = "idle" => st[s] = "idle"
    BY <1>0, <1>2 DEF TypeOK, Submit, State
  <2>2. TypeOK'
    BY <1>0, <1>2, <2>1 DEF TypeOK, Submit, router, consumer
  <2> QED
    BY <1>2, <2>1, <2>2, BoundedFrame, Disjoint DEF Submit
<1>3. CASE Submit(r) /\ ~alive
  <2>1. /\ st' \in [Request -> State] /\ outcome' \in [Request -> Outcome]
        /\ \A s \in Request : st'[s] = "idle" => st[s] = "idle"
    BY <1>0, <1>3 DEF TypeOK, Submit, Resolve, State, Outcome
  <2>2. /\ alive' = alive /\ open' = open /\ st[r] = "idle"
        /\ chan' = IF r \in Stream THEN [chan EXCEPT ![r] = Append(chan[r], Closed)] ELSE chan
    BY <1>3 DEF Submit
  <2>3. /\ chan' \in [Call -> Seq(CallReply \cup {Closed})]
        /\ \A c \in Call : c \notin Stream \/ c # r => chan'[c] = chan[c]
        /\ r \in Stream => Len(chan'[r]) = 1 /\ r \in Call
    <3>1. chan \in [Call -> Seq(CallReply \cup {Closed})]
      BY <1>0 DEF TypeOK
    <3>2. CASE r \in Stream
      <4>1. r \in Call /\ chan[r] = <<>>
        BY <2>2, <3>2, Disjoint DEF UnsentOK
      <4>2. Append(<<>>, Closed) \in Seq(CallReply \cup {Closed}) /\ Len(Append(<<>>, Closed)) = 1
        OBVIOUS
      <4> QED
        BY <2>2, <3>1, <3>2, <4>1, <4>2
    <3>3. CASE r \notin Stream
      BY <2>2, <3>1, <3>3
    <3> QED
      BY <3>2, <3>3
  <2>4. \A s \in Stream : Len(chan'[s]) <= StreamBuffer + 1
    <3> TAKE s \in Stream
    <3>1. s \in Call /\ Len(chan[s]) <= StreamBuffer + 1
      BY <1>0, Disjoint DEF TypeOK
    <3>2. 1 <= StreamBuffer + 1
      BY BoundAssumption
    <3> QED
      BY <2>3, <3>1, <3>2
  <2>5. \A c \in Rpc : Len(chan'[c]) <= 1
    BY <1>0, <2>3, Disjoint DEF TypeOK
  <2>6. TypeOK'
    BY <1>0, <1>3, <2>1, <2>3, <2>4, <2>5 DEF TypeOK, Submit, router, consumer
  <2>7. ASSUME NEW s \in Stream
        PROVE  BoundOK(s)'
    <3>1. BoundOK(s) /\ s \in Call /\ s \in Request
      BY Disjoint DEF Bounded
    <3> QED
      BY <1>3, <2>1, <2>2, <2>3, <3>1 DEF BoundOK
  <2> QED
    BY <2>6, <2>7 DEF Bounded
<1> QED
  BY <1>1, <1>2, <1>3

LEMMA BoundedRouter ==
    ASSUME Bounded, NEW c \in Call, NEW rep \in CallReply,
           RouterReply(c, rep) \/ RouterLate(c)
    PROVE  Bounded'
<1>0. TypeOK
  BY DEF Bounded
<1>1. PICK x \in CallReply : /\ replies' = [replies EXCEPT ![c] = Append(@, x)]
                             /\ incoming' = Append(incoming, ReplyMsg(c, x))
  <2>1. [type |-> "full", code |-> "ok"] \in CallReply
    BY DEF CallReply
  <2> QED
    BY <2>1 DEF RouterReply, RouterLate
<1>2. replies[c] \in Seq(CallReply) /\ Len(replies[c]) \in Nat
  <2>1. replies[c] \in Seq(CallReply)
    BY <1>0 DEF TypeOK
  <2> QED
    BY <2>1
<1>3. replies' \in [Call -> Seq(CallReply)]
  <2>1. Append(replies[c], x) \in Seq(CallReply)
    BY <1>2
  <2> QED
    BY <1>0, <1>1, <2>1 DEF TypeOK
<1>4. incoming' \in Seq(InSocket)
  <2>1. ReplyMsg(c, x) \in InSocket
    BY <1>2 DEF ReplyMsg, InSocket
  <2> QED
    BY <1>0, <1>1, <2>1 DEF TypeOK
<1>5. /\ UNCHANGED <<alive, request, queue, channel, buffer, notice, answer, consumer>>
      /\ routed' \subseteq routed
  BY DEF RouterReply, RouterLate
<1>6. TypeOK'
  BY <1>0, <1>3, <1>4, <1>5 DEF TypeOK, request, channel, consumer
<1> QED
  BY <1>5, <1>6, BoundedFrame DEF channel, request

LEMMA BoundedChannels ==
    ASSUME Bounded,
           \/ Resume
           \/ \E c \in Rpc : Fetch(c)
           \/ \E s \in Stream : Consume(s) \/ ConsumeEnd(s) \/ DropStream(s)
           \/ \E kind \in {"ping", "event"} : RouterNotice(kind)
    PROVE  Bounded'
<1>0. TypeOK /\ chan \in [Call -> Seq(CallReply \cup {Closed})]
  BY DEF Bounded, TypeOK
<1>1. CASE Resume
  <2>1. TypeOK'
    BY <1>0, <1>1 DEF TypeOK, Resume, request, router, consumer
  <2>2. ASSUME NEW s \in Stream
        PROVE  BoundOK(s)'
    <3>1. BoundOK(s) /\ BufferOf(s) = StreamBuffer /\ Len(<<>>) = 0
      BY Disjoint DEF Bounded, BufferOf
    <3>2. /\ chan' = chan /\ st' = st /\ open' = open /\ alive' = alive
          /\ SendDone(waiting)
      BY <1>1 DEF Resume, request
    <3>3. ~(alive /\ Len(chan[s]) > StreamBuffer)
      <4> SUFFICES ASSUME alive, Len(chan[s]) > StreamBuffer PROVE FALSE
        OBVIOUS
      <4>1. waiting = s
        BY <3>1 DEF BoundOK
      <4>2. CASE s \notin open
        BY <3>1, <4>2, BoundAssumption DEF BoundOK
      <4>3. CASE Len(chan[s]) <= StreamBuffer
        <5>1. Len(chan[s]) \in Nat
          BY <1>0, Disjoint
        <5> QED
          BY <4>3, <5>1, BoundAssumption
      <4> QED
        BY <3>1, <3>2, <4>1, <4>2, <4>3 DEF SendDone
    <3> QED
      BY <3>1, <3>2, <3>3 DEF BoundOK
  <2> QED
    BY <2>1, <2>2 DEF Bounded
<1>2. ASSUME NEW c \in Rpc, Fetch(c) PROVE Bounded'
  <2>1. <<>> \in Seq(CallReply \cup {Closed}) /\ Len(<<>>) = 0 /\ c \in Call /\ c \in Request
    BY Disjoint
  <2>2. /\ chan' \in [Call -> Seq(CallReply \cup {Closed})] /\ chan'[c] = <<>>
        /\ \A d \in Call : d # c => chan'[d] = chan[d]
    BY <1>0, <1>2, <2>1 DEF Fetch
  <2>3. /\ st' \in [Request -> State] /\ outcome' \in [Request -> Outcome]
        /\ \A s \in Request : st'[s] = "idle" => st[s] = "idle"
    BY <1>0, <1>2, <2>1 DEF TypeOK, Fetch, Resolve, FetchResult, State, Outcome
  <2>4. \A s \in Stream : s \in Call /\ s # c /\ s \in Request /\ chan'[s] = chan[s]
    BY <2>2, Disjoint
  <2>5. \A d \in Rpc : Len(chan'[d]) <= 1
    BY <1>0, <2>1, <2>2, Disjoint, SMTT(40) DEF TypeOK
  <2>6. TypeOK'
    BY <1>0, <1>2, <2>2, <2>3, <2>4, <2>5 DEF TypeOK, Fetch, router, consumer
  <2>7. ASSUME NEW s \in Stream
        PROVE  BoundOK(s)'
    BY <1>2, <2>3, <2>4 DEF BoundOK, Bounded, Fetch
  <2> QED
    BY <2>6, <2>7 DEF Bounded
<1>3. ASSUME NEW s \in Stream, Consume(s) PROVE Bounded'
  <2>1. s \in Call /\ chan[s] \in Seq(CallReply \cup {Closed}) /\ chan[s] # <<>> /\ s \in open
    BY <1>0, <1>3, Disjoint DEF Consume
  <2>2. /\ Tail(chan[s]) \in Seq(CallReply \cup {Closed}) /\ Len(Tail(chan[s])) = Len(chan[s]) - 1
        /\ Len(chan[s]) \in Nat /\ Head(chan[s]) \in CallReply \cup {Closed}
    BY <2>1
  <2>3. /\ chan' \in [Call -> Seq(CallReply \cup {Closed})] /\ chan'[s] = Tail(chan[s])
        /\ \A d \in Call : d # s => chan'[d] = chan[d]
    BY <1>0, <1>3, <2>1, <2>2 DEF Consume
  <2>4. got' \in [Stream -> Seq(CallReply \cup {Closed})]
    BY <1>0, <1>3, <2>2 DEF TypeOK, Consume
  <2>5. \A t \in Stream : t \in Call /\ Len(chan'[t]) <= Len(chan[t]) /\ Len(chan[t]) \in Nat /\ Len(chan'[t]) \in Nat
    <3> TAKE t \in Stream
    <3>1. t \in Call /\ chan[t] \in Seq(CallReply \cup {Closed})
      BY <1>0, Disjoint
    <3>2. Len(chan[t]) \in Nat
      BY <3>1
    <3>3. CASE t = s
      BY <2>2, <2>3, <3>1, <3>2, <3>3
    <3>4. CASE t # s
      BY <2>3, <3>1, <3>2, <3>4
    <3> QED
      BY <3>3, <3>4
  <2>6. \A t \in Stream : Len(chan'[t]) <= StreamBuffer + 1
    BY <1>0, <2>5, BoundAssumption, SMTT(40) DEF TypeOK
  <2>7. \A d \in Rpc : Len(chan'[d]) <= 1
    BY <1>0, <2>3, Disjoint DEF TypeOK
  <2>8. TypeOK'
    BY <1>0, <1>3, <2>3, <2>4, <2>6, <2>7 DEF TypeOK, Consume, request, router
  <2>9. ASSUME NEW t \in Stream
        PROVE  BoundOK(t)'
    <3>1. /\ BoundOK(t) /\ t \in Call /\ alive' = alive /\ open' = open /\ st' = st /\ waiting' = waiting
          /\ Len(chan'[t]) <= Len(chan[t])
      BY <1>3, <2>5, Disjoint DEF Bounded, Consume, request
    <3>2. Len(chan'[t]) > StreamBuffer => Len(chan[t]) > StreamBuffer
      BY <2>5, BoundAssumption
    <3>3. t \notin open => chan'[t] = <<>>
      BY <2>1, <2>3, <3>1 DEF BoundOK
    <3> QED
      BY <3>1, <3>2, <3>3 DEF BoundOK
  <2> QED
    BY <2>8, <2>9 DEF Bounded
<1>4. ASSUME NEW s \in Stream, ConsumeEnd(s) PROVE Bounded'
  <2>1. TypeOK'
    BY <1>0, <1>4 DEF TypeOK, ConsumeEnd, request, channel, router
  <2> QED
    BY <1>4, <2>1, BoundedFrame DEF ConsumeEnd, channel, request
<1>5. ASSUME NEW s \in Stream, DropStream(s) PROVE Bounded'
  <2>1. <<>> \in Seq(CallReply \cup {Closed}) /\ Len(<<>>) = 0 /\ s \in Call
    BY Disjoint
  <2>2. /\ chan' \in [Call -> Seq(CallReply \cup {Closed})] /\ chan'[s] = <<>>
        /\ \A d \in Call : d # s => chan'[d] = chan[d]
    BY <1>0, <1>5, <2>1 DEF DropStream
  <2>3. \A t \in Stream : t \in Call /\ Len(chan'[t]) <= StreamBuffer + 1
    <3> TAKE t \in Stream
    <3>1. t \in Call /\ Len(chan[t]) <= StreamBuffer + 1
      BY <1>0, Disjoint DEF TypeOK
    <3>2. 0 <= StreamBuffer + 1
      BY BoundAssumption
    <3> QED
      BY <2>1, <2>2, <3>1, <3>2
  <2>4. \A d \in Rpc : Len(chan'[d]) <= 1
    BY <1>0, <2>2, Disjoint DEF TypeOK
  <2>5. TypeOK'
    BY <1>0, <1>5, <2>2, <2>3, <2>4 DEF TypeOK, DropStream, request, router, consumer
  <2>6. ASSUME NEW t \in Stream
        PROVE  BoundOK(t)'
    <3>1. /\ BoundOK(t) /\ t \in Call /\ alive' = alive /\ open' = open \ {s} /\ st' = st
          /\ waiting' = waiting /\ st[s] # "idle"
      BY <1>5, Disjoint DEF Bounded, DropStream, request
    <3>2. CASE t = s
      BY <2>1, <2>2, <3>1, <3>2, BoundAssumption DEF BoundOK
    <3>3. CASE t # s
      BY <2>2, <3>1, <3>3 DEF BoundOK
    <3> QED
      BY <3>2, <3>3
  <2> QED
    BY <2>5, <2>6 DEF Bounded
<1>6. ASSUME NEW kind \in {"ping", "event"}, RouterNotice(kind) PROVE Bounded'
  <2>1. [for |-> kind] \in InSocket
    BY DEF InSocket
  <2>2. incoming' \in Seq(InSocket)
    BY <1>0, <1>6, <2>1 DEF TypeOK, RouterNotice
  <2>3. TypeOK'
    BY <1>0, <1>6, <2>2 DEF TypeOK, RouterNotice, request, channel, consumer
  <2> QED
    BY <1>6, <2>3, BoundedFrame DEF RouterNotice, channel, request
<1> QED
  BY <1>1, <1>2, <1>3, <1>4, <1>5, <1>6

LEMMA BoundedNext ==
    ASSUME Bounded, \A s \in Stream : UnsentOK(s), [Next]_vars
    PROVE  Bounded'
<1>1. ASSUME UNCHANGED vars PROVE Bounded'
  <2>1. TypeOK'
    BY <1>1 DEF Bounded, TypeOK, vars, request, channel, router, consumer
  <2> QED
    BY <1>1, <2>1, BoundedFrame DEF vars, request, channel
<1>2. ASSUME NEW c \in Call, RouterLate(c) PROVE Bounded'
  <2>1. [type |-> "full", code |-> "ok"] \in CallReply
    BY DEF CallReply
  <2> QED
    BY <1>2, <2>1, BoundedRouter
<1>3. ASSUME ConnectionLost PROVE Bounded'
  BY <1>3, BoundedStops DEF ConnectionLost
<1> QED
  BY <1>1, <1>2, <1>3, BoundedHandle, BoundedTransmit, BoundedRead, BoundedRequest, BoundedRouter,
     BoundedChannels DEF Next


-----------------------------------------------------------------------------
(* Commands get their answers.                                             *)

\* A step that neither queues nor answers a command.
LEMMA CommandFrame ==
    ASSUME CommandInv, queue' = queue, answer' = answer,
           \A k \in Kind : Mirrors(k, incoming', buffer', queue[k], answer),
           \A c \in Cmd : \/ st'[c] = st[c] /\ outcome'[c] = outcome[c]
                          \/ st[c] \in {"idle", "mailbox"} /\ outcome'[c] \notin {"ok", "refused"}
    PROVE  CommandInv'
<1>1. ASSUME NEW k \in Kind PROVE QueueOK(k)'
  <2>1. QueueOK(k)
    BY DEF CommandInv
  <2>2. \A i \in 1 .. Len(queue[k]) : st'[queue[k][i]] = "pending"
    <3> TAKE i \in 1 .. Len(queue[k])
    <3>1. queue[k][i] \in Cmd
      BY <2>1 DEF QueueOK, Mirrors, AllOnWire, IsCommand
    <3>2. st[queue[k][i]] = "pending"
      BY <2>1 DEF QueueOK
    <3> QED
      BY <3>1, <3>2
  <2> QED
    BY <2>1, <2>2 DEF QueueOK
<1>2. ASSUME NEW c \in Cmd PROVE AnswerOK(c)'
  BY DEF CommandInv, AnswerOK
<1> QED
  BY <1>1, <1>2 DEF CommandInv

\* The same when a message that is no command is sent.
LEMMA CommandSent ==
    ASSUME Bounded, CommandInv, NEW m \in Request \cup {"pong"}, m \notin Cmd,
           buffer' = Append(buffer, m), UNCHANGED <<queue, answer, incoming>>,
           \A c \in Cmd : \/ st'[c] = st[c] /\ outcome'[c] = outcome[c]
                          \/ st[c] \in {"idle", "mailbox"} /\ outcome'[c] \notin {"ok", "refused"}
    PROVE  CommandInv'
<1>1. buffer \in Seq(Request \cup {"pong"})
  BY DEF Bounded, TypeOK
<1>2. ASSUME NEW k \in Kind PROVE Mirrors(k, incoming', buffer', queue[k], answer)
  <2>1. Mirrors(k, incoming, buffer, queue[k], answer)
    BY DEF CommandInv, QueueOK
  <2>2. ~IsCommand(m, k)
    BY DEF IsCommand
  <2>3. Mirrors(k, incoming, Append(buffer, m), queue[k], answer)
    BY <1>1, <2>1, <2>2, MirrorOut
  <2> QED
    BY <2>3
<1> QED
  BY <1>2, CommandFrame

\* ... or a message that is no reply to a command arrives ...
LEMMA CommandArrives ==
    ASSUME Bounded, CommandInv, NEW m \in InSocket, m.for # "command",
           incoming' = Append(incoming, m), UNCHANGED <<queue, answer, buffer, st, outcome>>
    PROVE  CommandInv'
<1>1. incoming \in Seq(InSocket)
  BY DEF Bounded, TypeOK
<1>2. ASSUME NEW k \in Kind PROVE Mirrors(k, incoming', buffer', queue[k], answer)
  <2>1. Mirrors(k, incoming, buffer, queue[k], answer)
    BY DEF CommandInv, QueueOK
  <2>2. ~IsReply(m, k)
    BY DEF IsReply
  <2>3. Mirrors(k, Append(incoming, m), buffer, queue[k], answer)
    BY <1>1, <2>1, <2>2, MirrorIn
  <2> QED
    BY <2>3
<1> QED
  BY <1>2, CommandFrame

\* ... or is read.
LEMMA CommandPasses ==
    ASSUME Bounded, CommandInv, incoming # <<>>, Head(incoming).for # "command",
           incoming' = Tail(incoming), UNCHANGED <<queue, answer, buffer, st, outcome>>
    PROVE  CommandInv'
<1>1. incoming \in Seq(InSocket)
  BY DEF Bounded, TypeOK
<1>2. ASSUME NEW k \in Kind PROVE Mirrors(k, incoming', buffer', queue[k], answer)
  <2>1. Mirrors(k, incoming, buffer, queue[k], answer)
    BY DEF CommandInv, QueueOK
  <2>2. ~IsReply(Head(incoming), k)
    BY DEF IsReply
  <2>3. Mirrors(k, Tail(incoming), buffer, queue[k], answer)
    BY <1>1, <2>1, <2>2, MirrorInTail
  <2> QED
    BY <2>3
<1> QED
  BY <1>2, CommandFrame

LEMMA CommandHandle ==
    ASSUME Bounded, CommandInv, NEW r \in Request, Handle(r)
    PROVE  CommandInv'
<1>0. TypeOK /\ st \in [Request -> State] /\ outcome \in [Request -> Outcome]
  BY DEF Bounded, TypeOK
<1>1. CASE r \in Cmd /\ HandleCmd(r)
  <2>0. /\ buffer \in Seq(Request \cup {"pong"}) /\ queue \in [Kind -> Seq(Cmd)] /\ KindOf[r] \in Kind
        /\ st[r] = "mailbox" /\ st' = [st EXCEPT ![r] = "pending"] /\ buffer' = Append(buffer, r)
        /\ queue' = [queue EXCEPT ![KindOf[r]] = Append(queue[KindOf[r]], r)]
        /\ UNCHANGED <<incoming, answer, outcome>>
    BY <1>0, <1>1, Disjoint DEF TypeOK, HandleCmd, Enqueue, router
  <2>1. \A c \in Cmd : c # r => st'[c] = st[c]
    BY <1>0, <2>0, Disjoint
  <2>2. st'[r] = "pending"
    BY <1>0, <2>0
  <2>3. ASSUME NEW k \in Kind, k # KindOf[r] PROVE QueueOK(k)'
    <3>1. QueueOK(k) /\ ~IsCommand(r, k) /\ queue'[k] = queue[k]
      BY <2>0, <2>3 DEF CommandInv, IsCommand
    <3>2. Mirrors(k, incoming, Append(buffer, r), queue[k], answer)
      BY <2>0, <3>1, MirrorOut DEF QueueOK
    <3>3. \A i \in 1 .. Len(queue[k]) : queue[k][i] \in Cmd /\ queue[k][i] # r /\ st[queue[k][i]] = "pending"
      BY <2>0, <3>1 DEF QueueOK, Mirrors, AllOnWire, IsCommand
    <3> QED
      BY <2>0, <2>1, <3>1, <3>2, <3>3 DEF QueueOK
  <2>4. QueueOK(KindOf[r])'
    <3>1. PICK k \in Kind : k = KindOf[r]
      BY <2>0
    <3>2. PICK q : q = queue[k]
      OBVIOUS
    <3>3. QueueOK(k) /\ q \in Seq(Cmd) /\ IsCommand(r, k) /\ queue'[k] = Append(q, r)
      BY <1>1, <2>0, <3>1, <3>2 DEF CommandInv, IsCommand
    <3>4. \A i \in 1 .. Len(q) : q[i] \in Cmd /\ st[q[i]] = "pending"
      BY <3>2, <3>3 DEF QueueOK, Mirrors, AllOnWire, IsCommand
    <3>5. ~InQueue(q, r)
      BY <2>0, <3>4 DEF InQueue
    <3>6. Mirrors(k, incoming, buffer, q, answer) /\ NoDuplicates(q)
      BY <3>2, <3>3 DEF QueueOK
    <3>7. Mirrors(k, incoming, Append(buffer, r), Append(q, r), answer)
      BY <1>1, <2>0, <3>3, <3>5, <3>6, MirrorSend
    <3>8. NoDuplicates(Append(q, r))
      BY <1>1, <3>3, <3>5, <3>6, QueueGrows
    <3>9. \A i \in 1 .. Len(Append(q, r)) : st'[Append(q, r)[i]] = "pending"
      <4>1. PICK p : p = Append(q, r)
        OBVIOUS
      <4>2. \A i \in 1 .. Len(p) : p[i] = r \/ (i \in 1 .. Len(q) /\ p[i] = q[i])
        BY <1>1, <3>3, <4>1
      <4>3. \A i \in 1 .. Len(p) : st'[p[i]] = "pending"
        <5> TAKE i \in 1 .. Len(p)
        <5>1. CASE p[i] = r
          BY <2>2, <5>1
        <5>2. CASE p[i] # r
          BY <2>1, <3>4, <4>2, <5>2
        <5> QED
          BY <5>1, <5>2
      <4> QED
        BY <4>1, <4>3
    <3>10. QueueOK(k)'
      BY <2>0, <3>3, <3>7, <3>8, <3>9 DEF QueueOK
    <3> QED
      BY <3>1, <3>10, <2>0 DEF QueueOK
  <2>5. ASSUME NEW c \in Cmd PROVE AnswerOK(c)'
    BY <2>0, <2>1 DEF CommandInv, AnswerOK
  <2> QED
    BY <2>3, <2>4, <2>5 DEF CommandInv
<1>2. CASE r \in Call /\ HandleCall(r)
  <2>1. /\ r \notin Cmd /\ \A c \in Cmd : c \in Request /\ c # r
    BY <1>2, Disjoint
  <2>2. \A c \in Cmd : st'[c] = st[c] /\ outcome'[c] = outcome[c]
    BY <1>0, <1>2, <2>1 DEF HandleCall
  <2> QED
    BY <1>2, <2>1, <2>2, CommandSent DEF HandleCall, router
<1>3. CASE r \in Push /\ HandlePush(r)
  <2>1. /\ r \notin Cmd /\ \A c \in Cmd : c \in Request /\ c # r
    BY <1>3, Disjoint
  <2>2. \A c \in Cmd : st'[c] = st[c] /\ outcome'[c] = outcome[c]
    BY <1>0, <1>3, <2>1 DEF HandlePush, Resolve
  <2> QED
    BY <1>3, <2>1, <2>2, CommandSent DEF HandlePush, router
<1> QED
  BY <1>1, <1>2, <1>3 DEF Handle


LEMMA CommandTransmit ==
    ASSUME Bounded, CommandInv, Transmit
    PROVE  CommandInv'
<1>0. /\ buffer \in Seq(Request \cup {"pong"}) /\ buffer # <<>> /\ buffer' = Tail(buffer)
      /\ incoming \in Seq(InSocket) /\ queue \in [Kind -> Seq(Cmd)]
      /\ answer \in [Cmd -> {"none", "ok", "refused"}]
      /\ UNCHANGED <<st, outcome, queue>>
  BY DEF Bounded, TypeOK, Transmit, request
<1>1. PICK m : m = Head(buffer)
  OBVIOUS
<1>2. CASE /\ m \in Cmd
           /\ \E a \in {"ok", "refused"} :
                /\ answer' = [answer EXCEPT ![m] = a]
                /\ incoming' = Append(incoming, [for |-> "command", kind |-> KindOf[m],
                                                 code |-> a, of |-> m])
  <2>1. PICK a \in {"ok", "refused"} :
                /\ answer' = [answer EXCEPT ![m] = a]
                /\ incoming' = Append(incoming, [for |-> "command", kind |-> KindOf[m],
                                                 code |-> a, of |-> m])
    BY <1>2
  <2>2. PICK x : x = [for |-> "command", kind |-> KindOf[m], code |-> a, of |-> m]
    OBVIOUS
  <2>3. x \in InSocket /\ KindOf[m] \in Kind
    BY <1>2, <2>2, Disjoint DEF InSocket
  <2>4. x.for = "command" /\ x.kind = KindOf[m] /\ x.code = a /\ x.of = m
    BY <2>2
  <2>5. answer'[m] = a /\ \A c : c \in Cmd /\ c # m => answer'[c] = answer[c]
    BY <1>0, <1>2, <2>1
  <2>6. IsCommand(m, KindOf[m]) /\ InQueue(queue[KindOf[m]], m)
    <3>1. 1 \in 1 .. Len(buffer) /\ buffer[1] = m
      BY <1>0, <1>1
    <3>2. CommandsKnown(KindOf[m], buffer, queue[KindOf[m]])
      BY <2>3 DEF CommandInv, QueueOK, Mirrors
    <3> QED
      BY <1>2, <3>1, <3>2 DEF CommandsKnown, IsCommand
  <2>7. ASSUME NEW k \in Kind
        PROVE  Mirrors(k, Append(incoming, x), Tail(buffer), queue[k], answer')
    <3>1. queue[k] \in Seq(Cmd) /\ Mirrors(k, incoming, buffer, queue[k], answer)
      BY <1>0 DEF CommandInv, QueueOK
    <3>2. CASE k = KindOf[m]
      <4>1. IsCommand(Head(buffer), k) /\ IsReply(x, k) /\ x.of = Head(buffer)
        BY <1>1, <1>2, <2>4, <3>2 DEF IsCommand, IsReply
      <4>2. x.code = answer'[Head(buffer)]
        BY <1>1, <2>4, <2>5
      <4>3. \A c : IsCommand(c, k) /\ c # Head(buffer) => answer'[c] = answer[c]
        BY <1>1, <2>5 DEF IsCommand
      <4> QED
        BY <1>0, <2>3, <3>1, <4>1, <4>2, <4>3, MirrorAnswer
    <3>3. CASE k # KindOf[m]
      <4>1. ~IsCommand(Head(buffer), k) /\ ~IsReply(x, k)
        BY <1>1, <2>4, <3>3 DEF IsCommand, IsReply
      <4>2. PICK t : t = Tail(buffer)
        OBVIOUS
      <4>3. Mirrors(k, incoming, t, queue[k], answer)
        BY <1>0, <3>1, <4>1, <4>2, MirrorOutTail
      <4>4. PICK v : v = Append(incoming, x)
        OBVIOUS
      <4>5. Mirrors(k, v, t, queue[k], answer)
        BY <1>0, <2>3, <4>1, <4>3, <4>4, MirrorIn
      <4>6. \A c : IsCommand(c, k) => answer'[c] = answer[c]
        BY <2>5, <3>3 DEF IsCommand
      <4> QED
        BY <4>2, <4>4, <4>5, <4>6, MirrorSame
    <3> QED
      BY <3>2, <3>3
  <2>8. ASSUME NEW k \in Kind PROVE QueueOK(k)'
    <3>1. QueueOK(k)
      BY DEF CommandInv
    <3>2. Mirrors(k, incoming', buffer', queue'[k], answer')
      BY <1>0, <2>1, <2>2, <2>7
    <3> QED
      BY <1>0, <3>1, <3>2 DEF QueueOK
  <2>9. ASSUME NEW c \in Cmd PROVE AnswerOK(c)'
    <3>1. AnswerOK(c)
      BY DEF CommandInv
    <3>2. CASE c # m
      BY <1>0, <2>5, <3>1, <3>2 DEF AnswerOK
    <3>3. CASE c = m
      <4>1. st[m] = "pending"
        BY <2>3, <2>6 DEF CommandInv, QueueOK, InQueue
      <4> QED
        BY <1>0, <3>1, <3>3, <4>1 DEF AnswerOK
    <3> QED
      BY <3>2, <3>3
  <2> QED
    BY <2>8, <2>9 DEF CommandInv
<1>3. CASE m \notin Cmd /\ UNCHANGED <<incoming, answer>>
  <2>1. ASSUME NEW k \in Kind PROVE Mirrors(k, incoming', buffer', queue[k], answer)
    <3>1. Mirrors(k, incoming, buffer, queue[k], answer) /\ ~IsCommand(Head(buffer), k)
      BY <1>1, <1>3 DEF CommandInv, QueueOK, IsCommand
    <3>2. Mirrors(k, incoming, Tail(buffer), queue[k], answer)
      BY <1>0, <3>1, MirrorOutTail
    <3> QED
      BY <1>0, <1>3, <3>2
  <2> QED
    BY <1>0, <1>3, <2>1, CommandFrame
<1>4. m \in Cmd \/ m \notin Cmd
  OBVIOUS
<1> QED
  BY <1>1, <1>2, <1>3, Disjoint DEF Transmit, router

LEMMA CommandRead ==
    ASSUME Bounded, CommandInv, Read, ~InvalidReply
    PROVE  CommandInv'
<1>0. incoming \in Seq(InSocket) /\ queue \in [Kind -> Seq(Cmd)]
  BY DEF Bounded, TypeOK
<1>1. CASE CommandReply
  <2>1. PICK m : m = Head(incoming)
    OBVIOUS
  <2>2. m \in InSocket /\ m.for = "command" /\ incoming # <<>> /\ incoming' = Tail(incoming)
    BY <1>0, <1>1, <2>1 DEF CommandReply, CanRead
  <2>3. PICK k : k = m.kind
    OBVIOUS
  <2>4. k \in Kind /\ m.code \in {"ok", "refused"}
    BY <2>2, <2>3 DEF InSocket
  <2>5. PICK q : q = queue[k]
    OBVIOUS
  <2>6. q \in Seq(Cmd) /\ QueueOK(k) /\ IsReply(m, k)
    BY <1>0, <2>2, <2>3, <2>4, <2>5 DEF CommandInv, IsReply
  <2>7. Mirrors(k, incoming, buffer, q, answer) /\ NoDuplicates(q)
    BY <2>5, <2>6 DEF QueueOK
  <2>8. buffer \in Seq(Request \cup {"pong"})
    BY DEF Bounded, TypeOK
  <2>9. /\ q # <<>> /\ m.of = q[1] /\ m.code = answer[q[1]]
        /\ Mirrors(k, Tail(incoming), buffer, Tail(q), answer)
        /\ NoDuplicates(Tail(q))
    BY <1>0, <2>1, <2>2, <2>6, <2>7, <2>8, MirrorPop
  <2>10. q[Oldest(q)] = q[1] /\ q[1] \in Cmd /\ RemoveAt(q, Oldest(q)) = Tail(q)
    BY <2>6, <2>9, PopFront
  <2>11. PICK c \in Cmd : c = q[1]
    BY <2>10
  <2>12. /\ st' = [st EXCEPT ![c] = "done"] /\ outcome' = [outcome EXCEPT ![c] = m.code]
         /\ queue' = [queue EXCEPT ![k] = Tail(q)]
         /\ UNCHANGED <<buffer, answer>>
    BY <1>1, <2>1, <2>3, <2>5, <2>10, <2>11 DEF CommandReply, Resolve, router
  <2>13. /\ st'[c] = "done" /\ outcome'[c] = m.code
         /\ \A d \in Cmd : d # c => st'[d] = st[d] /\ outcome'[d] = outcome[d]
    BY <2>12, Disjoint DEF Bounded, TypeOK
  <2>14. \A i \in 1 .. Len(Tail(q)) : Tail(q)[i] \in Cmd /\ Tail(q)[i] # c /\ st[Tail(q)[i]] = "pending"
    <3>1. PICK v : v = Tail(q)
      OBVIOUS
    <3>2. /\ Len(q) \in Nat \ {0} /\ Len(v) = Len(q) - 1
          /\ \A i \in 1 .. Len(q) - 1 : v[i] = q[i + 1]
      BY <2>6, <2>9, <3>1
    <3>3. \A i \in 1 .. Len(v) : i + 1 \in 1 .. Len(q) /\ v[i] = q[i + 1] /\ i + 1 # 1 /\ 1 \in 1 .. Len(q)
      BY <3>2
    <3>4. \A i \in 1 .. Len(q) : q[i] \in Cmd /\ st[q[i]] = "pending"
      BY <2>5, <2>6 DEF QueueOK, Mirrors, AllOnWire, IsCommand
    <3>5. \A i \in 1 .. Len(v) : v[i] \in Cmd /\ v[i] # c /\ st[v[i]] = "pending"
      BY <2>7, <2>11, <3>3, <3>4 DEF NoDuplicates
    <3> QED
      BY <3>1, <3>5
  <2>15. QueueOK(k)'
    <3>1. queue'[k] = Tail(q)
      BY <1>0, <2>4, <2>12
    <3>2. \A i \in 1 .. Len(Tail(q)) : st'[Tail(q)[i]] = "pending"
      BY <2>13, <2>14
    <3>3. Mirrors(k, incoming', buffer', queue'[k], answer')
      BY <2>2, <2>9, <2>12, <3>1
    <3> QED
      BY <2>9, <3>1, <3>2, <3>3 DEF QueueOK
  <2>16. ASSUME NEW j \in Kind, j # k PROVE QueueOK(j)'
    <3>1. QueueOK(j) /\ queue'[j] = queue[j] /\ ~IsReply(Head(incoming), j)
      BY <1>0, <2>1, <2>3, <2>12, <2>16 DEF CommandInv, IsReply
    <3>2. Mirrors(j, Tail(incoming), buffer, queue[j], answer)
      BY <1>0, <2>2, <3>1, MirrorInTail DEF QueueOK
    <3>3. KindOf[c] = k
      <4>1. Len(q) \in Nat \ {0}
        BY <2>6, <2>9
      <4>2. 1 \in 1 .. Len(q)
        BY <4>1
      <4> QED
        BY <2>7, <2>11, <4>2 DEF Mirrors, AllOnWire, IsCommand
    <3>4. \A i \in 1 .. Len(queue[j]) : queue[j][i] \in Cmd /\ queue[j][i] # c /\ st[queue[j][i]] = "pending"
      BY <2>16, <3>1, <3>3 DEF QueueOK, Mirrors, AllOnWire, IsCommand
    <3>5. \A i \in 1 .. Len(queue[j]) : st'[queue[j][i]] = "pending"
      BY <2>13, <3>4
    <3>6. Mirrors(j, incoming', buffer', queue'[j], answer')
      BY <2>2, <2>12, <3>1, <3>2
    <3> QED
      BY <3>1, <3>5, <3>6 DEF QueueOK
  <2>17. ASSUME NEW d \in Cmd PROVE AnswerOK(d)'
    <3>1. AnswerOK(d)
      BY DEF CommandInv
    <3> QED
      BY <2>9, <2>11, <2>12, <2>13, <3>1 DEF AnswerOK
  <2> QED
    BY <2>15, <2>16, <2>17 DEF CommandInv
<1>2. CASE PassReply
  BY <1>2, CommandPasses DEF PassReply, CanRead, request, router
<1>3. CASE IgnoreReply
  BY <1>3, CommandPasses DEF IgnoreReply, CanRead, request, router
<1>4. CASE Pong
  <2>1. incoming # <<>> /\ Head(incoming).for = "ping"
    BY <1>4 DEF Pong, CanRead
  <2>2. buffer \in Seq(Request \cup {"pong"}) /\ "pong" \notin Cmd
    BY Disjoint DEF Bounded, TypeOK
  <2>3. ASSUME NEW k \in Kind PROVE Mirrors(k, incoming', buffer', queue[k], answer)
    <3>1. Mirrors(k, incoming, buffer, queue[k], answer) /\ ~IsReply(Head(incoming), k) /\ ~IsCommand("pong", k)
      BY <2>1, <2>2 DEF CommandInv, QueueOK, IsReply, IsCommand
    <3>2. PICK v : v = Tail(incoming)
      OBVIOUS
    <3>3. Mirrors(k, v, buffer, queue[k], answer)
      BY <1>0, <2>1, <3>1, <3>2, MirrorInTail
    <3>4. Mirrors(k, v, Append(buffer, "pong"), queue[k], answer)
      BY <2>2, <3>1, <3>3, MirrorOut
    <3> QED
      BY <1>4, <3>2, <3>4 DEF Pong
  <2> QED
    BY <1>4, <2>3, CommandFrame DEF Pong, request, router
<1>5. CASE TakeNotice
  BY <1>5, CommandPasses DEF TakeNotice, CanRead, request
<1> QED
  BY <1>1, <1>2, <1>3, <1>4, <1>5 DEF Read


LEMMA CommandStops ==
    ASSUME Bounded, CommandInv, Stops
    PROVE  CommandInv'
<1>1. Len(<<>>) = 0 /\ \A i \in 1 .. 0 : FALSE
  OBVIOUS
<1>2. ASSUME NEW k \in Kind PROVE QueueOK(k)'
  <2>1. queue'[k] = <<>> /\ incoming' = <<>> /\ buffer' = <<>>
    BY DEF Stops
  <2>2. Mirrors(k, <<>>, <<>>, <<>>, answer') /\ NoDuplicates(<<>>)
    BY <1>1 DEF Mirrors, RepliesKnown, CommandsKnown, RepliesOrdered, CommandsOrdered, AnsweredFirst,
                AllOnWire, NoDuplicates
  <2>3. \A i \in 1 .. Len(queue'[k]) : st'[queue'[k][i]] = "pending"
    BY <1>1, <2>1
  <2> QED
    BY <2>1, <2>2, <2>3 DEF QueueOK
<1>3. ASSUME NEW c \in Cmd PROVE AnswerOK(c)'
  <2>1. AnswerOK(c) /\ answer' = answer /\ c \in Request
    BY Disjoint DEF CommandInv, Stops
  <2>2. CASE c \in Closing
    BY <2>1, <2>2, Disjoint DEF Stops, AnswerOK
  <2>3. CASE c \notin Closing
    BY <2>1, <2>3 DEF Stops, AnswerOK
  <2> QED
    BY <2>2, <2>3
<1> QED
  BY <1>2, <1>3 DEF CommandInv

LEMMA CommandNext ==
    ASSUME Bounded, CommandInv, [Next]_vars
    PROVE  CommandInv'
<1>0. /\ st \in [Request -> State] /\ outcome \in [Request -> Outcome]
      /\ \A k \in Kind : Mirrors(k, incoming, buffer, queue[k], answer)
  BY DEF Bounded, TypeOK, CommandInv, QueueOK
<1>1. ASSUME UNCHANGED <<st, outcome, queue, answer, incoming, buffer>> PROVE CommandInv'
  BY <1>0, <1>1, CommandFrame
<1>2. CASE ConnectionLost \/ InvalidReply
  BY <1>2, CommandStops DEF ConnectionLost, InvalidReply
<1>3. ASSUME NEW r \in Request, Submit(r) \/ Abandon(r) PROVE CommandInv'
  <2>1. UNCHANGED <<queue, answer, incoming, buffer>>
    BY <1>3 DEF Submit, Abandon, router
  <2>2. \A c \in Cmd : \/ st'[c] = st[c] /\ outcome'[c] = outcome[c]
                       \/ st[c] \in {"idle", "mailbox"} /\ outcome'[c] \notin {"ok", "refused"}
    <3> TAKE c \in Cmd
    <3>1. c \in Request /\ AnswerOK(c)
      BY Disjoint DEF CommandInv
    <3>2. CASE c # r
      BY <1>0, <1>3, <3>1, <3>2 DEF Submit, Abandon, Resolve
    <3>3. CASE c = r
      <4>1. st[r] \in {"idle", "mailbox"} /\ outcome[r] \notin {"ok", "refused"}
        BY <1>3, <3>1, <3>3 DEF Submit, Abandon, AnswerOK
      <4>2. outcome'[r] = outcome[r] \/ outcome'[r] \in {"none", "closed"}
        BY <1>0, <1>3 DEF Submit, Abandon, Resolve
      <4> QED
        BY <3>3, <4>1, <4>2
    <3> QED
      BY <3>2, <3>3
  <2> QED
    BY <1>0, <2>1, <2>2, CommandFrame
<1>4. ASSUME NEW c \in Call, NEW rep \in CallReply, RouterReply(c, rep) PROVE CommandInv'
  <2>1. Len(replies[c]) \in Nat
    <3>1. replies[c] \in Seq(CallReply)
      BY DEF Bounded, TypeOK
    <3> QED
      BY <3>1
  <2>2. ReplyMsg(c, rep) \in InSocket /\ ReplyMsg(c, rep).for # "command"
    BY <2>1 DEF ReplyMsg, InSocket
  <2> QED
    BY <1>4, <2>2, CommandArrives DEF RouterReply, request
<1>5. ASSUME NEW c \in Call, RouterLate(c) PROVE CommandInv'
  <2>1. Len(replies[c]) \in Nat
    <3>1. replies[c] \in Seq(CallReply)
      BY DEF Bounded, TypeOK
    <3> QED
      BY <3>1
  <2>2. PICK rep \in CallReply : incoming' = Append(incoming, ReplyMsg(c, rep))
    <3>1. [type |-> "full", code |-> "ok"] \in CallReply
      BY DEF CallReply
    <3> QED
      BY <1>5, <3>1 DEF RouterLate
  <2>3. ReplyMsg(c, rep) \in InSocket /\ ReplyMsg(c, rep).for # "command"
    BY <2>1 DEF ReplyMsg, InSocket
  <2> QED
    BY <1>5, <2>2, <2>3, CommandArrives DEF RouterLate, request
<1>6. ASSUME NEW kind \in {"ping", "event"}, RouterNotice(kind) PROVE CommandInv'
  <2>1. [for |-> kind] \in InSocket /\ [for |-> kind].for # "command"
    BY DEF InSocket
  <2> QED
    BY <1>6, <2>1, CommandArrives DEF RouterNotice, request
<1>7. ASSUME NEW c \in Rpc, Fetch(c) PROVE CommandInv'
  <2>1. c \notin Cmd /\ \A d \in Cmd : d \in Request
    BY Disjoint
  <2>2. \A d \in Cmd : st'[d] = st[d] /\ outcome'[d] = outcome[d]
    BY <1>0, <1>7, <2>1 DEF Fetch, Resolve
  <2>3. UNCHANGED <<queue, answer, incoming, buffer>>
    BY <1>7 DEF Fetch, router
  <2> QED
    BY <1>0, <2>2, <2>3, CommandFrame
<1>8. ASSUME NEW s \in Stream, Consume(s) \/ ConsumeEnd(s) \/ DropStream(s) PROVE CommandInv'
  BY <1>1, <1>8 DEF Consume, ConsumeEnd, DropStream, request, router
<1>9. CASE Resume
  BY <1>1, <1>9 DEF Resume, request, router
<1>10. CASE UNCHANGED vars
  BY <1>1, <1>10 DEF vars, request, router
<1> QED
  BY <1>2, <1>3, <1>4, <1>5, <1>6, <1>7, <1>8, <1>9, <1>10, CommandHandle, CommandTransmit, CommandRead
  DEF Next


-----------------------------------------------------------------------------
(* Streams arrive complete and in order.                                   *)

StreamTypes(s) ==
    /\ got[s] \in Seq(Item) /\ chan[s] \in Seq(Item) /\ replies[s] \in Seq(CallReply)
    /\ s \in Request /\ s \in Call

LEMMA StreamTyped ==
    ASSUME Bounded
    PROVE  /\ \A s \in Stream : StreamTypes(s)
           /\ incoming \in Seq(InSocket) /\ buffer \in Seq(Request \cup {"pong"})
           /\ st \in [Request -> State]
  BY Disjoint DEF Bounded, TypeOK, StreamTypes, Item

\* A step that does nothing to stream s but to what is behind it on the wire.
LEMMA StreamFrame ==
    ASSUME NEW s \in Stream, StreamOK(s), LogOK(s)',
           got'[s] = got[s], chan'[s] = chan[s], replies'[s] = replies[s],
           s \in call_reply' <=> s \in call_reply, s \in open' <=> s \in open,
           s \in ended' <=> s \in ended, alive' => alive,
           st'[s] = st[s] \/ (st[s] = "idle" /\ st'[s] = "mailbox"),
           st[s] \in {"idle", "mailbox"} =>
               s \notin routed' /\ \A i \in 1 .. Len(buffer') : buffer'[i] # s,
           s \in call_reply => \A n : ChunksNext(s, incoming, replies[s], n) =>
                                          ChunksNext(s, incoming', replies[s], n)
    PROVE  StreamOK(s)'
<1>1. UnsentOK(s)'
  BY DEF StreamOK, UnsentOK
<1>2. FlowingOK(s)'
  <2> SUFFICES ASSUME s \in call_reply PROVE FlowingOK(s)'
    BY DEF FlowingOK
  <2>1. FlowingOK(s)
    BY DEF StreamOK
  <2>2. st'[s] = "done"
    BY <2>1 DEF FlowingOK
  <2>3. PICK w : w = Seen(got[s], chan[s])
    OBVIOUS
  <2>4. w = Seen(got'[s], chan'[s])
    BY <2>3
  <2>5. s \in open => /\ Len(w) <= Len(replies[s])
                      /\ \A i \in 1 .. Len(w) : w[i] = replies[s][i] /\ w[i].type = "part"
                      /\ ChunksNext(s, incoming, replies[s], Len(w))
    BY <2>1, <2>3 DEF FlowingOK
  <2>6. s \in open => ChunksNext(s, incoming', replies[s], Len(w))
    BY <2>5
  <2> QED
    BY <2>2, <2>4, <2>5, <2>6 DEF FlowingOK
<1>3. CompleteOK(s)'
  BY DEF StreamOK, CompleteOK
<1>4. EndedOK(s)'
  BY DEF StreamOK, EndedOK
<1>5. Prefixed(Seen(got[s], chan[s]), replies[s])'
  BY DEF StreamOK
<1> QED
  BY <1>1, <1>2, <1>3, <1>4, <1>5 DEF StreamOK

\* What is not in the queue to the router is not put there by others.
LEMMA NotSent ==
    ASSUME NEW s, NEW M, NEW out \in Seq(M), \A i \in 1 .. Len(out) : out[i] # s
    PROVE  /\ \A x \in M : x # s => \A i \in 1 .. Len(Append(out, x)) : Append(out, x)[i] # s
           /\ out # <<>> => \A i \in 1 .. Len(Tail(out)) : Tail(out)[i] # s
<1>1. ASSUME NEW x \in M, x # s
      PROVE  \A i \in 1 .. Len(Append(out, x)) : Append(out, x)[i] # s
  <2>1. PICK v : v = Append(out, x)
    OBVIOUS
  <2>2. \A i \in 1 .. Len(v) : v[i] = x \/ (i \in 1 .. Len(out) /\ v[i] = out[i])
    BY <2>1
  <2>3. \A i \in 1 .. Len(v) : v[i] # s
    BY <1>1, <2>2
  <2> QED
    BY <2>1, <2>3
<1>2. ASSUME out # <<>>
      PROVE  \A i \in 1 .. Len(Tail(out)) : Tail(out)[i] # s
  <2>1. PICK v : v = Tail(out)
    OBVIOUS
  <2>2. \A i \in 1 .. Len(v) : i + 1 \in 1 .. Len(out) /\ v[i] = out[i + 1]
    BY <1>2, <2>1
  <2>3. \A i \in 1 .. Len(v) : v[i] # s
    BY <2>2
  <2> QED
    BY <2>1, <2>3
<1> QED
  BY <1>1, <1>2

\* Somebody else's message is sent ...
LEMMA StreamSent ==
    ASSUME Bounded, NEW s \in Stream, StreamOK(s), NEW m \in Request \cup {"pong"}, m # s,
           buffer' = Append(buffer, m), UNCHANGED <<alive, got, chan, replies, open, ended, incoming, routed>>,
           s \in call_reply' <=> s \in call_reply, st'[s] = st[s]
    PROVE  StreamOK(s)'
<1>1. LogOK(s)'
  BY DEF StreamOK, LogOK
<1>2. st[s] \in {"idle", "mailbox"} => s \notin routed' /\ \A i \in 1 .. Len(buffer') : buffer'[i] # s
  <2> SUFFICES ASSUME st[s] \in {"idle", "mailbox"}
               PROVE  s \notin routed' /\ \A i \in 1 .. Len(buffer') : buffer'[i] # s
    OBVIOUS
  <2>1. s \notin routed /\ \A i \in 1 .. Len(buffer) : buffer[i] # s
    BY DEF StreamOK, UnsentOK
  <2>2. \A i \in 1 .. Len(Append(buffer, m)) : Append(buffer, m)[i] # s
    BY <2>1, NotSent, StreamTyped
  <2> QED
    BY <2>1, <2>2
<1> QED
  BY <1>1, <1>2, StreamFrame

\* ... somebody else's message arrives ...
LEMMA StreamArrives ==
    ASSUME Bounded, NEW s \in Stream, StreamOK(s), NEW x \in InSocket, ~IsChunk(x, s),
           incoming' = Append(incoming, x), replies'[s] = replies[s],
           s \in routed' => s \in routed,
           UNCHANGED <<alive, got, chan, open, ended, call_reply, buffer, st>>
    PROVE  StreamOK(s)'
<1>1. incoming \in Seq(InSocket) /\ ChunksLogged(s, incoming, replies[s]) /\ ChunksOrdered(s, incoming)
  BY StreamTyped DEF StreamOK, LogOK
<1>2. PICK v : v = Append(incoming, x)
  OBVIOUS
<1>3. /\ ChunksLogged(s, v, replies[s]) /\ ChunksOrdered(s, v)
      /\ \A n : ChunksNext(s, incoming, replies[s], n) => ChunksNext(s, v, replies[s], n)
  BY <1>1, <1>2, ChunksIn
<1>4. LogOK(s)'
  BY <1>2, <1>3 DEF LogOK
<1>5. st[s] \in {"idle", "mailbox"} => s \notin routed' /\ \A i \in 1 .. Len(buffer') : buffer'[i] # s
  BY DEF StreamOK, UnsentOK
<1>6. \A n : ChunksNext(s, incoming, replies[s], n) => ChunksNext(s, incoming', replies[s], n)
  BY <1>2, <1>3
<1> QED
  BY <1>4, <1>5, <1>6, StreamFrame

\* ... or a message that does not go into this stream's channel is read.
LEMMA StreamPasses ==
    ASSUME Bounded, NEW s \in Stream, StreamOK(s), incoming # <<>>, incoming' = Tail(incoming),
           IsChunk(Head(incoming), s) => s \notin call_reply,
           s \in call_reply' <=> s \in call_reply, st'[s] = st[s],
           chan'[s] = chan[s], UNCHANGED <<alive, got, replies, open, ended, routed>>,
           buffer' = buffer \/ buffer' = Append(buffer, "pong")
    PROVE  StreamOK(s)'
<1>1. incoming \in Seq(InSocket) /\ ChunksLogged(s, incoming, replies[s]) /\ ChunksOrdered(s, incoming)
  BY StreamTyped DEF StreamOK, LogOK
<1>2. PICK v : v = Tail(incoming)
  OBVIOUS
<1>3. /\ ChunksLogged(s, v, replies[s]) /\ ChunksOrdered(s, v)
      /\ ~IsChunk(Head(incoming), s) =>
            \A n : ChunksNext(s, incoming, replies[s], n) => ChunksNext(s, v, replies[s], n)
  BY <1>1, <1>2, ChunksTail
<1>4. LogOK(s)'
  BY <1>2, <1>3 DEF LogOK
<1>5. st[s] \in {"idle", "mailbox"} => s \notin routed' /\ \A i \in 1 .. Len(buffer') : buffer'[i] # s
  <2> SUFFICES ASSUME st[s] \in {"idle", "mailbox"}
               PROVE  s \notin routed' /\ \A i \in 1 .. Len(buffer') : buffer'[i] # s
    OBVIOUS
  <2>1. s \notin routed /\ \A i \in 1 .. Len(buffer) : buffer[i] # s
    BY DEF StreamOK, UnsentOK
  <2>2. "pong" # s /\ "pong" \in Request \cup {"pong"}
    BY Disjoint
  <2>3. \A i \in 1 .. Len(Append(buffer, "pong")) : Append(buffer, "pong")[i] # s
    BY <2>1, <2>2, NotSent, StreamTyped
  <2> QED
    BY <2>1, <2>3
<1>6. s \in call_reply => \A n : ChunksNext(s, incoming, replies[s], n) =>
                                     ChunksNext(s, incoming', replies[s], n)
  BY <1>2, <1>3
<1> QED
  BY <1>4, <1>5, <1>6, StreamFrame


LEMMA StreamHandle ==
    ASSUME Bounded, NEW s \in Stream, StreamOK(s), NEW r \in Request, Handle(r)
    PROVE  StreamOK(s)'
<1>0. st \in [Request -> State] /\ s \in Call /\ s \in Request /\ StreamTypes(s)
  BY StreamTyped DEF StreamTypes
<1>1. CASE r # s
  <2>1. st'[s] = st[s] /\ buffer' = Append(buffer, r)
    BY <1>0, <1>1 DEF Handle, HandleCmd, HandleCall, HandlePush, Resolve
  <2>2. /\ UNCHANGED <<alive, got, chan, replies, open, ended, incoming, routed>>
        /\ s \in call_reply' <=> s \in call_reply
    BY <1>1 DEF Handle, HandleCmd, HandleCall, HandlePush, channel, router, consumer
  <2> QED
    BY <1>1, <2>1, <2>2, StreamSent
<1>2. CASE r = s
  <2>1. HandleCall(s)
    BY <1>2, Disjoint DEF Handle
  <2>2. /\ st[s] = "mailbox" /\ st'[s] = "done" /\ call_reply' = call_reply \cup {s}
        /\ UNCHANGED <<alive, got, chan, replies, open, ended, incoming>>
    BY <1>0, <2>1, Disjoint DEF HandleCall, router, consumer
  <2>3. got[s] = <<>> /\ chan[s] = <<>> /\ replies[s] = <<>> /\ s \notin ended
    BY <2>2 DEF StreamOK, UnsentOK
  <2>4. PICK w : w = Seen(got[s], chan[s])
    OBVIOUS
  <2>5. Len(w) = 0 /\ Len(replies[s]) = 0 /\ Len(<<>>) = 0
    BY <2>3, <2>4 DEF Seen
  <2>6. ChunksNext(s, incoming, replies[s], 0)
    BY <2>5 DEF StreamOK, LogOK, ChunksLogged, ChunksNext
  <2>7. FlowingOK(s)'
    BY <2>2, <2>4, <2>5, <2>6 DEF FlowingOK
  <2>8. UnsentOK(s)' /\ CompleteOK(s)' /\ EndedOK(s)'
    BY <2>2, <2>3 DEF UnsentOK, CompleteOK, EndedOK
  <2>9. LogOK(s)' /\ Prefixed(Seen(got[s], chan[s]), replies[s])'
    BY <2>2 DEF StreamOK, LogOK
  <2> QED
    BY <2>7, <2>8, <2>9 DEF StreamOK
<1> QED
  BY <1>1, <1>2

LEMMA StreamTransmit ==
    ASSUME Bounded, NEW s \in Stream, StreamOK(s), Transmit
    PROVE  StreamOK(s)'
<1>0. /\ buffer \in Seq(Request \cup {"pong"}) /\ buffer # <<>> /\ buffer' = Tail(buffer)
      /\ incoming \in Seq(InSocket)
      /\ UNCHANGED <<alive, st, got, chan, open, ended, call_reply>>
  BY StreamTyped DEF Transmit, request, channel, consumer
<1>1. PICK m : m = Head(buffer)
  OBVIOUS
<1>2. /\ replies' = replies
      /\ routed' = routed \/ (m \in Call /\ routed' = routed \cup {m})
      /\ \/ incoming' = incoming
         \/ \E x \in InSocket : x.for = "command" /\ incoming' = Append(incoming, x)
  <2>1. CASE m \in Cmd
    <3>1. PICK a \in {"ok", "refused"} :
               incoming' = Append(incoming, [for |-> "command", kind |-> KindOf[m], code |-> a, of |-> m])
      BY <1>1, <2>1, Disjoint DEF Transmit
    <3>2. /\ [for |-> "command", kind |-> KindOf[m], code |-> a, of |-> m] \in InSocket
          /\ [for |-> "command", kind |-> KindOf[m], code |-> a, of |-> m].for = "command"
      BY <2>1, Disjoint DEF InSocket
    <3>3. UNCHANGED <<routed, replies>>
      BY <1>1, <2>1, Disjoint DEF Transmit
    <3> QED
      BY <3>1, <3>2, <3>3
  <2>2. CASE m \notin Cmd
    BY <1>1, <2>2 DEF Transmit, router
  <2> QED
    BY <2>1, <2>2
<1>3. /\ LogOK(s)'
      /\ \A n : ChunksNext(s, incoming, replies[s], n) => ChunksNext(s, incoming', replies[s], n)
  <2>1. ChunksLogged(s, incoming, replies[s]) /\ ChunksOrdered(s, incoming)
    BY DEF StreamOK, LogOK
  <2>2. CASE incoming' = incoming
    BY <1>2, <2>1, <2>2 DEF LogOK
  <2>3. ASSUME NEW x \in InSocket, x.for = "command", incoming' = Append(incoming, x)
        PROVE  /\ LogOK(s)'
               /\ \A n : ChunksNext(s, incoming, replies[s], n) => ChunksNext(s, incoming', replies[s], n)
    <3>1. ~IsChunk(x, s)
      BY <2>3 DEF IsChunk
    <3>2. PICK v : v = Append(incoming, x)
      OBVIOUS
    <3>3. /\ ChunksLogged(s, v, replies[s]) /\ ChunksOrdered(s, v)
          /\ \A n : ChunksNext(s, incoming, replies[s], n) => ChunksNext(s, v, replies[s], n)
      BY <1>0, <2>1, <3>1, <3>2, ChunksIn
    <3> QED
      BY <1>2, <2>3, <3>2, <3>3 DEF LogOK
  <2> QED
    BY <1>2, <2>2, <2>3
<1>4. st[s] \in {"idle", "mailbox"} => s \notin routed' /\ \A i \in 1 .. Len(buffer') : buffer'[i] # s
  <2> SUFFICES ASSUME st[s] \in {"idle", "mailbox"}
               PROVE  s \notin routed' /\ \A i \in 1 .. Len(buffer') : buffer'[i] # s
    OBVIOUS
  <2>1. s \notin routed /\ \A i \in 1 .. Len(buffer) : buffer[i] # s
    BY DEF StreamOK, UnsentOK
  <2>2. 1 \in 1 .. Len(buffer) /\ m = buffer[1]
    BY <1>0, <1>1
  <2>3. \A i \in 1 .. Len(Tail(buffer)) : Tail(buffer)[i] # s
    BY <1>0, <2>1, NotSent
  <2> QED
    BY <1>0, <1>2, <2>1, <2>2, <2>3
<1> QED
  BY <1>0, <1>2, <1>3, <1>4, StreamFrame

\* The router replies to s.
LEMMA StreamReplied ==
    ASSUME Bounded, NEW s \in Stream, StreamOK(s), NEW rep \in CallReply,
           s \in routed \/ replies[s] # <<>>,
           replies' = [replies EXCEPT ![s] = Append(@, rep)],
           incoming' = Append(incoming, ReplyMsg(s, rep)),
           UNCHANGED <<alive, st, got, chan, open, ended, call_reply, buffer>>
    PROVE  StreamOK(s)'
<1>0. incoming \in Seq(InSocket) /\ StreamTypes(s)
  BY StreamTyped
<1>1. PICK rs : rs = replies[s]
  OBVIOUS
<1>2. rs \in Seq(CallReply) /\ Len(rs) \in Nat
  <2>1. rs \in Seq(CallReply)
    BY <1>0, <1>1 DEF StreamTypes
  <2> QED
    BY <2>1
<1>3. PICK rs2 : rs2 = Append(rs, rep)
  OBVIOUS
<1>4. replies'[s] = rs2
  BY <1>0, <1>1, <1>3 DEF Bounded, TypeOK, StreamTypes
<1>5. Len(rs2) = Len(rs) + 1 /\ \A i \in 1 .. Len(rs) : rs2[i] = rs[i]
  BY <1>2, <1>3
<1>6. PICK x : x = ReplyMsg(s, rep)
  OBVIOUS
<1>7. x \in InSocket /\ IsChunk(x, s) /\ x.nr = Len(rs) + 1 /\ x.reply = rep
  BY <1>0, <1>1, <1>2, <1>6 DEF ReplyMsg, InSocket, IsChunk, StreamTypes
<1>8. ChunksLogged(s, incoming, rs) /\ ChunksOrdered(s, incoming)
  BY <1>1 DEF StreamOK, LogOK
<1>9. PICK v : v = Append(incoming, x)
  OBVIOUS
<1>10. /\ ChunksLogged(s, v, rs2) /\ ChunksOrdered(s, v)
       /\ \A n \in 0 .. Len(rs) : ChunksNext(s, incoming, rs, n) => ChunksNext(s, v, rs2, n)
  BY <1>0, <1>2, <1>3, <1>7, <1>8, <1>9, ChunksMore
<1>11. incoming' = v
  BY <1>6, <1>9
<1>12. LogOK(s)'
  BY <1>4, <1>10, <1>11 DEF LogOK
<1>13. PICK w : w = Seen(got[s], chan[s])
  OBVIOUS
<1>14. w = Seen(got'[s], chan'[s])
  BY <1>13
<1>15. w \in Seq(Item) /\ Len(w) \in Nat
  <2>1. w \in Seq(Item)
    BY <1>0, <1>13, SeenFacts DEF StreamTypes
  <2> QED
    BY <2>1
<1>16. Prefixed(w, rs) /\ st[s] \notin {"idle", "mailbox"}
  BY <1>1, <1>13 DEF StreamOK, UnsentOK
<1>17. Prefixed(w, rs2)
  <2>1. CASE Len(w) > 0 /\ w[Len(w)] = Closed
    BY <1>16, <2>1 DEF Prefixed
  <2>2. CASE ~(Len(w) > 0 /\ w[Len(w)] = Closed)
    <3>1. /\ Len(w) <= Len(rs) /\ \A i \in 1 .. Len(w) : w[i] = rs[i]
          /\ \A i \in 1 .. Len(w) - 1 : w[i].type = "part"
      BY <1>16, <2>2 DEF Prefixed
    <3>2. Len(w) <= Len(rs2) /\ \A i \in 1 .. Len(w) : i \in 1 .. Len(rs)
      BY <1>2, <1>5, <1>15, <3>1
    <3>3. \A i \in 1 .. Len(w) : w[i] = rs2[i]
      BY <1>5, <3>1, <3>2
    <3> QED
      BY <2>2, <3>1, <3>2, <3>3 DEF Prefixed
  <2> QED
    BY <2>1, <2>2
<1>18. FlowingOK(s)'
  <2> SUFFICES ASSUME s \in call_reply PROVE FlowingOK(s)'
    BY DEF FlowingOK
  <2>1. st[s] = "done"
    BY DEF StreamOK, FlowingOK
  <2>2. ASSUME s \in open
        PROVE  /\ Len(w) <= Len(rs2)
               /\ \A i \in 1 .. Len(w) : w[i] = rs2[i] /\ w[i].type = "part"
               /\ ChunksNext(s, v, rs2, Len(w))
    <3>1. /\ Len(w) <= Len(rs)
          /\ \A i \in 1 .. Len(w) : w[i] = rs[i] /\ w[i].type = "part"
          /\ ChunksNext(s, incoming, rs, Len(w))
      BY <1>1, <1>13, <2>2 DEF StreamOK, FlowingOK
    <3>2. Len(w) \in 0 .. Len(rs) /\ Len(w) <= Len(rs2) /\ \A i \in 1 .. Len(w) : i \in 1 .. Len(rs)
      BY <1>2, <1>5, <1>15, <3>1
    <3> QED
      BY <1>5, <1>10, <3>1, <3>2
  <2> QED
    BY <1>4, <1>11, <1>14, <2>1, <2>2 DEF FlowingOK
<1>19. UnsentOK(s)' /\ CompleteOK(s)' /\ EndedOK(s)'
  BY <1>16 DEF StreamOK, UnsentOK, CompleteOK, EndedOK
<1> QED
  BY <1>4, <1>12, <1>14, <1>17, <1>18, <1>19 DEF StreamOK


\* A reply is passed into the channel of s.
LEMMA StreamPassed ==
    ASSUME Bounded, NEW s \in Stream, StreamOK(s), PassReply, Head(incoming).id = s
    PROVE  StreamOK(s)'
<1>0. incoming \in Seq(InSocket) /\ StreamTypes(s) /\ chan \in [Call -> Seq(CallReply \cup {Closed})]
  BY StreamTyped DEF Bounded, TypeOK
<1>1. PICK rep : rep = Head(incoming).reply
  OBVIOUS
<1>2. incoming # <<>> /\ Head(incoming).for = "call" /\ s \in call_reply /\ incoming' = Tail(incoming)
  BY DEF PassReply, CanRead
<1>3. rep \in CallReply
  <2>1. Head(incoming) \in InSocket
    BY <1>0, <1>2
  <2> QED
    BY <1>1, <1>2, <2>1 DEF InSocket
<1>4. IsChunk(Head(incoming), s)
  BY <1>2 DEF IsChunk
<1>5. /\ chan' = IF s \in open THEN [chan EXCEPT ![s] = Append(chan[s], rep)] ELSE chan
      /\ call_reply' = Forget(s, rep)
      /\ UNCHANGED <<alive, st, got, replies, open, ended, routed, buffer>>
  BY <1>1 DEF PassReply, request, router, consumer
<1>6. PICK v : v = Tail(incoming)
  OBVIOUS
<1>7. PICK rs : rs = replies[s]
  OBVIOUS
<1>8. rs \in Seq(CallReply) /\ Len(rs) \in Nat
  <2>1. rs \in Seq(CallReply)
    BY <1>0, <1>7 DEF StreamTypes
  <2> QED
    BY <2>1
<1>9. ChunksLogged(s, incoming, rs) /\ ChunksOrdered(s, incoming)
  BY <1>7 DEF StreamOK, LogOK
<1>10. ChunksLogged(s, v, rs) /\ ChunksOrdered(s, v)
  BY <1>0, <1>2, <1>6, <1>9, ChunksTail
<1>11. LogOK(s)'
  BY <1>2, <1>5, <1>6, <1>7, <1>10 DEF LogOK
<1>12. st[s] = "done" /\ s \notin ended
  BY <1>2 DEF StreamOK, FlowingOK, EndedOK
<1>13. UnsentOK(s)' /\ EndedOK(s)'
  BY <1>5, <1>12 DEF UnsentOK, EndedOK
<1>14. CASE s \notin open
  <2>1. chan'[s] = chan[s] /\ s \notin open'
    BY <1>5, <1>14
  <2>2. FlowingOK(s)' /\ CompleteOK(s)'
    BY <1>5, <1>12, <2>1 DEF FlowingOK, CompleteOK
  <2>3. Prefixed(Seen(got[s], chan[s]), replies[s])'
    BY <1>5, <2>1 DEF StreamOK
  <2> QED
    BY <1>11, <1>13, <2>2, <2>3 DEF StreamOK
<1>15. CASE s \in open
  <2>1. PICK w : w = Seen(got[s], chan[s])
    OBVIOUS
  <2>2. w \in Seq(Item) /\ Len(w) \in Nat
    <3>1. w \in Seq(Item)
      BY <1>0, <2>1, SeenFacts DEF StreamTypes
    <3> QED
      BY <3>1
  <2>3. PICK w2 : w2 = Append(w, rep)
    OBVIOUS
  <2>4. rep \in Item /\ rep # Closed /\ rep.type \in {"part", "full"}
    BY <1>3, ItemTypes
  <2>5. w2 = Seen(got'[s], chan'[s])
    <3>1. chan'[s] = Append(chan[s], rep)
      BY <1>0, <1>5, <1>15 DEF StreamTypes
    <3>2. Seen(got[s], Append(chan[s], rep)) = Append(Seen(got[s], chan[s]), rep)
      BY <1>0, <2>4, SeenPass DEF StreamTypes
    <3> QED
      BY <1>5, <2>1, <2>3, <3>1, <3>2
  <2>6. Len(w2) = Len(w) + 1 /\ w2[Len(w) + 1] = rep /\ \A i \in 1 .. Len(w) : w2[i] = w[i]
    BY <2>2, <2>3, <2>4
  <2>7. /\ Len(w) <= Len(rs)
        /\ \A i \in 1 .. Len(w) : w[i] = rs[i] /\ w[i].type = "part"
        /\ ChunksNext(s, incoming, rs, Len(w))
    BY <1>2, <1>7, <1>15, <2>1 DEF StreamOK, FlowingOK
  <2>8. Len(w) + 1 <= Len(rs) /\ rep = rs[Len(w) + 1] /\ ChunksNext(s, v, rs, Len(w) + 1)
    BY <1>0, <1>1, <1>2, <1>4, <1>6, <1>8, <1>9, <2>2, <2>7, ChunksPop
  <2>9. \A i \in 1 .. Len(w2) : i \in 1 .. Len(w) \/ i = Len(w) + 1
    BY <2>2, <2>6
  <2>10. \A i \in 1 .. Len(w2) : w2[i] = rs[i]
    BY <2>6, <2>7, <2>8, <2>9
  <2>11. \A i \in 1 .. Len(w2) - 1 : i \in 1 .. Len(w) /\ w2[i].type = "part"
    BY <2>2, <2>6, <2>7
  <2>12. w2[Len(w2)] = rep /\ Len(w2) > 0 /\ Len(w2) <= Len(rs)
    BY <2>2, <2>6, <2>8
  <2>13. Prefixed(w2, rs)
    BY <2>4, <2>10, <2>11, <2>12 DEF Prefixed
  <2>14. CASE rep.type = "full"
    <3>1. s \notin call_reply'
      BY <1>5, <2>14 DEF Forget
    <3>2. FlowingOK(s)'
      BY <3>1 DEF FlowingOK
    <3>3. CompleteOK(s)'
      BY <2>5, <2>12, <2>14 DEF CompleteOK
    <3> QED
      BY <1>5, <1>7, <1>11, <1>13, <2>5, <2>13, <3>2, <3>3 DEF StreamOK
  <2>15. CASE rep.type = "part"
    <3>1. s \in call_reply'
      BY <1>2, <1>5, <2>15 DEF Forget
    <3>2. \A i \in 1 .. Len(w2) : w2[i].type = "part"
      BY <2>6, <2>7, <2>9, <2>15
    <3>3. ChunksNext(s, v, rs, Len(w2))
      BY <2>6, <2>8
    <3>4. FlowingOK(s)'
      BY <1>2, <1>5, <1>6, <1>7, <1>12, <2>5, <2>10, <2>12, <3>2, <3>3 DEF FlowingOK
    <3>5. CompleteOK(s)'
      BY <3>1 DEF CompleteOK
    <3> QED
      BY <1>5, <1>7, <1>11, <1>13, <2>5, <2>13, <3>4, <3>5 DEF StreamOK
  <2> QED
    BY <2>4, <2>14, <2>15
<1> QED
  BY <1>14, <1>15

LEMMA StreamRead ==
    ASSUME Bounded, NEW s \in Stream, StreamOK(s), Read, ~InvalidReply
    PROVE  StreamOK(s)'
<1>0. st \in [Request -> State] /\ s \in Request /\ s \in Call /\ incoming \in Seq(InSocket)
  BY StreamTyped DEF StreamTypes
<1>1. CASE CommandReply
  <2>1. incoming # <<>> /\ Head(incoming).for = "command" /\ incoming' = Tail(incoming)
    BY <1>1 DEF CommandReply, CanRead
  <2>2. Head(incoming) \in InSocket
    BY <1>0, <2>1
  <2>3. Head(incoming).kind \in Kind
    BY <2>1, <2>2 DEF InSocket
  <2>4. PICK q : q = queue[Head(incoming).kind]
    OBVIOUS
  <2>5. q \in Seq(Cmd) /\ q # <<>> /\ st' = [st EXCEPT ![q[Oldest(q)]] = "done"]
    BY <1>1, <2>3, <2>4 DEF Bounded, TypeOK, CommandReply, Resolve
  <2>6. q[Oldest(q)] # s
    BY <2>5, PopFront, Disjoint
  <2>7. st'[s] = st[s] /\ ~IsChunk(Head(incoming), s)
    BY <1>0, <2>1, <2>5, <2>6 DEF IsChunk
  <2> QED
    BY <1>1, <2>1, <2>7, StreamPasses DEF CommandReply, channel, router, consumer
<1>2. CASE PassReply
  <2>1. CASE Head(incoming).id = s
    BY <1>2, <2>1, StreamPassed
  <2>2. CASE Head(incoming).id # s
    <3>1. chan'[s] = chan[s]
      BY <1>0, <1>2, <2>2 DEF Bounded, TypeOK, PassReply
    <3>2. s \in call_reply' <=> s \in call_reply
      BY <1>2, <2>2 DEF PassReply, Forget
    <3> QED
      BY <1>2, <2>2, <3>1, <3>2, StreamPasses DEF PassReply, CanRead, IsChunk, request, router, consumer
  <2> QED
    BY <2>1, <2>2
<1>3. CASE IgnoreReply
  BY <1>3, StreamPasses DEF IgnoreReply, CanRead, IsChunk, request, channel, router, consumer
<1>4. CASE Pong
  BY <1>4, StreamPasses DEF Pong, CanRead, IsChunk, request, channel, router, consumer
<1>5. CASE TakeNotice
  BY <1>5, StreamPasses DEF TakeNotice, CanRead, IsChunk, request, channel, consumer
<1> QED
  BY <1>1, <1>2, <1>3, <1>4, <1>5 DEF Read

\* The consumer loses what is in the channel it drops.
LEMMA PrefixedShorter ==
    ASSUME NEW g \in Seq(Item), NEW ch \in Seq(Item), NEW rs \in Seq(CallReply), Prefixed(Seen(g, ch), rs)
    PROVE  Prefixed(g, rs)
<1>1. PICK w : w = Seen(g, ch)
  OBVIOUS
<1>2. /\ Len(g) \in Nat /\ Len(ch) \in Nat /\ Len(rs) \in Nat /\ Len(w) = Len(g) + Len(ch)
      /\ \A i \in 1 .. Len(g) : w[i] = g[i]
  <2>1. Len(g) \in Nat /\ Len(ch) \in Nat /\ Len(rs) \in Nat
    OBVIOUS
  <2>2. Len(w) = Len(g) + Len(ch) /\ \A i \in 1 .. Len(g) : w[i] = g[i]
    BY <1>1, SeenFacts
  <2> QED
    BY <2>1, <2>2
<1>3. CASE Len(w) > 0 /\ w[Len(w)] = Closed
  <2>1. Len(w) = 1
    BY <1>1, <1>3 DEF Prefixed
  <2>2. CASE Len(g) = 0
    BY <1>2, <2>2 DEF Prefixed
  <2>3. CASE Len(g) # 0
    <3>1. Len(g) = 1
      <4>1. \A a, b \in Nat : a + b = 1 /\ a # 0 => a = 1
        OBVIOUS
      <4>2. Len(g) + Len(ch) = 1
        BY <1>2, <2>1
      <4> QED
        BY <1>2, <2>3, <4>1, <4>2
    <3>2. g[1] = Closed
      BY <1>2, <1>3, <2>1, <3>1
    <3> QED
      BY <3>1, <3>2 DEF Prefixed
  <2> QED
    BY <2>2, <2>3
<1>4. CASE ~(Len(w) > 0 /\ w[Len(w)] = Closed)
  <2>1. /\ Len(w) <= Len(rs) /\ \A i \in 1 .. Len(w) : w[i] = rs[i]
        /\ \A i \in 1 .. Len(w) - 1 : w[i].type = "part"
    BY <1>1, <1>4 DEF Prefixed
  <2>2. /\ Len(g) <= Len(rs) /\ \A i \in 1 .. Len(g) : i \in 1 .. Len(w) /\ i \in 1 .. Len(rs)
        /\ \A i \in 1 .. Len(g) - 1 : i \in 1 .. Len(g) /\ i \in 1 .. Len(w) - 1
    BY <1>2, <2>1
  <2>3. \A i \in 1 .. Len(g) : g[i] = rs[i] /\ rs[i] \in CallReply
    BY <1>2, <2>1, <2>2
  <2>4. \A i \in 1 .. Len(g) - 1 : g[i].type = "part"
    BY <1>2, <2>1, <2>2
  <2>5. ~(Len(g) > 0 /\ g[Len(g)] = Closed)
    <3> SUFFICES ASSUME Len(g) > 0 PROVE g[Len(g)] # Closed
      OBVIOUS
    <3>1. Len(g) \in 1 .. Len(g)
      BY <1>2
    <3> QED
      BY <2>3, <3>1, ItemTypes
  <2> QED
    BY <2>2, <2>3, <2>4, <2>5 DEF Prefixed
<1> QED
  BY <1>3, <1>4

LEMMA SeenEmpty ==
    ASSUME NEW g \in Seq(Item)
    PROVE  Seen(g, <<>>) = g /\ Seen(<<>>, g) = g
  BY DEF Seen

LEMMA StreamConsumed ==
    ASSUME Bounded, NEW s \in Stream, StreamOK(s),
           Consume(s) \/ ConsumeEnd(s) \/ DropStream(s)
    PROVE  StreamOK(s)'
<1>0. /\ StreamTypes(s) /\ chan \in [Call -> Seq(CallReply \cup {Closed})]
      /\ got \in [Stream -> Seq(CallReply \cup {Closed})]
  BY StreamTyped DEF Bounded, TypeOK
<1>1. UNCHANGED <<alive, st, call_reply, incoming, replies, routed, buffer>>
  BY DEF Consume, ConsumeEnd, DropStream, request, router, channel
<1>2. LogOK(s)'
  BY <1>1 DEF StreamOK, LogOK
<1>3. CASE Consume(s)
  <2>1. /\ chan[s] # <<>> /\ got'[s] = Append(got[s], Head(chan[s])) /\ chan'[s] = Tail(chan[s])
        /\ open' = open /\ ended' = ended
    BY <1>0, <1>3 DEF Consume, StreamTypes
  <2>2. PICK w : w = Seen(got[s], chan[s])
    OBVIOUS
  <2>3. w = Seen(got'[s], chan'[s])
    BY <1>0, <2>1, <2>2, SeenMove DEF StreamTypes
  <2>4. UnsentOK(s)' /\ EndedOK(s)'
    BY <1>1, <2>1 DEF StreamOK, UnsentOK, EndedOK
  <2>5. FlowingOK(s)'
    BY <1>1, <2>1, <2>2, <2>3 DEF StreamOK, FlowingOK
  <2>6. CompleteOK(s)' /\ Prefixed(Seen(got[s], chan[s]), replies[s])'
    BY <1>1, <2>1, <2>2, <2>3 DEF StreamOK, CompleteOK
  <2> QED
    BY <1>2, <2>4, <2>5, <2>6 DEF StreamOK
<1>4. CASE ConsumeEnd(s)
  <2>1. /\ UNCHANGED <<got, chan, open>> /\ s \in open /\ st[s] = "done" /\ chan[s] = <<>> /\ s \notin call_reply
    BY <1>4 DEF ConsumeEnd, channel
  <2>2. Seen(got[s], chan[s]) = got[s]
    BY <1>0, <2>1, SeenEmpty DEF StreamTypes
  <2>3. alive => Len(got[s]) > 0 /\ got[s][Len(got[s])].type = "full"
    BY <2>1, <2>2 DEF StreamOK, CompleteOK
  <2>4. EndedOK(s)'
    BY <1>1, <2>1, <2>3 DEF EndedOK
  <2>5. UnsentOK(s)' /\ FlowingOK(s)' /\ CompleteOK(s)'
    BY <1>1, <2>1 DEF StreamOK, UnsentOK, FlowingOK, CompleteOK
  <2>6. Prefixed(Seen(got[s], chan[s]), replies[s])'
    BY <1>1, <2>1 DEF StreamOK
  <2> QED
    BY <1>2, <2>4, <2>5, <2>6 DEF StreamOK
<1>5. CASE DropStream(s)
  <2>1. /\ s \notin open' /\ chan'[s] = <<>> /\ UNCHANGED <<got, ended>>
    BY <1>0, <1>5 DEF DropStream, consumer, StreamTypes
  <2>2. Seen(got'[s], chan'[s]) = got[s]
    BY <1>0, <2>1, SeenEmpty DEF StreamTypes
  <2>3. Prefixed(got[s], replies[s])
    BY <1>0, PrefixedShorter DEF StreamOK, StreamTypes
  <2>4. UnsentOK(s)' /\ EndedOK(s)' /\ FlowingOK(s)' /\ CompleteOK(s)'
    BY <1>1, <2>1 DEF StreamOK, UnsentOK, EndedOK, FlowingOK, CompleteOK
  <2> QED
    BY <1>1, <1>2, <2>2, <2>3, <2>4 DEF StreamOK
<1> QED
  BY <1>3, <1>4, <1>5


\* A stream that was never sent ends with Err(Closed) alone.
LEMMA StreamClosed ==
    ASSUME Bounded, NEW s \in Stream, StreamOK(s), st[s] \in {"idle", "mailbox"},
           st'[s] = "done", chan'[s] = <<Closed>>, ~alive', s \notin call_reply',
           LogOK(s)', UNCHANGED <<got, replies, ended>>
    PROVE  StreamOK(s)'
<1>1. got[s] = <<>> /\ s \notin ended /\ Closed \in Item
  BY ItemTypes DEF StreamOK, UnsentOK
<1>2. <<Closed>> \in Seq(Item) /\ Len(<<Closed>>) = 1 /\ <<Closed>>[1] = Closed
  BY <1>1
<1>3. Seen(got'[s], chan'[s]) = <<Closed>>
  BY <1>1, <1>2, SeenEmpty
<1>4. Prefixed(<<Closed>>, replies'[s])
  BY <1>2 DEF Prefixed
<1>5. UnsentOK(s)' /\ FlowingOK(s)' /\ CompleteOK(s)' /\ EndedOK(s)'
  BY <1>1 DEF UnsentOK, FlowingOK, CompleteOK, EndedOK
<1> QED
  BY <1>3, <1>4, <1>5 DEF StreamOK

LEMMA StreamStops ==
    ASSUME Bounded, StreamInv, Stops
    PROVE  StreamInv'
<1> SUFFICES ASSUME NEW s \in Stream PROVE StreamOK(s)'
  BY DEF StreamInv
<1>0. StreamOK(s) /\ StreamTypes(s) /\ s \in Request
  BY StreamTyped DEF StreamInv, StreamTypes
<1>1. /\ alive' = FALSE /\ call_reply' = {} /\ incoming' = <<>> /\ buffer' = <<>> /\ routed' = {}
      /\ st' = [r \in Request |-> IF r \in Closing THEN "done" ELSE st[r]]
      /\ UNCHANGED <<open, replies, got, ended>>
  BY DEF Stops, consumer
<1>2. Len(<<>>) = 0 /\ \A i \in 1 .. 0 : FALSE
  OBVIOUS
<1>3. LogOK(s)'
  BY <1>1, <1>2 DEF LogOK, ChunksLogged, ChunksOrdered
<1>4. \/ st[s] = "mailbox" /\ s \in open /\ chan[s] = <<>> /\ chan'[s] = <<Closed>>
      \/ ~(st[s] = "mailbox" /\ s \in open) /\ chan'[s] = chan[s]
  BY StopsChan DEF StreamInv, StreamOK
<1>5. st'[s] = IF st[s] \in {"mailbox", "pending"} THEN "done" ELSE st[s]
  BY <1>0, <1>1 DEF Closing
<1>6. CASE st[s] = "mailbox" /\ s \in open
  BY <1>0, <1>1, <1>3, <1>4, <1>5, <1>6, StreamClosed
<1>7. CASE ~(st[s] = "mailbox" /\ s \in open)
  <2>1. chan'[s] = chan[s]
    BY <1>4, <1>7
  <2>2. UnsentOK(s)'
    BY <1>0, <1>1, <1>2, <1>5, <2>1 DEF StreamOK, UnsentOK
  <2>3. FlowingOK(s)' /\ CompleteOK(s)'
    BY <1>1 DEF FlowingOK, CompleteOK
  <2>4. EndedOK(s)'
    BY <1>0, <1>1, <1>5, <2>1 DEF StreamOK, EndedOK
  <2>5. Prefixed(Seen(got[s], chan[s]), replies[s])'
    BY <1>0, <1>1, <2>1 DEF StreamOK
  <2> QED
    BY <1>3, <2>2, <2>3, <2>4, <2>5 DEF StreamOK
<1> QED
  BY <1>6, <1>7

\* A step in which s has no part.
LEMMA StreamOther ==
    ASSUME NEW s \in Stream, StreamOK(s), got'[s] = got[s], chan'[s] = chan[s],
           st'[s] = st[s] \/ (st[s] = "idle" /\ st'[s] = "mailbox"),
           s \in open' <=> s \in open, s \in ended' <=> s \in ended,
           UNCHANGED <<alive, call_reply, replies, routed, buffer, incoming>>
    PROVE  StreamOK(s)'
<1>1. LogOK(s)'
  BY DEF StreamOK, LogOK
<1>2. st[s] \in {"idle", "mailbox"} => s \notin routed' /\ \A i \in 1 .. Len(buffer') : buffer'[i] # s
  BY DEF StreamOK, UnsentOK
<1> QED
  BY <1>1, <1>2, StreamFrame

LEMMA StreamSubmit ==
    ASSUME Bounded, NEW s \in Stream, StreamOK(s), NEW r \in Request, Submit(r) \/ Abandon(r)
    PROVE  StreamOK(s)'
<1>0. /\ st \in [Request -> State] /\ StreamTypes(s) /\ s \in Request /\ s \in Call
      /\ chan \in [Call -> Seq(CallReply \cup {Closed})]
  BY StreamTyped DEF StreamTypes, Bounded, TypeOK
<1>1. UNCHANGED <<alive, call_reply, open, got, ended, replies, routed, buffer, incoming>>
  BY DEF Submit, Abandon, channel, router, consumer
<1>2. CASE Submit(s) /\ r = s /\ ~alive
  <2>1. st[s] = "idle" /\ st'[s] = "done" /\ chan'[s] = Append(chan[s], Closed)
    BY <1>0, <1>2 DEF Submit, Resolve
  <2>2. chan[s] = <<>> /\ s \notin call_reply
    BY <2>1 DEF StreamOK, UnsentOK
  <2>3. Append(<<>>, Closed) = <<Closed>>
    OBVIOUS
  <2>4. LogOK(s)'
    BY <1>1 DEF StreamOK, LogOK
  <2> QED
    BY <1>1, <1>2, <2>1, <2>2, <2>3, <2>4, StreamClosed
<1>3. CASE ~(Submit(r) /\ r = s /\ ~alive)
  <2>1. chan'[s] = chan[s]
    BY <1>0, <1>3 DEF Submit, Abandon, channel
  <2>2. st'[s] = st[s] \/ (st[s] = "idle" /\ st'[s] = "mailbox")
    BY <1>0, <1>3 DEF Submit, Abandon, Resolve
  <2> QED
    BY <1>1, <2>1, <2>2, StreamOther
<1> QED
  BY <1>2, <1>3

LEMMA StreamNext ==
    ASSUME Bounded, StreamInv, [Next]_vars
    PROVE  StreamInv'
<1>1. CASE ConnectionLost \/ InvalidReply
  BY <1>1, StreamStops DEF ConnectionLost, InvalidReply
<1>2. ASSUME ~(ConnectionLost \/ InvalidReply), NEW s \in Stream
      PROVE  StreamOK(s)'
  <2>0. /\ StreamOK(s) /\ StreamTypes(s) /\ s \in Request /\ s \in Call /\ st \in [Request -> State]
        /\ chan \in [Call -> Seq(CallReply \cup {Closed})]
        /\ got \in [Stream -> Seq(CallReply \cup {Closed})]
        /\ replies \in [Call -> Seq(CallReply)]
    BY StreamTyped DEF StreamInv, StreamTypes, Bounded, TypeOK
  <2>1. ASSUME NEW r \in Request, Handle(r) PROVE StreamOK(s)'
    BY <2>0, <2>1, StreamHandle
  <2>2. CASE Transmit
    BY <2>0, <2>2, StreamTransmit
  <2>3. CASE Read
    BY <1>2, <2>0, <2>3, StreamRead
  <2>4. CASE Resume
    BY <2>0, <2>4, StreamOther DEF Resume, request, router, consumer
  <2>5. ASSUME NEW c \in Rpc, Fetch(c) PROVE StreamOK(s)'
    <3>1. c # s /\ c \in Request
      BY Disjoint
    <3>2. chan'[s] = chan[s] /\ st'[s] = st[s] /\ (s \in open' <=> s \in open)
      BY <2>0, <2>5, <3>1 DEF Fetch, Resolve
    <3> QED
      BY <2>0, <2>5, <3>2, StreamOther DEF Fetch, router, consumer
  <2>6. ASSUME NEW r \in Request, Submit(r) \/ Abandon(r) PROVE StreamOK(s)'
    BY <2>0, <2>6, StreamSubmit
  <2>7. ASSUME NEW c \in Call, NEW rep \in CallReply, c \in routed \/ replies[c] # <<>>,
               replies' = [replies EXCEPT ![c] = Append(@, rep)],
               incoming' = Append(incoming, ReplyMsg(c, rep)), routed' \subseteq routed,
               UNCHANGED <<alive, st, got, chan, open, ended, call_reply, buffer>>
        PROVE  StreamOK(s)'
    <3>1. CASE c = s
      BY <2>0, <2>7, <3>1, StreamReplied
    <3>2. CASE c # s
      <4>1. replies[c] \in Seq(CallReply)
        BY <2>0
      <4>2. Len(replies[c]) \in Nat
        BY <4>1
      <4>3. ReplyMsg(c, rep) \in InSocket /\ ~IsChunk(ReplyMsg(c, rep), s)
        BY <3>2, <4>2 DEF ReplyMsg, InSocket, IsChunk
      <4>4. replies'[s] = replies[s] /\ (s \in routed' => s \in routed)
        BY <2>0, <2>7, <3>2
      <4> QED
        BY <2>0, <2>7, <4>3, <4>4, StreamArrives
    <3> QED
      BY <3>1, <3>2
  <2>8. ASSUME NEW c \in Call, NEW rep \in CallReply, RouterReply(c, rep) PROVE StreamOK(s)'
    BY <2>7, <2>8 DEF RouterReply, request, channel, consumer
  <2>9. ASSUME NEW c \in Call, RouterLate(c) PROVE StreamOK(s)'
    <3>1. [type |-> "full", code |-> "ok"] \in CallReply
      BY DEF CallReply
    <3> QED
      BY <2>7, <2>9, <3>1 DEF RouterLate, request, channel, consumer
  <2>10. ASSUME NEW kind \in {"ping", "event"}, RouterNotice(kind) PROVE StreamOK(s)'
    <3>1. [for |-> kind] \in InSocket /\ ~IsChunk([for |-> kind], s)
      BY DEF InSocket, IsChunk
    <3> QED
      BY <2>0, <2>10, <3>1, StreamArrives DEF RouterNotice, request, channel, consumer
  <2>11. ASSUME NEW t \in Stream, Consume(t) \/ ConsumeEnd(t) \/ DropStream(t) PROVE StreamOK(s)'
    <3>1. CASE t = s
      BY <2>0, <2>11, <3>1, StreamConsumed
    <3>2. CASE t # s
      <4>1. got'[s] = got[s] /\ chan'[s] = chan[s]
        BY <2>0, <2>11, <3>2 DEF Consume, ConsumeEnd, DropStream, channel, consumer
      <4>2. (s \in open' <=> s \in open) /\ (s \in ended' <=> s \in ended)
        BY <2>11, <3>2 DEF Consume, ConsumeEnd, DropStream, channel, consumer
      <4> QED
        BY <2>0, <2>11, <4>1, <4>2, StreamOther DEF Consume, ConsumeEnd, DropStream, request, channel, router
    <3> QED
      BY <3>1, <3>2
  <2>12. CASE UNCHANGED vars
    BY <2>0, <2>12, StreamOther DEF vars, request, channel, router, consumer
  <2> QED
    BY <1>2, <2>1, <2>2, <2>3, <2>4, <2>5, <2>6, <2>8, <2>9, <2>10, <2>11, <2>12 DEF Next
<1> QED
  BY <1>1, <1>2 DEF StreamInv

LEMMA ClientInit == Init => ClientInv
<1> SUFFICES ASSUME Init PROVE ClientInv
  OBVIOUS
<1>1. Bounded
  BY BoundedInit
<1>2. Len(<<>>) = 0 /\ \A i \in 1 .. 0 : FALSE
  OBVIOUS
<1>3. ASSUME NEW k \in Kind PROVE QueueOK(k)
  <2>1. queue[k] = <<>> /\ incoming = <<>> /\ buffer = <<>>
    BY DEF Init
  <2> QED
    BY <1>2, <2>1 DEF QueueOK, Mirrors, RepliesKnown, CommandsKnown, RepliesOrdered, CommandsOrdered,
                      AnsweredFirst, AllOnWire, NoDuplicates
<1>4. ASSUME NEW c \in Cmd PROVE AnswerOK(c)
  BY Disjoint DEF Init, AnswerOK
<1>5. ASSUME NEW s \in Stream PROVE StreamOK(s)
  <2>1. s \in Request /\ s \in Call
    BY Disjoint
  <2>2. /\ st[s] = "idle" /\ got[s] = <<>> /\ chan[s] = <<>> /\ replies[s] = <<>> /\ incoming = <<>>
        /\ buffer = <<>> /\ call_reply = {} /\ routed = {} /\ ended = {}
    BY <2>1 DEF Init
  <2>3. LogOK(s)
    BY <1>2, <2>2 DEF LogOK, ChunksLogged, ChunksOrdered
  <2>4. Seen(got[s], chan[s]) = <<>>
    BY <2>2 DEF Seen
  <2>5. Prefixed(<<>>, <<>>)
    BY <1>2 DEF Prefixed
  <2>6. UnsentOK(s) /\ FlowingOK(s) /\ CompleteOK(s) /\ EndedOK(s)
    BY <1>2, <2>2 DEF UnsentOK, FlowingOK, CompleteOK, EndedOK
  <2> QED
    BY <2>2, <2>3, <2>4, <2>5, <2>6 DEF StreamOK
<1> QED
  BY <1>1, <1>3, <1>4, <1>5 DEF ClientInv, Bounded, CommandInv, StreamInv

\* The inductive invariant: types and bounds, reply queues that mirror the
\* wire, streams that are prefixes of what the router sent.
THEOREM ClientInvariant == Spec => []ClientInv
<1>1. Init => ClientInv
  BY ClientInit
<1>2. ClientInv /\ [Next]_vars => ClientInv'
  <2> SUFFICES ASSUME ClientInv, [Next]_vars PROVE ClientInv'
    OBVIOUS
  <2>1. Bounded /\ CommandInv /\ StreamInv /\ \A s \in Stream : UnsentOK(s)
    BY DEF ClientInv, Bounded, StreamInv, StreamOK
  <2>2. Bounded' /\ CommandInv' /\ StreamInv'
    BY <2>1, BoundedNext, CommandNext, StreamNext
  <2> QED
    BY <2>2 DEF ClientInv, Bounded
<1> QED
  BY <1>1, <1>2, PTL DEF Spec

\* TypeOK: whatever the router sends, a channel holds at most one item more
\* than its buffer (handle_reply waits before it reads on).
THEOREM ChannelsBounded == Spec => []TypeOK
<1>1. ClientInv => TypeOK
  BY DEF ClientInv
<1> QED
  BY <1>1, ClientInvariant, PTL

\* Every command resolves to the router's answer to that very command, and no
\* reply to a command is unmatched (send_cmd_async, handle_reply).
THEOREM CommandsMatched == Spec => []CommandGetsItsAnswer
<1>1. ClientInv => CommandGetsItsAnswer
  <2> SUFFICES ASSUME ClientInv PROVE CommandGetsItsAnswer
    OBVIOUS
  <2>1. ASSUME NEW i \in 1 .. Len(incoming), incoming[i].for = "command"
        PROVE  queue[incoming[i].kind] # <<>>
    <3>1. incoming \in Seq(InSocket)
      BY DEF ClientInv, TypeOK
    <3>2. incoming[i] \in InSocket
      BY <3>1
    <3>3. PICK k \in Kind : k = incoming[i].kind
      BY <2>1, <3>2 DEF InSocket
    <3>4. InQueue(queue[k], incoming[i].of)
      BY <2>1, <3>3 DEF ClientInv, CommandInv, QueueOK, Mirrors, RepliesKnown, IsReply
    <3>5. Len(<<>>) = 0 /\ \A j \in 1 .. 0 : FALSE
      OBVIOUS
    <3> QED
      BY <3>3, <3>4, <3>5 DEF InQueue
  <2>2. \A c \in Cmd : outcome[c] \in {"ok", "refused"} => outcome[c] = answer[c]
    BY DEF ClientInv, CommandInv, AnswerOK
  <2> QED
    BY <2>1, <2>2 DEF CommandGetsItsAnswer
<1> QED
  BY <1>1, ClientInvariant, PTL

\* What a stream's consumer gets is a prefix of the router's replies to it,
\* with nothing after the full reply (handle_reply).
THEOREM StreamsPrefixed == Spec => []StreamIsPrefix
<1>1. ClientInv => StreamIsPrefix
  <2> SUFFICES ASSUME ClientInv, NEW s \in Stream
               PROVE  LET seen == got[s] \o chan[s]
                          n == Len(seen)
                      IN  IF n > 0 /\ seen[n] = Closed THEN n = 1
                          ELSE /\ n <= Len(replies[s])
                               /\ seen = SubSeq(replies[s], 1, n)
                               /\ \A i \in 1 .. n - 1 : seen[i].type = "part"
    BY DEF StreamIsPrefix
  <2>1. StreamTypes(s) /\ StreamOK(s)
    BY StreamTyped DEF ClientInv, Bounded, StreamInv
  <2>2. PICK w : w = Seen(got[s], chan[s])
    OBVIOUS
  <2>3. PICK rs : rs = replies[s]
    OBVIOUS
  <2>4. w \in Seq(Item) /\ rs \in Seq(CallReply) /\ Prefixed(w, rs)
    BY <2>1, <2>2, <2>3, SeenFacts DEF StreamTypes, StreamOK
  <2>5. Len(w) \in Nat /\ Len(rs) \in Nat
    BY <2>4
  <2>6. ASSUME Len(w) <= Len(rs), \A i \in 1 .. Len(w) : w[i] = rs[i]
        PROVE  w = SubSeq(rs, 1, Len(w))
    <3>1. PICK v : v = SubSeq(rs, 1, Len(w))
      OBVIOUS
    <3>2. rs \in Seq(Item)
      BY <2>4, ItemTypes
    <3>3. v \in Seq(Item) /\ Len(v) = Len(w) /\ \A i \in 1 .. Len(w) : v[i] = rs[i]
      BY <2>5, <2>6, <3>1, <3>2
    <3>4. \A i \in 1 .. Len(v) : v[i] = w[i]
      BY <2>6, <3>3
    <3>5. v = w
      BY <2>4, <3>3, <3>4, SameItems
    <3> QED
      BY <3>1, <3>5
  <2>7. IF Len(w) > 0 /\ w[Len(w)] = Closed THEN Len(w) = 1
        ELSE /\ Len(w) <= Len(rs)
             /\ w = SubSeq(rs, 1, Len(w))
             /\ \A i \in 1 .. Len(w) - 1 : w[i].type = "part"
    BY <2>4, <2>6 DEF Prefixed
  <2> QED
    BY <2>2, <2>3, <2>7 DEF Seen
<1> QED
  BY <1>1, ClientInvariant, PTL

\* As long as the connection lives no stream ends before its full reply.
THEOREM StreamsComplete == Spec => []LiveStreamEndsComplete
<1>1. ClientInv => LiveStreamEndsComplete
  <2> SUFFICES ASSUME ClientInv, NEW s \in ended, alive
               PROVE  got[s] # <<>> /\ Last(got[s]).type = "full"
    BY DEF LiveStreamEndsComplete
  <2>1. s \in Stream
    BY DEF ClientInv, TypeOK
  <2>2. Len(got[s]) > 0 /\ got[s][Len(got[s])].type = "full"
    BY <2>1 DEF ClientInv, StreamInv, StreamOK, EndedOK
  <2>3. Len(<<>>) = 0 /\ ~(0 > 0)
    OBVIOUS
  <2> QED
    BY <2>2, <2>3 DEF Last
<1> QED
  BY <1>1, ClientInvariant, PTL
=============================================================================
