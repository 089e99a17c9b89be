------------------------- MODULE ClientConnection -------------------------
(***************************************************************************)
(* The requesting side of a client's Connection actor (src/connection.rs): *)
(* commands (bind, unbind, subscribe, unsubscribe, broadcast), calls,      *)
(* pushes and streaming calls, the router's answers to them, and its       *)
(* pings, broadcasts and Hello.                                            *)
(*                                                                         *)
(* Replies to commands carry no identifier: send_cmd_async puts the        *)
(* waiter in the queue of its kind and handle_reply hands each reply to    *)
(* the front of that queue.  Replies to calls carry the request id; they   *)
(* are passed into the call's channel by a future on which the whole actor *)
(* waits (ctx.wait), so a full channel stops mailbox, socket and every     *)
(* other future of the connection.                                         *)
(*                                                                         *)
(* The router (external here) answers the commands of one connection in    *)
(* the order it reads them and the calls in any order.  The writer's       *)
(* buffer and the socket are one queue.  Request ids are unique (53 random *)
(* bits in the code); payloads, names and error texts are left out.  The   *)
(* serving side of the actor is in ServedCalls.                            *)
(***************************************************************************)
EXTENDS Naturals, Sequences, FiniteSets, SequencesExt

CONSTANTS
    Cmd,          \* commands
    KindOf,       \* KindOf[c]: which reply queue the command uses
    Rpc,          \* calls that wait for one response (RpcRawCall)
    Push,         \* calls with no_reply
    Stream,       \* streaming calls (RpcRawStreamCall)
    None,
    StreamBuffer, \* buffer of a streaming call's channel (16 in the code)
    MaxChunks,    \* MaxChunks[c], bound: replies the router sends to call c
    MaxRequests   \* bound: requests made in a behaviour

ASSUME RequestAssumption ==
    /\ Cmd \cap (Rpc \cup Push \cup Stream) = {}
    /\ Rpc \cap (Push \cup Stream) = {}
    /\ Push \cap Stream = {}
    /\ None \notin Rpc \cup Stream
    /\ "pong" \notin Cmd \cup Rpc \cup Push \cup Stream
    /\ KindOf \in [Cmd -> {"register", "unregister", "subscribe",
                           "unsubscribe", "broadcast"}]

ASSUME BoundAssumption ==
    /\ StreamBuffer \in Nat \ {0}
    /\ MaxChunks \in [Rpc \cup Stream -> Nat \ {0}]
    /\ MaxRequests \in Nat

VARIABLES
    alive,       \* the actor runs
    st,          \* st[r]: where request r is
    outcome,     \* outcome[r]: what its future resolved to
    queue,       \* queue[k]: register_reply, unregister_reply, ...
    call_reply,  \* calls with an entry in Connection.call_reply
    chan,        \* chan[c]: items in the channel of call c
    open,        \* calls whose receiver still exists
    waiting,     \* the call whose channel the actor waits for
    buffer,      \* SinkWrite's buffer and the socket to the router
    incoming,    \* the socket from the router
    routed,      \* calls the router has and has not fully answered
    notice,      \* how far the router's ping, event or Hello is
    answer,      \* answer[c]: what the router decided on command c
    replies,     \* replies[c]: what the router sent for call c
    got,         \* got[s]: what the consumer of stream s has taken
    ended        \* streams whose consumer saw the end

request == <<st, outcome>>
channel == <<call_reply, chan, open, waiting>>
router == <<routed, notice, answer, replies>>
consumer == <<got, ended>>
vars == <<alive, request, queue, channel, buffer, incoming, router, consumer>>

Call == Rpc \cup Stream
Request == Cmd \cup Call \cup Push
Kind == {"register", "unregister", "subscribe", "unsubscribe", "broadcast"}

\* A reply to a call: its CallReplyType and CallReplyCode.  Errors are full
\* replies, the type's default; "invalid" stands for a code (or an error
\* text) that the client cannot convert.
CallReply == [type : {"part"}, code : {"ok"}]
                 \cup [type : {"full"}, code : {"ok", "failure", "invalid"}]

\* What travels through a channel; Err(Closed) is what call_streaming puts
\* there itself when the actor cannot take the request.
Closed == [type |-> "full", code |-> "closed"]

State == {"idle", "mailbox", "pending", "done", "dropped"}
Outcome == {"none", "ok", "refused", "failure", "streaming", "closed"}

Init ==
    /\ alive = TRUE
    /\ st = [r \in Request |-> "idle"]
    /\ outcome = [r \in Request |-> "none"]
    /\ queue = [k \in Kind |-> <<>>]
    /\ call_reply = {}
    /\ chan = [c \in Call |-> <<>>]
    /\ open = Call
    /\ waiting = None
    /\ buffer = <<>>
    /\ incoming = <<>>
    /\ routed = {}
    /\ notice = "none"
    /\ answer = [c \in Cmd |-> "none"]
    /\ replies = [c \in Call |-> <<>>]
    /\ got = [s \in Stream |-> <<>>]
    /\ ended = {}

-----------------------------------------------------------------------------
(* The actor's context.                                                    *)

\* ctx.wait: nothing but the awaited future is polled.
Runs == alive /\ waiting = None

Resolve(r, o) ==
    /\ st' = [st EXCEPT ![r] = "done"]
    /\ outcome' = [outcome EXCEPT ![r] = o]

Closing_MailboxOnly == {r \in Request : st[r] = "mailbox"}

\* Requests whose future is dropped with the actor: Error::Closed.
Closing == {r \in Request : st[r] \in {"mailbox", "pending"}}

\* The actor stops: protocol error, end of input, write error, unexpected
\* message or an unmatched reply.  Queues, channels' senders and response
\* futures go with it; what is in a channel can still be read.
Stops ==
    /\ alive' = FALSE
    /\ st' = [r \in Request |-> IF r \in Closing THEN "done" ELSE st[r]]
    /\ outcome' = [r \in Request |->
                      IF r \in Closing /\ r \notin Stream THEN "closed" ELSE outcome[r]]
    /\ queue' = [k \in Kind |-> <<>>]
    /\ call_reply' = {}
    /\ chan' = [c \in Call |->
                   CASE c \in Rpc -> <<>>
                     [] c \in Stream /\ st[c] = "mailbox" /\ c \in open ->
                            Append(chan[c], Closed)
                     [] OTHER -> chan[c]]
    /\ waiting' = None
    /\ buffer' = <<>>
    /\ incoming' = <<>>
    /\ routed' = {}
    /\ UNCHANGED <<open, notice, answer, replies, consumer>>

ConnectionLost == alive /\ waiting = None /\ Stops

-----------------------------------------------------------------------------
(* Requests: ConnectionRef's methods and the message handlers.             *)

\* Addr::send: into the mailbox, or refused by a stopped actor.
Submit(r) ==
    /\ st[r] = "idle"
    /\ Cardinality({q \in Request : st[q] # "idle"}) < MaxRequests
    /\ IF alive
       THEN st' = [st EXCEPT ![r] = "mailbox"] /\ UNCHANGED <<outcome, chan>>
       ELSE /\ Resolve(r, IF r \in Stream THEN "none" ELSE "closed")
            /\ chan' = IF r \in Stream
                       THEN [chan EXCEPT ![r] = Append(@, Closed)] ELSE chan
    /\ UNCHANGED <<alive, queue, call_reply, open, waiting, buffer, incoming,
                   router, consumer>>

\* The caller drops its future: actix skips a message not handled yet.
\* (call_streaming sends from a task of its own, which is not dropped.)
Abandon(r) ==
    /\ st[r] = "mailbox"
    /\ r \notin Stream
    /\ st' = [st EXCEPT ![r] = "dropped"]
    /\ UNCHANGED <<alive, outcome, queue, channel, buffer, incoming, router,
                   consumer>>

\* push_back on a reply queue.
Enqueue(q, c) == Append(q, c)

\* send_cmd_async.  Nobody closes the writer, so the write succeeds.
HandleCmd(c) ==
    /\ Runs
    /\ st[c] = "mailbox"
    /\ st' = [st EXCEPT ![c] = "pending"]
    /\ queue' = [queue EXCEPT ![KindOf[c]] = Enqueue(@, c)]
    /\ buffer' = Append(buffer, c)
    /\ UNCHANGED <<alive, outcome, channel, incoming, router, consumer>>

\* Handler<RpcRawCall> and Handler<RpcRawStreamCall>.
HandleCall(c) ==
    /\ Runs
    /\ st[c] = "mailbox"
    /\ st' = [st EXCEPT ![c] = IF c \in Rpc THEN "pending" ELSE "done"]
    /\ call_reply' = call_reply \cup {c}
    /\ buffer' = Append(buffer, c)
    /\ UNCHANGED <<alive, outcome, queue, chan, open, waiting, incoming, router,
                   consumer>>

\* Handler<RpcRawCall> with no_reply.
HandlePush(p) ==
    /\ Runs
    /\ st[p] = "mailbox"
    /\ Resolve(p, "ok")
    /\ buffer' = Append(buffer, p)
    /\ UNCHANGED <<alive, queue, channel, incoming, router, consumer>>

-----------------------------------------------------------------------------
(* The router (external).                                                  *)

\* SinkWriteFuture hands the oldest message to the socket; the router
\* answers a command at once, keeps a call, takes a push or a pong.  The
\* reply carries no id: `of', like `nr' below, is history that no action
\* reads.
Transmit ==
    /\ Runs
    /\ buffer # <<>>
    /\ buffer' = Tail(buffer)
    /\ LET m == Head(buffer) IN
       \/ /\ m \in Cmd
          /\ \E a \in {"ok", "refused"} :
                /\ answer' = [answer EXCEPT ![m] = a]
                /\ incoming' = Append(incoming, [for |-> "command",
                                                 kind |-> KindOf[m], code |-> a,
                                                 of |-> m])
          /\ UNCHANGED <<routed, notice, replies>>
       \/ /\ m \in Call
          /\ routed' = routed \cup {m}
          /\ UNCHANGED <<incoming, notice, answer, replies>>
       \/ /\ m \in Push
          /\ UNCHANGED <<incoming, router>>
       \/ /\ m = "pong"
          /\ notice' = "handled"
          /\ UNCHANGED <<incoming, routed, answer, replies>>
    /\ UNCHANGED <<alive, request, queue, channel, consumer>>

\* What carries rep, the router's next reply to call c.
ReplyMsg(c, rep) == [for |-> "call", id |-> c, reply |-> rep, nr |-> Len(replies[c]) + 1]

\* A reply for call c, from its service or made by the router.
RouterReply(c, rep) ==
    /\ alive
    /\ c \in routed
    /\ Len(replies[c]) < MaxChunks[c]
    /\ rep.type = "part" => Len(replies[c]) + 1 < MaxChunks[c]
    /\ replies' = [replies EXCEPT ![c] = Append(@, rep)]
    /\ incoming' = Append(incoming, ReplyMsg(c, rep))
    /\ routed' = IF rep.type = "full" THEN routed \ {c} ELSE routed
    /\ UNCHANGED <<alive, request, queue, channel, buffer, notice, answer, consumer>>

\* A second full reply (a late service after the router's own failure
\* reply); at most one per call here.
RouterLate(c) ==
    /\ alive
    /\ c \notin routed
    /\ replies[c] # <<>>
    /\ Len(replies[c]) < MaxChunks[c]
    /\ LET rep == [type |-> "full", code |-> "ok"] IN
       /\ replies' = [replies EXCEPT ![c] = Append(@, rep)]
       /\ incoming' = Append(incoming, ReplyMsg(c, rep))
    /\ UNCHANGED <<alive, request, queue, channel, buffer, routed, notice, answer,
                   consumer>>

\* The router pings an idle client, or sends what the client only takes: a
\* broadcast of a topic, or Hello (one of these here; a second Hello is among
\* the reasons for which the actor stops).
RouterNotice(kind) ==
    /\ alive
    /\ notice = "none"
    /\ notice' = "sent"
    /\ incoming' = Append(incoming, [for |-> kind])
    /\ UNCHANGED <<alive, request, queue, channel, buffer, routed, answer, replies,
                   consumer>>

-----------------------------------------------------------------------------
(* StreamHandler::handle.                                                  *)

\* The future of an answered call is polled before the next message is
\* handled: actix moves a stream that made the context wait behind all
\* other futures.
CanRead(for) ==
    /\ Runs
    /\ incoming # <<>>
    /\ Head(incoming).for = for
    /\ \A c \in Rpc : chan[c] = <<>>

Oldest_Newest(q) == Len(q)

\* The position pop_front takes from a reply queue.
Oldest(q) == 1

\* handle_reply of a ReplyQueue.  (An unmatched reply stops the connection;
\* CommandGetsItsAnswer shows that there is none.)
CommandReply ==
    /\ CanRead("command")
    /\ LET m == Head(incoming)
           q == queue[m.kind]
       IN  /\ q # <<>>
           /\ Resolve(q[Oldest(q)], m.code)
           /\ queue' = [queue EXCEPT ![m.kind] = RemoveAt(q, Oldest(q))]
    /\ incoming' = Tail(incoming)
    /\ UNCHANGED <<alive, channel, buffer, router, consumer>>

BufferOf(c) == IF c \in Rpc THEN 1 ELSE StreamBuffer

Forget_Partial(c, rep) == call_reply \ {c}

Forget_Never(c, rep) == call_reply

\* A full reply ends the call.
Forget(c, rep) == IF rep.type = "full" THEN call_reply \ {c} ELSE call_reply

\* Connection::handle_reply: pass the reply into the channel of its call
\* and wait while the channel holds more than its buffer.
PassReply ==
    /\ CanRead("call")
    /\ LET c == Head(incoming).id
           rep == Head(incoming).reply
       IN  /\ c \in call_reply
           /\ rep.code # "invalid"
           /\ chan' = IF c \in open THEN [chan EXCEPT ![c] = Append(@, rep)] ELSE chan
           /\ waiting' = IF Len(chan'[c]) > BufferOf(c) THEN c ELSE None
           /\ call_reply' = Forget(c, rep)
    /\ incoming' = Tail(incoming)
    /\ UNCHANGED <<alive, request, queue, open, buffer, router, consumer>>

\* "unmatched call reply": nobody waits for it (any more).
IgnoreReply ==
    /\ CanRead("call")
    /\ Head(incoming).id \notin call_reply
    /\ incoming' = Tail(incoming)
    /\ UNCHANGED <<alive, request, queue, channel, buffer, router, consumer>>

\* An unknown reply code or an error text that is not UTF-8.
InvalidReply ==
    /\ CanRead("call")
    /\ Head(incoming).id \in call_reply
    /\ Head(incoming).reply.code = "invalid"
    /\ Stops

\* A ping is answered at once.
Pong ==
    /\ CanRead("ping")
    /\ buffer' = Append(buffer, "pong")
    /\ incoming' = Tail(incoming)
    /\ UNCHANGED <<alive, request, queue, channel, router, consumer>>

\* A broadcast is handed to CallRequestHandler::handle_event, a Hello is kept
\* in server_info.
TakeNotice ==
    /\ CanRead("event")
    /\ notice' = "handled"
    /\ incoming' = Tail(incoming)
    /\ UNCHANGED <<alive, request, queue, channel, buffer, routed, answer, replies,
                   consumer>>

-----------------------------------------------------------------------------
(* The readers of the channels.                                            *)

SendDone_Room(c) == c \in open /\ Len(chan[c]) <= BufferOf(c)

\* A send into c's channel completes: there is room again, or the receiver
\* is gone.
SendDone(c) == Len(chan[c]) <= BufferOf(c) \/ c \notin open

\* The future the actor waits for completes.
Resume ==
    /\ alive
    /\ waiting # None
    /\ SendDone(waiting)
    /\ waiting' = None
    /\ UNCHANGED <<alive, request, queue, call_reply, chan, open, buffer, incoming,
                   router, consumer>>

\* What fetch_response makes of an item: a partial one is an error.
FetchResult(item) ==
    CASE item.code # "ok" -> "failure"
      [] item.type = "part" -> "streaming"
      [] OTHER -> "ok"

\* fetch_response: the first item decides, then the receiver is dropped.
Fetch(c) ==
    /\ Runs
    /\ chan[c] # <<>>
    /\ Resolve(c, FetchResult(Head(chan[c])))
    /\ chan' = [chan EXCEPT ![c] = <<>>]
    /\ open' = open \ {c}
    /\ UNCHANGED <<alive, queue, call_reply, waiting, buffer, incoming, router,
                   consumer>>

\* The user of a streaming call takes the next item ...
Consume(s) ==
    /\ s \in open
    /\ chan[s] # <<>>
    /\ got' = [got EXCEPT ![s] = Append(@, Head(chan[s]))]
    /\ chan' = [chan EXCEPT ![s] = Tail(@)]
    /\ UNCHANGED <<alive, request, queue, call_reply, open, waiting, buffer, incoming,
                   router, ended>>

\* ... sees the end: no item and no sender left ...
ConsumeEnd(s) ==
    /\ s \in open \ ended
    /\ st[s] = "done"
    /\ chan[s] = <<>>
    /\ s \notin call_reply /\ waiting # s
    /\ ended' = ended \cup {s}
    /\ UNCHANGED <<alive, request, queue, channel, buffer, incoming, router, got>>

\* ... or drops the stream.
DropStream(s) ==
    /\ s \in open
    /\ st[s] # "idle"
    /\ open' = open \ {s}
    /\ chan' = [chan EXCEPT ![s] = <<>>]
    /\ UNCHANGED <<alive, request, queue, call_reply, waiting, buffer, incoming,
                   router, consumer>>

-----------------------------------------------------------------------------

\* The handler of r's message.
Handle(r) ==
    \/ r \in Cmd /\ HandleCmd(r)
    \/ r \in Call /\ HandleCall(r)
    \/ r \in Push /\ HandlePush(r)

\* The handler of a message from the router.
Read == CommandReply \/ PassReply \/ IgnoreReply \/ InvalidReply \/ Pong \/ TakeNotice

Next ==
    \/ \E r \in Request : Handle(r)
    \/ Transmit
    \/ Read
    \/ Resume
    \/ \E c \in Rpc : Fetch(c)
    \/ ConnectionLost
    \/ \E r \in Request : Submit(r) \/ Abandon(r)
    \/ \E c \in Call : RouterLate(c) \/ \E rep \in CallReply : RouterReply(c, rep)
    \/ \E kind \in {"ping", "event"} : RouterNotice(kind)
    \/ \E s \in Stream : Consume(s) \/ ConsumeEnd(s) \/ DropStream(s)

Spec == Init /\ [][Next]_vars

\* The actor's task polls mailbox, socket, writer and futures in turn; the
\* router ends every call it has; consumers take items until the end.
FairSpec ==
    /\ Spec
    /\ \A r \in Request : WF_vars(Handle(r))
    /\ WF_vars(Transmit)
    /\ WF_vars(Read)
    /\ WF_vars(Resume)
    /\ \A c \in Rpc : WF_vars(Fetch(c))
    /\ \A c \in Call : WF_vars(\E rep \in CallReply :
                                  rep.type = "full" /\ RouterReply(c, rep))
    /\ \A s \in Stream : WF_vars(Consume(s)) /\ WF_vars(ConsumeEnd(s))

-----------------------------------------------------------------------------
(* Properties.                                                             *)

InSocket == [for : {"command"}, kind : Kind, code : {"ok", "refused"}, of : Cmd]
                \cup [for : {"call"}, id : Call, reply : CallReply, nr : Nat]
                \cup [for : {"ping", "event"}]

\* Every variable keeps its type; the channels stay within one item of
\* their buffers, whatever the router sends (handle_reply, ctx.wait).
TypeOK ==
    /\ alive \in BOOLEAN
    /\ st \in [Request -> State]
    /\ outcome \in [Request -> Outcome]
    /\ queue \in [Kind -> Seq(Cmd)]
    /\ call_reply \subseteq Call
    /\ chan \in [Call -> Seq(CallReply \cup {Closed})]
    /\ \A s \in Stream : Len(chan[s]) <= StreamBuffer + 1
    /\ \A c \in Rpc : Len(chan[c]) <= 1
    /\ open \subseteq Call
    /\ waiting \in Stream \cup {None}
    /\ buffer \in Seq(Request \cup {"pong"})
    /\ incoming \in Seq(InSocket)
    /\ routed \subseteq Call
    /\ notice \in {"none", "sent", "handled"}
    /\ answer \in [Cmd -> {"none", "ok", "refused"}]
    /\ replies \in [Call -> Seq(CallReply)]
    /\ got \in [Stream -> Seq(CallReply \cup {Closed})]
    /\ ended \subseteq Stream

\* A command resolves to the router's answer to that very command although
\* replies carry no id (send_cmd_async, handle_reply), and no reply is ever
\* unmatched, whatever callers abandon in between.
CommandGetsItsAnswer ==
    /\ \A i \in 1 .. Len(incoming) :
           incoming[i].for = "command" => queue[incoming[i].kind] # <<>>
    /\ \A c \in Cmd : outcome[c] \in {"ok", "refused"} => outcome[c] = answer[c]

\* The consumer of a stream gets the router's replies to it, in order,
\* without gaps and never one past the full reply (handle_reply).
StreamIsPrefix ==
    \A s \in Stream :
        LET seen == got[s] \o chan[s]
            n == Len(seen)
        IN  IF n > 0 /\ seen[n] = Closed THEN n = 1
            ELSE /\ n <= Len(replies[s])
                 /\ seen = SubSeq(replies[s], 1, n)
                 /\ \A i \in 1 .. n - 1 : seen[i].type = "part"

\* As long as the connection lives, a stream ends only after its full
\* reply: handle_reply drops the sender for nothing else.
LiveStreamEndsComplete ==
    \A s \in ended : alive => got[s] # <<>> /\ Last(got[s]).type = "full"

Unresolved == {r \in Request : st[r] \in {"mailbox", "pending"}}

\* Every command, call and push a caller does not abandon resolves, if only
\* to Closed when the connection stops: of finitely many requests none is
\* left in the end.
RequestsResolve == Unresolved # {} ~> Unresolved = {}

\* Every stream request ends for its consumer, unless it drops it.
StreamsEnd ==
    \A s \in Stream : (st[s] = "mailbox") ~> (s \in ended \/ s \notin open)

\* A ping is answered, and an event or Hello handled, while the connection
\* lives, as long as consumers take what their streams receive.
NoticeIsHandled == (notice = "sent") ~> (notice = "handled" \/ ~alive)
=============================================================================
