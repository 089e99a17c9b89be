---------------------------- MODULE RouterCalls ----------------------------
(***************************************************************************)
(* Service calls through the router: handle_call_request,                  *)
(* handle_push_request, handle_call_reply and the handlers of              *)
(* ForwardCallRequest and ForwardCallResponse of connection.rs, and        *)
(* resolve_node of router.rs.                                              *)
(*                                                                         *)
(* The registry is the abstract ServiceOwnership, which RouterRegistry     *)
(* implements; a connection that leaves takes its mailbox, its hold queue, *)
(* its reply map and its reply stream with it.  Of the outgoing side       *)
(* (RouterOutput) what matters here is kept: a request is written at once  *)
(* or held, held requests are written oldest first, and where the hold     *)
(* queue can overflow (Lossy) the rest of it is dropped.                   *)
(*                                                                         *)
(* The actor framework is external: dropping the future of Addr::send      *)
(* cancels a message that was not handled yet; once handled, its own       *)
(* future runs on without anybody waiting for it.                          *)
(*                                                                         *)
(* The clients are external.  The calls of a behaviour are fixed by the    *)
(* constants: who calls, which address, with which request id, and who may *)
(* register what.  A service answers a request with a full reply, one of   *)
(* Streams with at most one partial reply before it.                       *)
(***************************************************************************)
EXTENDS Naturals, Sequences, FiniteSets, SequencesExt

CONSTANTS
    Conn,        \* connections
    Service,     \* service names
    None,        \* absent value
    Call,        \* the calls that are made
    ReqId,       \* request ids
    CallerOf,    \* CallerOf[k]: the connection whose client makes call k
    IdOf,        \* IdOf[k]: its request id
    NamesOf,     \* NamesOf[k]: the names its address resolves to, longest first
    Push,        \* the calls with no_reply set
    Streams,     \* the calls that may get a partial reply first
    Offers,      \* Offers[c]: the services c's client registers
    Leaving,     \* connections that may end
    Timeouts,    \* whether forward_timeout may expire
    Lossy        \* connections whose hold queue can overflow

ASSUME CallsAssumption ==
    /\ None \notin Conn \cup Call
    /\ CallerOf \in [Call -> Conn]
    /\ IdOf \in [Call -> ReqId]
    /\ NamesOf \in [Call -> Seq(Service)]
    /\ Push \subseteq Call
    /\ Streams \subseteq Call
    /\ Offers \in [Conn -> SUBSET Service]
    /\ Leaving \subseteq Conn
    /\ Timeouts \in BOOLEAN
    /\ Lossy \subseteq Conn

\* Clients draw their request ids at random from 2^53 (gen_id of
\* src/connection.rs): no two of them are taken to use the same.
ASSUME IdAssumption ==
    \A j, k \in Call \ Push : IdOf[j] = IdOf[k] => CallerOf[j] = CallerOf[k]

VARIABLES
    owner, joined, left,  \* the registry
    todo,           \* calls not made yet
    reader,         \* reader[c]: the call c's input stream waits for
    result,         \* result[k]: what the forward future of k resolved to
    mailbox,        \* mailbox[c]: ForwardCallRequests not handled yet
    held,           \* held[c]: requests in the hold queue
    reply_map,      \* Connection.reply_map: whom to send replies to an id
    reply_stream,   \* reply_stream[c]: ForwardCallResponses for c
    unanswered,     \* unanswered[c]: calls c's client has yet to answer
    partial,        \* calls that got their partial reply
    arrived,        \* arrived[c]: calls written to c's client, in order
    replies         \* replies[c][k]: replies to k written to c's client, in order

registry == <<owner, joined, left>>
forwarding == <<reader, result, mailbox, held>>
answering == <<reply_map, reply_stream, unanswered, partial>>
vars == <<registry, todo, forwarding, answering, arrived, replies>>

Registry == INSTANCE ServiceOwnership

Init ==
    /\ Registry!Init
    /\ todo = Call
    /\ reader = [c \in Conn |-> None]
    /\ result = [k \in Call |-> "none"]
    /\ mailbox = [c \in Conn |-> <<>>]
    /\ held = [c \in Conn |-> <<>>]
    /\ reply_map = [c \in Conn |-> [id \in ReqId |-> None]]
    /\ reply_stream = [c \in Conn |-> <<>>]
    /\ unanswered = [c \in Conn |-> {}]
    /\ partial = {}
    /\ arrived = [c \in Conn |-> <<>>]
    /\ replies = [c \in Conn |-> [k \in Call |-> <<>>]]

-----------------------------------------------------------------------------
(* Helpers.                                                                *)

\* The connection is there and its input stream is ready for a message.
Reading(c) == c \in joined \ left /\ reader[c] = None

\* A reply: its request id, "partial" or "full", its code, and the call it
\* is meant for.
Reply(k, type, code) == [id |-> IdOf[k], type |-> type, code |-> code, of |-> k]

\* The position of the longest registered prefix of k's address, if any.
Longest(k) ==
    {j \in 1 .. Len(NamesOf[k]) :
        /\ owner[NamesOf[k][j]] # None
        /\ \A i \in 1 .. j - 1 : owner[NamesOf[k][i]] = None}

\* Router::resolve_node: the owner of the longest registered prefix.
Resolve(k) ==
    IF Longest(k) = {} THEN None
    ELSE owner[NamesOf[k][CHOOSE j \in Longest(k) : TRUE]]

-----------------------------------------------------------------------------
(* Registrations and connections.                                          *)

RegistryStep(c) ==
    /\ reader[c] = None
    /\ \/ Registry!Join(c)
       \/ \E s \in Offers[c] : Registry!Claim(c, s) \/ Registry!Release(c, s)
    /\ UNCHANGED <<todo, forwarding, answering, arrived, replies>>

\* The mailboxes after the future that forwards call k was dropped.
Cancelled(k) ==
    [d \in Conn |->
        IF k \notin ToSet(mailbox[d]) THEN mailbox[d]
        ELSE RemoveAt(mailbox[d],
                      CHOOSE i \in 1 .. Len(mailbox[d]) : mailbox[d][i] = k)]

LeaveResult_HeldOnly(c, k) ==
    IF k \in ToSet(held[c]) THEN "canceled" ELSE result[k]

\* A message in a dropped mailbox is answered Closed; dropping the hold
\* queue drops the oneshot senders of the requests in it.
LeaveResult(c, k) ==
    CASE k \in ToSet(mailbox[c]) -> "closed"
      [] k \in ToSet(held[c]) -> "canceled"
      [] OTHER -> result[k]

Leave(c) ==
    /\ c \in Leaving
    /\ Registry!Leave(c)
    /\ result' = [k \in Call |-> LeaveResult(c, k)]
    /\ mailbox' = [Cancelled(reader[c]) EXCEPT ![c] = <<>>]
    /\ held' = [held EXCEPT ![c] = <<>>]
    /\ reader' = [reader EXCEPT ![c] = None]
    /\ reply_map' = [reply_map EXCEPT ![c] = [id \in ReqId |-> None]]
    /\ reply_stream' = [reply_stream EXCEPT ![c] = <<>>]
    /\ unanswered' = [unanswered EXCEPT ![c] = {}]
    /\ UNCHANGED <<todo, partial, arrived, replies>>

-----------------------------------------------------------------------------
(* The caller's side.                                                      *)

\* CallRequest to an address nobody serves: a call is answered at once, a
\* push is dropped.
CallNotFound(k) ==
    LET c == CallerOf[k] IN
    /\ k \in todo
    /\ Reading(c)
    /\ Resolve(k) = None
    /\ todo' = todo \ {k}
    /\ replies' = [replies EXCEPT ![c][k] =
                      IF k \in Push THEN @
                      ELSE Append(@, Reply(k, "full", "bad_request"))]
    /\ UNCHANGED <<registry, forwarding, answering, arrived>>

\* CallRequest to a registered address: forwarded to the owner's mailbox,
\* and the input stream waits for the outcome.
CallForward(k) ==
    LET c == CallerOf[k] IN
    /\ k \in todo
    /\ Reading(c)
    /\ Resolve(k) # None
    /\ todo' = todo \ {k}
    /\ mailbox' = [mailbox EXCEPT ![Resolve(k)] = Append(@, k)]
    /\ reader' = [reader EXCEPT ![c] = k]
    /\ UNCHANGED <<registry, result, held, answering, arrived, replies>>

\* The reply a caller's client gets for the outcome of forwarding k, if any.
ForwardReply(k, r) ==
    IF r = "ok" \/ k \in Push THEN <<>>
    ELSE <<Reply(k, "full",
              CASE r = "canceled" -> "request canceled"
                [] r = "closed" -> "lost connection"
                [] r = "timeout" -> "stalled connection")>>

\* The forward future is ready.
ForwardDone(c) ==
    LET k == reader[c] IN
    /\ k # None
    /\ result[k] # "none"
    /\ replies' = [replies EXCEPT ![c][k] = @ \o ForwardReply(k, result[k])]
    /\ reader' = [reader EXCEPT ![c] = None]
    /\ UNCHANGED <<registry, todo, result, mailbox, held, answering, arrived>>

\* forward_timeout expires, for calls only.  A request still in the mailbox
\* is cancelled, one in the hold queue stays there.
ForwardTimeout(c) ==
    LET k == reader[c] IN
    /\ Timeouts
    /\ k # None /\ k \notin Push
    /\ result[k] = "none"
    /\ replies' = [replies EXCEPT ![c][k] = @ \o ForwardReply(k, "timeout")]
    /\ reader' = [reader EXCEPT ![c] = None]
    /\ mailbox' = Cancelled(k)
    /\ UNCHANGED <<registry, todo, result, held, answering, arrived>>

-----------------------------------------------------------------------------
(* The service's side.                                                     *)

RememberCaller_Me(c, k) == IF k \in Push THEN None ELSE c

\* The reply_map entry for call k after ForwardCallRequest: the reply channel
\* of its caller, whatever was there.
RememberCaller(c, k) ==
    IF k \in Push THEN reply_map[c][IdOf[k]] ELSE CallerOf[k]

\* Calls ks are written to c's client, oldest first.
Write(c, ks) ==
    /\ arrived' = [arrived EXCEPT ![c] = @ \o ks]
    /\ unanswered' = [unanswered EXCEPT ![c] = @ \cup (ToSet(ks) \ Push)]

WriteNow_Overtakes(c) == TRUE

\* send_message can write only if no request is held already.
WriteNow(c) == held[c] = <<>>

Takes_WhenReading(c) == mailbox[c] # <<>> /\ reader[c] = None

\* The connection handles its mailbox while its own input stream waits: the
\* pending future is kept by the stream (ActorStream::processing) and does
\* not suspend the actor.
Takes(c) == mailbox[c] # <<>>

\* Handler<ForwardCallRequest>, the request is written at once.
ForwardNow(c) ==
    LET k == Head(mailbox[c]) IN
    /\ Takes(c)
    /\ WriteNow(c)
    /\ mailbox' = [mailbox EXCEPT ![c] = Tail(@)]
    /\ reply_map' = [reply_map EXCEPT ![c][IdOf[k]] = RememberCaller(c, k)]
    /\ Write(c, <<k>>)
    /\ result' = [result EXCEPT ![k] = "ok"]
    /\ UNCHANGED <<registry, todo, reader, held, reply_stream, partial, replies>>

\* Handler<ForwardCallRequest>, the client reads slowly: the request is held.
ForwardHeld(c) ==
    LET k == Head(mailbox[c]) IN
    /\ Takes(c)
    /\ mailbox' = [mailbox EXCEPT ![c] = Tail(@)]
    /\ reply_map' = [reply_map EXCEPT ![c][IdOf[k]] = RememberCaller(c, k)]
    /\ held' = [held EXCEPT ![c] = Append(@, k)]
    /\ UNCHANGED <<registry, todo, reader, result, reply_stream, unanswered,
                   partial, arrived, replies>>

DropResult_All(c, n, k) ==
    IF k \in ToSet(held[c]) THEN "canceled" ELSE result[k]

\* What the senders of held requests learn when the first n are written and
\* the rest is dropped.
DropResult(c, n, k) ==
    CASE k \in ToSet(SubSeq(held[c], 1, n)) -> "ok"
      [] k \in ToSet(SubSeq(held[c], n + 1, Len(held[c]))) -> "canceled"
      [] OTHER -> result[k]

AfterRefill_Kept(c) == held[c]

\* drain(..) leaves nothing behind.
AfterRefill(c) == <<>>

\* buffer_empty: the oldest n held requests are written and the queue is
\* emptied; without overflow n is all of them.
Refill(c) ==
    /\ held[c] # <<>>
    /\ \E n \in 1 .. Len(held[c]) :
          /\ c \notin Lossy => n = Len(held[c])
          /\ Write(c, SubSeq(held[c], 1, n))
          /\ result' = [k \in Call |-> DropResult(c, n, k)]
    /\ held' = [held EXCEPT ![c] = AfterRefill(c)]
    /\ UNCHANGED <<registry, todo, reader, mailbox, reply_map, reply_stream,
                   partial, replies>>

\* The connections a reply with the given id from c's client is sent to: the
\* one in reply_map, if its reply stream still exists.
ReplyTo(c, id) == {reply_map[c][id]} \cap (joined \ left)

\* The reply_map entry after a full reply.
Forgotten(c, k) == None

\* CallReply with the full reply to call k.
FullReply(c, k) ==
    /\ Reading(c)
    /\ k \in unanswered[c]
    /\ unanswered' = [unanswered EXCEPT ![c] = @ \ {k}]
    /\ reply_map' = [reply_map EXCEPT ![c][IdOf[k]] = Forgotten(c, k)]
    /\ reply_stream' = [d \in Conn |->
                           IF d \in ReplyTo(c, IdOf[k])
                           THEN Append(reply_stream[d], Reply(k, "full", "ok"))
                           ELSE reply_stream[d]]
    /\ UNCHANGED <<registry, todo, forwarding, partial, arrived, replies>>

\* CallReply with the partial reply to call k.
PartialReply(c, k) ==
    /\ Reading(c)
    /\ k \in (unanswered[c] \cap Streams) \ partial
    /\ partial' = partial \cup {k}
    /\ reply_stream' = [d \in Conn |->
                           IF d \in ReplyTo(c, IdOf[k])
                           THEN Append(reply_stream[d],
                                       Reply(k, "partial", "ok"))
                           ELSE reply_stream[d]]
    /\ UNCHANGED <<registry, todo, forwarding, reply_map, unanswered, arrived,
                   replies>>

\* InputHandler<ForwardCallResponse>: the next reply is written.
DeliverReply(c) ==
    /\ reply_stream[c] # <<>>
    /\ replies' = [replies EXCEPT ![c][Head(reply_stream[c]).of] =
                      Append(@, Head(reply_stream[c]))]
    /\ reply_stream' = [reply_stream EXCEPT ![c] = Tail(@)]
    /\ UNCHANGED <<registry, todo, forwarding, reply_map, unanswered, partial,
                   arrived>>

\* The same where the hold queue overflows: the reply was held and dropped.
LoseReply(c) ==
    /\ c \in Lossy
    /\ reply_stream[c] # <<>>
    /\ reply_stream' = [reply_stream EXCEPT ![c] = Tail(@)]
    /\ UNCHANGED <<registry, todo, forwarding, reply_map, unanswered, partial,
                   arrived, replies>>

\* The ping timer forgets callers that are gone.
PurgeReplyMap(c) ==
    /\ \E id \in ReqId : reply_map[c][id] \in left
    /\ reply_map' = [reply_map EXCEPT ![c] =
                        [id \in ReqId |-> IF @[id] \in left THEN None ELSE @[id]]]
    /\ UNCHANGED <<registry, todo, forwarding, reply_stream, unanswered, partial,
                   arrived, replies>>

Next ==
    \/ \E c \in Conn :
           \/ RegistryStep(c)
           \/ Leave(c)
           \/ ForwardDone(c)
           \/ ForwardTimeout(c)
           \/ ForwardNow(c)
           \/ ForwardHeld(c)
           \/ Refill(c)
           \/ DeliverReply(c)
           \/ LoseReply(c)
           \/ PurgeReplyMap(c)
           \/ \E k \in Call : FullReply(c, k) \/ PartialReply(c, k)
    \/ \E k \in Call : CallNotFound(k) \/ CallForward(k)

Spec == Init /\ [][Next]_vars

\* Actors handle their mailboxes, futures that are ready are polled, clients
\* read their sockets, and services answer in the end.  No timeout and no
\* registration is relied on.
Fairness ==
    \A c \in Conn :
        /\ WF_vars(ForwardDone(c))
        /\ WF_vars(ForwardNow(c) \/ ForwardHeld(c))
        /\ WF_vars(Refill(c))
        /\ WF_vars(DeliverReply(c))
        /\ \A k \in Call \ Push : WF_vars(FullReply(c, k))

FairSpec == Spec /\ Fairness

-----------------------------------------------------------------------------
(* Properties.                                                             *)

ReplyRecord ==
    [id : ReqId, type : {"partial", "full"},
     code : {"ok", "bad_request", "request canceled", "lost connection",
             "stalled connection"},
     of : Call]

\* Requests and replies are where they can be.
TypeOK ==
    /\ owner \in [Service -> Conn \cup {None}]
    /\ joined \subseteq Conn
    /\ left \subseteq joined
    /\ todo \subseteq Call
    /\ reader \in [Conn -> (Call \ todo) \cup {None}]
    /\ result \in [Call -> {"none", "ok", "canceled", "closed"}]
    /\ mailbox \in [Conn -> Seq(Call \ todo)]
    /\ held \in [Conn -> Seq(Call \ todo)]
    /\ reply_map \in [Conn -> [ReqId -> Conn \cup {None}]]
    /\ reply_stream \in [Conn -> Seq(ReplyRecord)]
    /\ unanswered \in [Conn -> SUBSET (Call \ Push)]
    /\ partial \subseteq Call
    /\ arrived \in [Conn -> Seq(Call \ todo)]
    /\ replies \in [Conn -> [Call -> Seq(ReplyRecord)]]

\* The positions of full replies to call k in what its caller got.
FullReplies(k) ==
    {j \in 1 .. Len(replies[CallerOf[k]][k]) :
        replies[CallerOf[k]][k][j].type = "full"}

\* A reply reaches the client that made the call, nobody else, and never a
\* client that asked for no reply, however calls, replies and disconnects of
\* several clients interleave (request ids being unique).
ReplyReachesCaller ==
    \A c \in Conn, k \in Call :
        replies[c][k] # <<>> => CallerOf[k] = c /\ k \notin Push

\* Where the request of call k was written to a service: the connections
\* and the positions in what they wrote.
Places(k) ==
    UNION {{c} \X {i \in 1 .. Len(arrived[c]) : arrived[c][i] = k} : c \in Conn}

\* What the caller of k was told about it.
Heard(k) ==
    LET mine == replies[CallerOf[k]][k]
    IN  [i \in 1 .. Len(mine) |->
            CASE mine[i].code = "ok" -> mine[i].type
              [] mine[i].code = "stalled connection" -> "stalled"
              [] OTHER -> "refused"]

Promise ==
    INSTANCE CallPromise WITH
        delivered <- [k \in Call |-> Cardinality(Places(k))],
        heard <- [k \in Call |-> Heard(k)]

\* Calls through the router are what CallPromise says, however timeouts,
\* refills, overflowing queues and leaving peers interleave: a request is
\* written to at most one service and at most once, a caller told "endpoint
\* address not found", "request canceled" or "lost connection" may repeat
\* its call because the request never was and never will be delivered, and
\* replies end with one full reply; only after "stalled connection" a late
\* answer may follow.
CallsAsPromised == Promise!Spec

\* Requests on their way to c's client and there, oldest first.
ForwardQueue(c) == arrived[c] \o held[c] \o mailbox[c]

\* Requests overtake each other nowhere between the mailbox of a service's
\* connection and its socket: what c's client was sent is in the order it
\* was forwarded, and everything still queued follows it.
RequestsKeepOrder ==
    [][\A c \in Conn :
          c \notin left' =>
              \A j, k \in 1 .. Len(ForwardQueue(c)) :
                  \A x, y \in 1 .. Len(ForwardQueue(c)') :
                      /\ j < k
                      /\ ForwardQueue(c)'[x] = ForwardQueue(c)[j]
                      /\ ForwardQueue(c)'[y] = ForwardQueue(c)[k]
                      => x < y]_vars

\* Nobody waits for ever: the input of a connection that forwards a call or
\* a push goes on, without the help of forward_timeout, whatever other
\* connections call one another or end.
ReaderGoesOn ==
    \A c \in {CallerOf[k] : k \in Call} : reader[c] # None ~> reader[c] = None

\* Every call gets its full reply, without the help of forward_timeout,
\* however connections hold, drop and cancel requests: the only exceptions
\* are a caller whose own hold queue overflows, one that is gone, and a
\* service that goes away with the request written to it.
CallsAreAnswered ==
    \A k \in {j \in Call \ Push : CallerOf[j] \notin Lossy} :
        k \notin todo ~>
            \/ FullReplies(k) # {}
            \/ CallerOf[k] \in left
            \/ \E c \in left : k \in ToSet(arrived[c])

\* README: "All pending calls to a service that got disconnected are
\* answered with ServiceFailure reply."
PendingCallsFailOnDisconnect ==
    \A k \in Call \ Push, c \in Conn :
        (k \in ToSet(ForwardQueue(c)) /\ c \in left) ~>
            (FullReplies(k) # {} \/ CallerOf[k] \in left)
=============================================================================
