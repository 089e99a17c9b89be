---------------------------- MODULE ServedCalls ----------------------------
(***************************************************************************)
(* The serving side of a client: Connection::handle_call_request and       *)
(* handle_push_request (src/connection.rs), forward_bytes_local and the    *)
(* endpoint kinds behind a Slot (src/local_router.rs), and the wrapper     *)
(* actors (local_router/into_actix.rs, the raw actor of untyped.rs).       *)
(*                                                                         *)
(* A call is answered by folding over the stream of the endpoint: every    *)
(* item becomes a CallReply as soon as it is there, an Err of the stream   *)
(* becomes a full reply with ServiceFailure, and if the last item was not  *)
(* a full one an empty full reply closes the stream.  The router forwards  *)
(* replies until the first full one, so that is what the caller sees.      *)
(*                                                                         *)
(* An Err of the stream is not an Err of the service: a typed handler's    *)
(* own Result is encoded as a whole and is a reply like any other.         *)
(*                                                                         *)
(* What the service's own code does is a sequence of events; bodies are    *)
(* left out.  The channels between the service and the fold (16 items)     *)
(* only delay events and are not modelled.                                 *)
(***************************************************************************)
EXTENDS Naturals, Sequences, FiniteSets, Functions

CONSTANTS
    Req,            \* requests
    MaxEvents,      \* bound: events of one service stream
    EncodingFails   \* whether serialization::to_vec can fail on a result

ASSUME ServedAssumption == MaxEvents \in Nat \ {0} /\ EncodingFails \in BOOLEAN

VARIABLES
    alive,     \* the connection's actor runs
    stage,     \* stage[r]: "new"; "call", then "over"; "push", then "pushed"
    endpoint,  \* endpoint[r]: the kind of slot the address was found in
    events,    \* events[r]: what the service did so far
    got_eos,   \* got_eos[r]: the fold's accumulator
    written    \* written[r]: replies handed to the writer

servedVars == <<alive, stage, endpoint, events, got_eos, written>>

\* No handler; Recipient<RpcEnvelope<T>>; Recipient<RpcRawCall>;
\* Recipient<RpcStreamCall<T>>; DualRawEndpoint, which answers every call
\* that wants replies through its stream handler.
Endpoint == {"absent", "single", "raw", "stream", "raw_stream"}

\* "value": Ok of the handler, or of an item of its stream; "error": Err of
\* the handler or of an item; "final": a raw stream's own full chunk;
\* "unencodable": a result that to_vec cannot encode; "fail": what is no
\* result of the handler: no endpoint, a body that cannot be decoded, a
\* closed mailbox, the Err an actor returns for a stream call as a whole.
Event == {"value", "error", "final", "unencodable", "fail"}

Reply == [type : {"part", "full"}, code : {"ok", "failure"}]

ServedInit ==
    /\ alive = TRUE
    /\ stage = [r \in Req |-> "new"]
    /\ endpoint = [r \in Req |-> "absent"]
    /\ events = [r \in Req |-> <<>>]
    /\ got_eos = [r \in Req |-> FALSE]
    /\ written = [r \in Req |-> <<>>]

-----------------------------------------------------------------------------
(* RawEndpoint::call_stream.                                               *)

Encoding == IF EncodingFails THEN {"unencodable"} ELSE {}

\* The stream of endpoint kind k can produce event e after the events es.
\* A typed stream's "fail" is chained behind its items; a raw stream ends
\* with its first Err, but nothing ends it after its own full chunk.
MayHappen(k, es, e) ==
    CASE k = "absent" -> es = <<>> /\ e = "fail"
      [] k = "single" -> es = <<>> /\ e \in {"value", "error", "fail"} \cup Encoding
      [] k = "raw" -> es = <<>> /\ e \in {"value", "error", "fail"}
      [] k = "stream" -> /\ "fail" \notin Range(es)
                         /\ e \in {"value", "error", "fail"} \cup Encoding
      [] k = "raw_stream" -> /\ {"fail", "error"} \cap Range(es) = {}
                             /\ e \in {"value", "error", "final", "fail"}

\* A stream may be over: a single response and a missing endpoint only
\* after their one item.
MayEnd(k, es) == k \in {"absent", "single", "raw"} => es # <<>>

\* The chunk that carries a result of endpoint kind k.
Chunk(k) == [type |-> IF k \in {"single", "raw"} THEN "full" ELSE "part", code |-> "ok"]

ItemOf_Swallowed(k, e) ==
    CASE e = "value" \/ (e = "error" /\ k \in {"single", "stream"}) -> {Chunk(k)}
      [] e = "final" -> {[type |-> "full", code |-> "ok"]}
      [] OTHER -> {}

\* The item, if any, that event e adds to the stream.  A typed handler's
\* Err is encoded like its Ok; a raw handler's Err is the Err of the item.
\* The raw actor passes its handler's stream on with forward(), which ends
\* at the first Err without passing it on, and a closed mailbox of a raw
\* stream is only printed.
ItemOf(k, e) ==
    CASE e = "value" \/ (e = "error" /\ k \in {"single", "stream"}) -> {Chunk(k)}
      [] e = "final" -> {[type |-> "full", code |-> "ok"]}
      [] e \in {"error", "fail"} /\ k = "raw_stream" -> {}
      [] OTHER -> {[type |-> "full", code |-> "failure"]}

-----------------------------------------------------------------------------

\* A CallRequest: do_call finds the endpoint (or none) and the fold starts.
HandleCallRequest(r, k) ==
    /\ alive
    /\ stage[r] = "new"
    /\ stage' = [stage EXCEPT ![r] = "call"]
    /\ endpoint' = [endpoint EXCEPT ![r] = k]
    /\ UNCHANGED <<alive, events, got_eos, written>>

\* A CallRequest with no_reply: the same, but slot.send and a fold that
\* drops the result.
HandlePushRequest(r, k) ==
    /\ alive
    /\ stage[r] = "new"
    /\ stage' = [stage EXCEPT ![r] = "push"]
    /\ endpoint' = [endpoint EXCEPT ![r] = k]
    /\ UNCHANGED <<alive, events, got_eos, written>>

IsEos_Sticky(r, item) == got_eos[r] \/ item.type = "full"

\* The fold's accumulator after an item: that of the last item only.
IsEos(r, item) == item.type = "full"

\* One event of the service and the fold's step over the item it yields.
ServiceStep(r, e) ==
    /\ alive
    /\ stage[r] = "call"
    /\ Len(events[r]) < MaxEvents
    /\ MayHappen(endpoint[r], events[r], e)
    /\ events' = [events EXCEPT ![r] = Append(@, e)]
    /\ \/ /\ ItemOf(endpoint[r], e) = {}
          /\ UNCHANGED <<got_eos, written>>
       \/ \E item \in ItemOf(endpoint[r], e) :
             /\ written' = [written EXCEPT ![r] = Append(@, item)]
             /\ got_eos' = [got_eos EXCEPT ![r] = IsEos(r, item)]
    /\ UNCHANGED <<alive, stage, endpoint>>

Closing_Twice(r) == <<[type |-> "full", code |-> "ok"]>>

\* What the fold's continuation adds when the stream is over.
Closing(r) == IF got_eos[r] THEN <<>> ELSE <<[type |-> "full", code |-> "ok"]>>

ServiceEnd(r) ==
    /\ alive
    /\ stage[r] = "call"
    /\ MayEnd(endpoint[r], events[r])
    /\ written' = [written EXCEPT ![r] = @ \o Closing(r)]
    /\ stage' = [stage EXCEPT ![r] = "over"]
    /\ UNCHANGED <<alive, endpoint, events, got_eos>>

PushEnd(r) ==
    /\ alive
    /\ stage[r] = "push"
    /\ stage' = [stage EXCEPT ![r] = "pushed"]
    /\ UNCHANGED <<alive, endpoint, events, got_eos, written>>

\* The connection stops; the folds are dropped with it.
Stop ==
    /\ alive
    /\ alive' = FALSE
    /\ UNCHANGED <<stage, endpoint, events, got_eos, written>>

ServedNext ==
    \/ \E r \in Req :
          \/ \E k \in Endpoint : HandleCallRequest(r, k) \/ HandlePushRequest(r, k)
          \/ \E e \in Event : ServiceStep(r, e)
          \/ ServiceEnd(r)
          \/ PushEnd(r)
    \/ Stop

ServedSpec == ServedInit /\ [][ServedNext]_servedVars

-----------------------------------------------------------------------------
(* Properties.                                                             *)

\* What reaches the caller: everything up to the first full reply, with
\* which the router forgets the request.
Seen(r) ==
    LET full == {i \in 1 .. Len(written[r]) : written[r][i].type = "full"}
    IN  IF full = {} THEN written[r]
        ELSE SubSeq(written[r], 1, CHOOSE i \in full : \A j \in full : i <= j)

\* Every variable keeps its type.
ServedTypeOK ==
    /\ alive \in BOOLEAN
    /\ stage \in [Req -> {"new", "call", "push", "over", "pushed"}]
    /\ endpoint \in [Req -> Endpoint]
    /\ events \in [Req -> Seq(Event)]
    /\ got_eos \in [Req -> BOOLEAN]
    /\ written \in [Req -> Seq(Reply)]

\* The service made nothing after a full item that did not end its stream:
\* a raw stream's own full chunk, or a result that could not be encoded.
StopsAtFull(r) ==
    \A i \in 1 .. Len(events[r]) - 1 : events[r][i] \notin {"final", "unencodable"}

\* A call whose stream is over has been closed by a full reply, whatever
\* the endpoint did (handle_call_request's fold and its continuation).  It
\* is "a single response or end of stream" (gsb_api.proto): at no time is
\* anything written for the request after it, provided that the service
\* stops there, which nothing in the code enforces.
AnswerIsClosed ==
    \A r \in Req :
        /\ stage[r] = "over" => written[r] # <<>> /\ written[r][Len(written[r])].type = "full"
        /\ StopsAtFull(r) => \A i \in 1 .. Len(written[r]) - 1 : written[r][i].type # "full"

\* What the bus owes the caller as ServiceFailure: everything that is no
\* result of a typed handler, and a raw handler's error; but nothing of a
\* raw stream.
Fails(k, e) ==
    /\ k # "raw_stream"
    /\ e \in {"fail", "unencodable"} \/ (k = "raw" /\ e = "error")

\* What the caller sees ends with ServiceFailure if the bus or a raw
\* handler failed (no endpoint, a body or a result that cannot be coded, a
\* closed mailbox, a stream call its actor refused), at whatever place of
\* the answer.  Otherwise no reply says ServiceFailure: the errors of a
\* typed handler are results in OK replies and end no stream.
FailureReachesCaller ==
    \A r \in Req :
        IF \E e \in Range(events[r]) : Fails(endpoint[r], e)
        THEN Seen(r) # <<>> /\ Seen(r)[Len(Seen(r))].code = "failure"
        ELSE \A i \in 1 .. Len(written[r]) : written[r][i].code = "ok"

=============================================================================
