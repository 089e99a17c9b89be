--------------------------- MODULE RouterOutput ---------------------------
(***************************************************************************)
(* The outgoing side of one router connection: SinkWrite's buffer          *)
(* (crates/util/src/writer.rs) and the connection's hold_queue in front of *)
(* it (send_message, send_reply and buffer_empty of connection.rs).        *)
(*                                                                         *)
(* Messages reach the connection from several sources, each of which waits *)
(* for the outcome of its message before it offers the next one:           *)
(*   - callers: the reader of another connection that forwards a call;     *)
(*     it stops waiting after forward_timeout, but the future that holds   *)
(*     the message lives on, so the message stays queued;                  *)
(*   - pushes (no_reply calls) and the reply stream: no timeout;           *)
(*   - topics: a subscription, whose future is cancelled by Unsubscribe.   *)
(* Replies the connection gives to its own client (send_reply) and pings   *)
(* are written straight to the buffer and nobody waits for them.           *)
(*                                                                         *)
(* A message is its number in the order of acceptance; bodies and encoding *)
(* are left out.  One poll of the writer is split into one action per item *)
(* handed to the socket, since poll_ready may be pending after each.       *)
(***************************************************************************)
EXTENDS Naturals, Sequences, FiniteSets, SequencesExt

CONSTANTS
    Src,             \* sources of messages for this connection
    Callers,         \* those that give up after forward_timeout
    Topics,          \* those that can be cancelled
    Direct,          \* origin of replies written by the connection itself
    None,            \* origin of a message not sent yet
    HighBufferMark,  \* RouterConfig.high_buffer_mark
    MaxMsg           \* bound: messages offered in one behaviour

ASSUME SourceAssumption ==
    /\ Callers \subseteq Src
    /\ Topics \subseteq Src
    /\ Callers \cap Topics = {}
    /\ Direct \notin Src
    /\ None \notin Src \cup {Direct}

ASSUME MarkAssumption == HighBufferMark \in Nat \ {0} /\ MaxMsg \in Nat

VARIABLES
    sent,        \* number of messages offered so far
    origin,      \* origin[m]: who offered message m
    outcome,     \* outcome[m]: what its source learned about it
    waiting,     \* waiting[s]: the message s waits for, 0 if none
    hold_queue,  \* Connection.hold_queue
    buffer,      \* InnerSinkWrite.buffer
    wire,        \* what was handed to the socket
    stopped      \* the actor is gone

vars == <<sent, origin, outcome, waiting, hold_queue, buffer, wire, stopped>>

Msg == 1 .. MaxMsg

\* "ok": written; "lost": oneshot::Canceled; "timeout": the source gave up;
\* "cancelled": the source itself was cancelled.
Outcome == {"none", "pending", "ok", "lost", "timeout", "cancelled"}

Init ==
    /\ sent = 0
    /\ origin = [m \in Msg |-> None]
    /\ outcome = [m \in Msg |-> "none"]
    /\ waiting = [s \in Src |-> 0]
    /\ hold_queue = <<>>
    /\ buffer = <<>>
    /\ wire = <<>>
    /\ stopped = FALSE

-----------------------------------------------------------------------------

CanWrite_IgnoresQueue == Len(buffer) < HighBufferMark

\* send_message writes at once only below the mark and behind nobody.
CanWrite == Len(buffer) < HighBufferMark /\ hold_queue = <<>>

\* Message m is offered by o.
Offer(m, o) ==
    /\ ~stopped
    /\ sent < MaxMsg
    /\ m = sent + 1
    /\ sent' = m
    /\ origin' = [origin EXCEPT ![m] = o]

\* send_message, first branch: write and report success.
SendNow(s) ==
    \E m \in Msg :
        /\ waiting[s] = 0
        /\ CanWrite
        /\ Offer(m, s)
        /\ buffer' = Append(buffer, m)
        /\ outcome' = [outcome EXCEPT ![m] = "ok"]
        /\ UNCHANGED <<waiting, hold_queue, wire, stopped>>

\* send_message, second branch: queue and wait.
SendHeld(s) ==
    \E m \in Msg :
        /\ waiting[s] = 0
        /\ ~CanWrite
        /\ Offer(m, s)
        /\ hold_queue' = Append(hold_queue, m)
        /\ outcome' = [outcome EXCEPT ![m] = "pending"]
        /\ waiting' = [waiting EXCEPT ![s] = m]
        /\ UNCHANGED <<buffer, wire, stopped>>

\* send_reply: past the hold queue and whatever the buffer's length.
SendReply ==
    \E m \in Msg :
        /\ Offer(m, Direct)
        /\ buffer' = Append(buffer, m)
        /\ outcome' = [outcome EXCEPT ![m] = "ok"]
        /\ UNCHANGED <<waiting, hold_queue, wire, stopped>>

\* A caller's forward_timeout expires: it answers its client "stalled
\* connection"; the message stays in the hold queue.
GiveUp(s) ==
    /\ s \in Callers
    /\ waiting[s] # 0
    /\ outcome' = [outcome EXCEPT ![waiting[s]] = "timeout"]
    /\ waiting' = [waiting EXCEPT ![s] = 0]
    /\ UNCHANGED <<sent, origin, hold_queue, buffer, wire, stopped>>

\* Unsubscribe cancels the subscription's future and with it the receiver
\* the held message would be reported to.
Cancel(s) ==
    /\ s \in Topics
    /\ waiting[s] # 0
    /\ outcome' = [outcome EXCEPT ![waiting[s]] = "cancelled"]
    /\ waiting' = [waiting EXCEPT ![s] = 0]
    /\ UNCHANGED <<sent, origin, hold_queue, buffer, wire, stopped>>

\* SinkWriteFuture::poll hands the front of the buffer to the sink.
Transmit ==
    /\ ~stopped
    /\ buffer # <<>>
    /\ wire' = Append(wire, Head(buffer))
    /\ buffer' = Tail(buffer)
    /\ UNCHANGED <<sent, origin, outcome, waiting, hold_queue, stopped>>

\* The entries of q that are in S, in order (SelectSeq for a set).
Only(q, S) ==
    LET kept[i \in 0 .. Len(q)] ==
            IF i = 0 THEN <<>>
            ELSE IF q[i] \in S THEN Append(kept[i - 1], q[i]) ELSE kept[i - 1]
    IN  kept[Len(q)]

Live_All == hold_queue

\* The held messages somebody still wants to be sent (tx not cancelled).
Live == Only(hold_queue, {m \in Msg : outcome[m] # "cancelled"})

Released_OneShort ==
    SubSeq(Live, 1, IF Len(Live) >= HighBufferMark THEN HighBufferMark - 1
                                                   ELSE Len(Live))

\* .take(high_buffer_mark) of them are written.
Released ==
    SubSeq(Live, 1, IF Len(Live) > HighBufferMark THEN HighBufferMark
                                                  ELSE Len(Live))

\* drain(..) empties the queue even where take() stopped early.
Drained == <<>>

Notified_Nobody == outcome

\* The senders of the messages written learn so; dropping the rest of the
\* drain drops their oneshot senders, which the waiting side sees as
\* Canceled.  Nobody is told about a message whose source is not waiting.
Notified ==
    [m \in Msg |->
        IF outcome[m] # "pending" \/ m \notin ToSet(hold_queue) THEN outcome[m]
        ELSE IF m \in ToSet(Released) THEN "ok" ELSE "lost"]

\* EmptyBufferHandler::buffer_empty, called when everything was flushed.
BufferEmpty ==
    /\ ~stopped
    /\ buffer = <<>>
    /\ hold_queue # <<>>
    /\ buffer' = Released
    /\ hold_queue' = Drained
    /\ outcome' = Notified
    /\ waiting' = [s \in Src |->
                      IF waiting[s] # 0 /\ Notified[waiting[s]] # "pending"
                      THEN 0 ELSE waiting[s]]
    /\ UNCHANGED <<sent, origin, wire, stopped>>

\* The connection ends: queue and buffer are dropped, everybody who waits
\* gets Canceled.
Stop ==
    /\ ~stopped
    /\ stopped' = TRUE
    /\ buffer' = <<>>
    /\ hold_queue' = <<>>
    /\ outcome' = [m \in Msg |->
                      IF outcome[m] = "pending" THEN "lost" ELSE outcome[m]]
    /\ waiting' = [s \in Src |-> 0]
    /\ UNCHANGED <<sent, origin, wire>>

Next ==
    \/ \E s \in Src : SendNow(s) \/ SendHeld(s) \/ GiveUp(s) \/ Cancel(s)
    \/ SendReply
    \/ Transmit
    \/ BufferEmpty
    \/ Stop

Spec == Init /\ [][Next]_vars

\* The peer reads its socket, and the writer's future is polled again when
\* the socket takes more data.  Timeouts need not fire.
Fairness == WF_vars(Transmit) /\ WF_vars(BufferEmpty)

FairSpec == Spec /\ Fairness

-----------------------------------------------------------------------------
(* Properties.                                                             *)

\* The queues hold messages that were offered, each source waits for at most
\* one of its own.
TypeOK ==
    /\ sent \in 0 .. MaxMsg
    /\ origin \in [Msg -> Src \cup {Direct, None}]
    /\ outcome \in [Msg -> Outcome]
    /\ waiting \in [Src -> 0 .. MaxMsg]
    /\ hold_queue \in Seq(1 .. sent)
    /\ buffer \in Seq(1 .. sent)
    /\ wire \in Seq(1 .. sent)
    /\ stopped \in BOOLEAN

\* Everything on its way to the client, oldest first.
Stream == wire \o buffer \o hold_queue

\* Forwarded messages reach the socket in the order in which the connection
\* accepted them, whichever of the two branches of send_message each took
\* and whatever was cancelled or dropped between: no call, reply or
\* broadcast overtakes another and none is sent twice.
ForwardedInOrder ==
    \A j, k \in 1 .. Len(Stream) :
        j < k /\ origin[Stream[j]] # Direct /\ origin[Stream[k]] # Direct
            => Stream[j] < Stream[k]

\* The outcome a source learns is true.  A message reported written is on
\* its way; one reported lost ("request canceled") never reaches the client,
\* so its call may be repeated safely; one that is pending is still held.
OutcomeIsTrue ==
    \A m \in Msg :
        /\ outcome[m] = "ok" /\ ~stopped => m \in ToSet(wire \o buffer)
        /\ outcome[m] = "lost" => m \notin ToSet(Stream)
        /\ outcome[m] = "pending" => m \in ToSet(hold_queue)
        /\ outcome[m] = "cancelled" => m \notin ToSet(wire \o buffer)

\* A sender that is held back gets its message through: it learns that the
\* message was dropped only if the connection ends, or if more messages were
\* held at once than the high_buffer_mark that buffer_empty puts back.
LostOnlyOnOverflow ==
    [][\A m \in Msg :
          outcome[m] = "pending" /\ outcome'[m] = "lost" =>
              stopped' \/ Len(hold_queue) > HighBufferMark]_vars

\* Whoever waits for a message to be written is released, without the help
\* of any timeout.
WaitersAreReleased ==
    \A s \in Src : waiting[s] # 0 ~> waiting[s] = 0

=============================================================================
