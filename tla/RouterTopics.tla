--------------------------- MODULE RouterTopics ---------------------------
(***************************************************************************)
(* Broadcast topics of the router: subscribe_topic, find_topic and         *)
(* router_gc_worker of router.rs, and the Subscribe, Unsubscribe and       *)
(* Broadcast handlers of connection.rs.                                    *)
(*                                                                         *)
(* A topic is a broadcast channel.  The channel (tokio) is external: it    *)
(* keeps the last Backlog messages, every receiver has its own position,   *)
(* a receiver that fell behind skips to the oldest message kept, and a     *)
(* message sent while there is no receiver is dropped.  The log of a       *)
(* channel below holds every message ever sent on it; only its last        *)
(* Backlog entries can be received.                                        *)
(*                                                                         *)
(* A publisher looks the topic up under the router's lock and sends after  *)
(* it let go of it; the garbage collector collects the empty topics under  *)
(* one lock and removes them under another.  Connections run on several    *)
(* threads, so anything of another connection can fall between.            *)
(*                                                                         *)
(* Left out: the replies (a second Subscribe to a topic changes nothing    *)
(* and is answered like the first), and what happens to a message after    *)
(* the subscription handed it to send_message (module RouterOutput).       *)
(***************************************************************************)
EXTENDS Naturals, Sequences, FiniteSets, SequencesExt

CONSTANTS
    Conn,      \* connections
    Topic,     \* topic names
    Backlog,   \* effective size of a channel (broadcast_backlog)
    GcScan,    \* whether gc_interval is configured
    MaxChan,   \* bound: channels created in one behaviour
    MaxMsg     \* bound: messages published in one behaviour

ASSUME TopicsAssumption ==
    /\ Backlog \in Nat \ {0}
    /\ GcScan \in BOOLEAN
    /\ MaxChan \in Nat
    /\ MaxMsg \in Nat

Chan == 1 .. MaxChan
Msg == 1 .. MaxMsg

VARIABLES
    alive,         \* connections whose actor runs
    topics,        \* Router.topics: the channel of a topic, 0 if none
    created,       \* number of channels created
    log,           \* log[ch]: messages sent on channel ch
    topic_map,     \* Connection.topic_map: the topics c subscribed to
    sub,           \* sub[c][t]: channel its receiver listens to, 0 if none
    next,          \* next[c][t]: position of that receiver
    publishing,    \* the channel a Broadcast handler found, 0 if none
    message,       \* the message it is about to send
    sent,          \* number of messages published
    gc_running,    \* the collector is between its two locks
    empty_topics,  \* what it saw under the first
    delivered,     \* delivered[c][t]: messages given to send_message
    owed,          \* owed[c][t]: published while c was subscribed to t
    past           \* past[c][t]: sent before c subscribed to t

gcVars == <<gc_running, empty_topics>>
pubVars == <<publishing, message, sent>>
chanVars == <<topics, created, log>>
subVars == <<topic_map, sub, next>>
history == <<delivered, owed, past>>
vars == <<alive, chanVars, subVars, pubVars, gcVars, history>>

Init ==
    /\ alive = Conn
    /\ topics = [t \in Topic |-> 0]
    /\ created = 0
    /\ log = [ch \in Chan |-> <<>>]
    /\ topic_map = [c \in Conn |-> {}]
    /\ sub = [c \in Conn |-> [t \in Topic |-> 0]]
    /\ next = [c \in Conn |-> [t \in Topic |-> 1]]
    /\ publishing = [c \in Conn |-> 0]
    /\ message = [c \in Conn |-> 0]
    /\ sent = 0
    /\ gc_running = FALSE
    /\ empty_topics = {}
    /\ delivered = [c \in Conn |-> [t \in Topic |-> <<>>]]
    /\ owed = [c \in Conn |-> [t \in Topic |-> {}]]
    /\ past = [c \in Conn |-> [t \in Topic |-> {}]]

-----------------------------------------------------------------------------
(* The channel.                                                            *)

\* Sender::receiver_count
Receivers(ch) == {ct \in Conn \X Topic : sub[ct[1]][ct[2]] = ch}

\* The position of the oldest message channel ch still keeps.
Oldest(ch) == IF Len(log[ch]) > Backlog THEN Len(log[ch]) - Backlog + 1 ELSE 1

-----------------------------------------------------------------------------
(* Actions.                                                                *)

\* A connection between two handlers.
Idle(c) == c \in alive /\ publishing[c] = 0

\* Everything sent on any channel so far.
AllSent == UNION {ToSet(log[ch]) : ch \in Chan}

\* The part of SubscribeRequest that does not depend on the topic's channel:
\* topic_map gets an entry for a stream that listens to ch from position k.
StartStream(c, t, ch, k) ==
    /\ Idle(c)
    /\ t \notin topic_map[c]
    /\ topic_map' = [topic_map EXCEPT ![c] = @ \cup {t}]
    /\ sub' = [sub EXCEPT ![c][t] = ch]
    /\ next' = [next EXCEPT ![c][t] = k]
    /\ past' = [past EXCEPT ![c][t] = AllSent]

\* SubscribeRequest, first subscriber: a new channel.
SubscribeNew(c, t) ==
    /\ topics[t] = 0
    /\ created < MaxChan
    /\ created' = created + 1
    /\ topics' = [topics EXCEPT ![t] = created']
    /\ StartStream(c, t, created + 1, 1)
    /\ UNCHANGED <<alive, log, pubVars, gcVars, delivered, owed>>

\* Sender::subscribe: a receiver sees what is sent from now on.
AttachAt(ch) == Len(log[ch]) + 1

\* SubscribeRequest, the topic exists: another receiver.
SubscribeExisting(c, t) ==
    /\ topics[t] # 0
    /\ StartStream(c, t, topics[t], AttachAt(topics[t]))
    /\ UNCHANGED <<alive, chanVars, pubVars, gcVars, delivered, owed>>

Detach_Kept(c, t) == sub[c][t]

\* cancel_future drops the subscription's stream and with it the receiver.
Detach(c, t) == 0

\* UnsubscribeRequest.
Unsubscribe(c, t) ==
    /\ Idle(c)
    /\ t \in topic_map[c]
    /\ topic_map' = [topic_map EXCEPT ![c] = @ \ {t}]
    /\ sub' = [sub EXCEPT ![c][t] = Detach(c, t)]
    /\ owed' = [owed EXCEPT ![c][t] = {}]
    /\ UNCHANGED <<alive, chanVars, next, pubVars, gcVars, delivered, past>>

\* BroadcastRequest up to find_topic: the channel is looked up, the lock
\* released.
FindTopic(c, t) ==
    /\ Idle(c)
    /\ sent < MaxMsg
    /\ sent' = sent + 1
    /\ publishing' = [publishing EXCEPT ![c] = topics[t]]
    /\ message' = [message EXCEPT ![c] = IF topics[t] = 0 THEN 0 ELSE sent']
    /\ owed' = [d \in Conn |->
                  [owed[d] EXCEPT ![t] =
                      IF t \in topic_map[d] THEN @ \cup {sent'} ELSE @]]
    /\ UNCHANGED <<alive, chanVars, subVars, gcVars, delivered, past>>

\* The rest of that handler: Sender::send.
SendBroadcast(c) ==
    /\ publishing[c] # 0
    /\ log' = [log EXCEPT ![publishing[c]] =
                  IF Receivers(publishing[c]) = {} THEN @
                  ELSE Append(@, message[c])]
    /\ publishing' = [publishing EXCEPT ![c] = 0]
    /\ message' = [message EXCEPT ![c] = 0]
    /\ UNCHANGED <<alive, topics, created, subVars, sent, gcVars, history>>

\* The stream of topic t has something to say.
HasNext(c, t) == sub[c][t] # 0 /\ next[c][t] <= Len(log[sub[c][t]])

Advance_Stays(c, t) == next[c][t]

\* The position after one message was received.
Advance(c, t) == next[c][t] + 1

\* The subscription's stream yields the next message.
Receive(c, t) ==
    /\ Idle(c) /\ HasNext(c, t)
    /\ next[c][t] >= Oldest(sub[c][t])
    /\ delivered' = [delivered EXCEPT ![c][t] =
                        Append(@, log[sub[c][t]][next[c][t]])]
    /\ next' = [next EXCEPT ![c][t] = Advance(c, t)]
    /\ UNCHANGED <<alive, chanVars, topic_map, sub, pubVars, gcVars,
                   owed, past>>

SkipTo_Newest(ch) == Len(log[ch]) + 1

\* The position a lagging receiver continues from.
SkipTo(ch) == Oldest(ch)

\* The stream yields Lagged: the messages in between are skipped.
Lagged(c, t) ==
    /\ Idle(c) /\ HasNext(c, t)
    /\ next[c][t] < Oldest(sub[c][t])
    /\ next' = [next EXCEPT ![c][t] = SkipTo(sub[c][t])]
    /\ UNCHANGED <<alive, chanVars, topic_map, sub, pubVars, gcVars, history>>

\* No sender is left, neither in the router nor with a publisher, and all is
\* read: the stream ends.  Its topic_map entry stays.
StreamEnds(c, t) ==
    /\ Idle(c)
    /\ sub[c][t] # 0
    /\ ~HasNext(c, t)
    /\ \A u \in Topic : topics[u] # sub[c][t]
    /\ \A p \in Conn : publishing[p] # sub[c][t]
    /\ sub' = [sub EXCEPT ![c][t] = 0]
    /\ UNCHANGED <<alive, chanVars, topic_map, next, pubVars, gcVars, history>>

\* The connection ends, its subscriptions with it.
Stop(c) ==
    /\ Idle(c)
    /\ alive' = alive \ {c}
    /\ topic_map' = [topic_map EXCEPT ![c] = {}]
    /\ sub' = [sub EXCEPT ![c] = [t \in Topic |-> 0]]
    /\ owed' = [owed EXCEPT ![c] = [t \in Topic |-> {}]]
    /\ UNCHANGED <<chanVars, next, pubVars, gcVars, delivered, past>>

\* The topics without a receiver.
EmptyTopics == {t \in Topic : topics[t] # 0 /\ Receivers(topics[t]) = {}}

\* router_gc_worker, under the read lock.
GcCollect ==
    /\ GcScan
    /\ ~gc_running
    /\ EmptyTopics # {}
    /\ gc_running' = TRUE
    /\ empty_topics' = EmptyTopics
    /\ UNCHANGED <<alive, chanVars, subVars, pubVars, history>>

\* router_gc_worker, under the write lock: what was empty is removed.
GcRemove ==
    /\ gc_running
    /\ topics' = [t \in Topic |-> IF t \in empty_topics THEN 0 ELSE topics[t]]
    /\ gc_running' = FALSE
    /\ empty_topics' = {}
    /\ UNCHANGED <<alive, created, log, subVars, pubVars, history>>

Next ==
    \/ \E c \in Conn :
           \/ SendBroadcast(c)
           \/ Stop(c)
           \/ \E t \in Topic :
                 \/ SubscribeNew(c, t)
                 \/ SubscribeExisting(c, t)
                 \/ Unsubscribe(c, t)
                 \/ FindTopic(c, t)
                 \/ Receive(c, t)
                 \/ Lagged(c, t)
                 \/ StreamEnds(c, t)
    \/ GcCollect
    \/ GcRemove

Spec == Init /\ [][Next]_vars

-----------------------------------------------------------------------------
(* Properties.                                                             *)

\* Channels, positions and messages stay within what was created.
TypeOK ==
    /\ alive \subseteq Conn
    /\ created \in 0 .. MaxChan
    /\ topics \in [Topic -> 0 .. created]
    /\ log \in [Chan -> Seq(Msg)]
    /\ topic_map \in [Conn -> SUBSET Topic]
    /\ sub \in [Conn -> [Topic -> 0 .. created]]
    /\ next \in [Conn -> [Topic -> Nat \ {0}]]
    /\ publishing \in [Conn -> 0 .. created]
    /\ message \in [Conn -> 0 .. MaxMsg]
    /\ sent \in 0 .. MaxMsg
    /\ gc_running \in BOOLEAN
    /\ empty_topics \subseteq Topic
    /\ delivered \in [Conn -> [Topic -> Seq(Msg)]]
    /\ owed \in [Conn -> [Topic -> SUBSET Msg]]
    /\ past \in [Conn -> [Topic -> SUBSET Msg]]

\* The log of the channel c's subscription to t listens to.
Log(c, t) == IF sub[c][t] = 0 THEN <<>> ELSE log[sub[c][t]]

\* The messages still ahead of c, and those Backlog newer ones overwrote.
Ahead(c, t) == {Log(c, t)[k] : k \in next[c][t] .. Len(Log(c, t))}

Overwritten(c, t) == {Log(c, t)[k] : k \in 1 .. (Len(Log(c, t)) - Backlog)}

\* Published while c was subscribed to t, and neither delivered, being sent,
\* still to be received nor overwritten by Backlog newer messages.
Missed(c, t) ==
    owed[c][t] \ (ToSet(delivered[c][t]) \cup {message[p] : p \in Conn}
                      \cup Ahead(c, t) \cup Overwritten(c, t))

\* README: "Subscribe to a broadcast topic in order to receive all messages
\* published for this topic".  No connection misses a message that was
\* published while it was subscribed, unless it lags by more than Backlog.
BroadcastReachesSubscribers ==
    \A c \in Conn, t \in Topic : Missed(c, t) = {}

\* The part of that promise that the collector leaves alone: a connection
\* whose stream listens to the channel the router has for the topic misses
\* nothing published since it subscribed, although publishers send without
\* the lock and topics are removed and created again under them.
BroadcastReachesAttached ==
    \A c \in Conn, t \in Topic :
        sub[c][t] # 0 /\ sub[c][t] = topics[t] => Missed(c, t) = {}

\* Two messages that two connections both got for a topic came in the same
\* order to both, and no connection gets a message twice, also when it
\* unsubscribes and subscribes again and when the topic's channel is
\* replaced.
SubscribersAgree ==
    \A c, d \in Conn, t \in Topic :
        \A j, k \in 1 .. Len(delivered[c][t]) :
            j < k =>
                /\ delivered[c][t][j] # delivered[c][t][k]
                /\ \A x, y \in 1 .. Len(delivered[d][t]) :
                      /\ delivered[d][t][x] = delivered[c][t][j]
                      /\ delivered[d][t][y] = delivered[c][t][k]
                      => x < y

\* README: "Unsubscribe from a broadcast topic. No longer receive messages".
\* A connection is given a broadcast only while it is subscribed, and only
\* one that was sent after it subscribed, also if it left and came back.
OnlyWhileSubscribed ==
    [][\A c \in Conn, t \in Topic :
          delivered'[c][t] # delivered[c][t] =>
              /\ t \in topic_map[c]
              /\ Last(delivered'[c][t]) \notin past[c][t]]_vars

=============================================================================
