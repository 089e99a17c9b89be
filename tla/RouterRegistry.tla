-------------------------- MODULE RouterRegistry --------------------------
(***************************************************************************)
(* The router's registry of instances and services, and the life cycle of  *)
(* the connection actors that share it: router.rs (struct Router) and the  *)
(* Hello, Register, Unregister, DropConnection and cleanup parts of        *)
(* connection.rs.                                                          *)
(*                                                                         *)
(* Connection actors run on several worker threads.  An action is what one *)
(* actor does between two points where another thread can be seen: a       *)
(* section under the router's lock together with the changes to the        *)
(* actor's own fields around it.                                           *)
(*                                                                         *)
(* The actor framework is external and modelled from its use: a handler    *)
(* runs to completion; after ctx.stop() no further handler or stream item  *)
(* runs, stopped() is called later, and then the mailbox is dropped, which *)
(* answers every message still in it with MailboxError::Closed, and so are *)
(* the actor's futures.  Dropping the future of Addr::send cancels the     *)
(* message: if it was not handled yet it never is.                         *)
(*                                                                         *)
(* Left out: message bodies, reply codes, the topics and the calls (they   *)
(* have modules of their own), the read-only status queries of the REST    *)
(* interface.                                                              *)
(***************************************************************************)
EXTENDS Integers, FiniteSets

CONSTANTS
    Conn,        \* connections the router accepts, one per socket
    Instance,    \* instance ids clients send in Hello
    Service,     \* service names
    NodeId,      \* node ids
    None,        \* absent value
    NodeOf,      \* parse_node_id: the node id in a service name, or None
    HelloFirst   \* TRUE: clients send Hello before they register anything

ASSUME NoneAssumption ==
    /\ None \notin Conn
    /\ None \notin Instance
    /\ None \notin NodeId

ASSUME NodeOfAssumption == NodeOf \in [Service -> NodeId \cup {None}]

ASSUME HelloFirstAssumption == HelloFirst \in BOOLEAN

VARIABLES
    conn_state,            \* phase of each connection actor
    instance_id,           \* Connection.instance_id
    services,              \* Connection.services
    default_id,            \* Connection.default_id
    announcing,            \* registration done, NodeEvent::New not sent yet
    hello,                 \* progress of the future new_connection returns
    predecessor,           \* the connection that future asks to drop
    drop_request,          \* connections with DropConnection in the mailbox,
                           \* not cancelled
    registered_instances,  \* Router.registered_instances
    registered_endpoints,  \* Router.registered_endpoints
    node_balance           \* New minus Lost events sent, per node id

connVars == <<conn_state, instance_id, services, default_id, announcing>>
helloVars == <<hello, predecessor, drop_request>>
routerVars == <<registered_instances, registered_endpoints, node_balance>>
vars == <<connVars, helloVars, routerVars>>

\* "stopping": ctx.stop() was called, cleanup is still to come; "dropped":
\* the handler of DropConnection did both.
ConnState == {"unborn", "running", "stopping", "dropped", "stopped"}
HelloState == {"none", "waiting", "done", "timed_out"}

Init ==
    /\ conn_state = [c \in Conn |-> "unborn"]
    /\ instance_id = [c \in Conn |-> None]
    /\ services = [c \in Conn |-> {}]
    /\ default_id = [c \in Conn |-> None]
    /\ announcing = [c \in Conn |-> FALSE]
    /\ hello = [c \in Conn |-> "none"]
    /\ predecessor = [c \in Conn |-> None]
    /\ drop_request = {}
    /\ registered_instances = [i \in Instance |-> None]
    /\ registered_endpoints = [s \in Service |-> None]
    /\ node_balance = [n \in NodeId |-> 0]

-----------------------------------------------------------------------------
(* Helpers.                                                                *)

\* Addr::connected(): the mailbox of the actor still exists.
Connected(c) == conn_state[c] \in {"running", "stopping", "dropped"}

\* The connection is there and has not been cleaned up.
Present(c) == conn_state[c] \in {"running", "stopping"}

\* The connection has been cleaned up.
Gone(c) == conn_state[c] \in {"dropped", "stopped"}

\* The actor is between two handlers.
Idle(c) == conn_state[c] = "running" /\ ~announcing[c]

\* The input stream takes its next message only once the future of the
\* previous one is finished; only Hello leaves such a future behind here.
Reading(c) == Idle(c) /\ hello[c] # "waiting"

CanRegister_Always(s, c) == TRUE

\* Router::register_service succeeds: an occupied name is put back.
CanRegister(s, c) == registered_endpoints[s] = None

\* Router::unregister_service succeeds: the name is the caller's own or its
\* owner is gone.
CanUnregister(s, c) ==
    /\ registered_endpoints[s] # None
    /\ registered_endpoints[s] = c \/ ~Connected(registered_endpoints[s])

RemoveConnection_Unchecked(c) ==
    [i \in Instance |->
        IF i = instance_id[c] THEN None ELSE registered_instances[i]]

\* Router::remove_connection: a newer connection of the instance stays.
RemoveConnection(c) ==
    [i \in Instance |->
        IF i = instance_id[c] /\ registered_instances[i] = c
        THEN None
        ELSE registered_instances[i]]

UnregisterAll_Kept(c) == registered_endpoints

\* The unregister_service calls of cleanup, one for each entry of services.
UnregisterAll(c) ==
    [s \in Service |->
        IF s \in services[c] /\ CanUnregister(s, c)
        THEN None
        ELSE registered_endpoints[s]]

\* The NodeEvent::New of a registration.
NodeNew(c) ==
    [n \in NodeId |->
        IF n = default_id[c] THEN node_balance[n] + 1 ELSE node_balance[n]]

NodeLost_Silent(c) == node_balance

\* The NodeEvent::Lost of cleanup.
NodeLost(c) ==
    [n \in NodeId |->
        IF n = default_id[c] THEN node_balance[n] - 1 ELSE node_balance[n]]

\* Connection::cleanup: everything under one write lock, and nothing at all
\* for a connection that never said Hello.
Cleanup(c) ==
    \/ /\ instance_id[c] = None
       /\ UNCHANGED <<instance_id, services, routerVars>>
    \/ /\ instance_id[c] # None
       /\ registered_endpoints' = UnregisterAll(c)
       /\ registered_instances' = RemoveConnection(c)
       /\ node_balance' = NodeLost(c)
       /\ services' = [services EXCEPT ![c] = {}]
       /\ instance_id' = [instance_id EXCEPT ![c] = None]

-----------------------------------------------------------------------------
(* Actions.                                                                *)

\* The server accepts a socket and creates the actor.
Accept(c) ==
    /\ conn_state[c] = "unborn"
    /\ conn_state' = [conn_state EXCEPT ![c] = "running"]
    /\ UNCHANGED <<instance_id, services, default_id, announcing,
                   helloVars, routerVars>>

\* The mailboxes after new_connection sent DropConnection to the entry it
\* replaced.
Superseded(old) == IF old = None THEN drop_request ELSE drop_request \cup {old}

\* The first Hello: new_connection replaces the instance's entry and its
\* future waits until the replaced connection answered DropConnection.
Hello(c, i) ==
    LET old == registered_instances[i] IN
    /\ Reading(c)
    /\ instance_id[c] = None
    /\ instance_id' = [instance_id EXCEPT ![c] = i]
    /\ registered_instances' = [registered_instances EXCEPT ![i] = c]
    /\ predecessor' = [predecessor EXCEPT ![c] = old]
    /\ drop_request' = Superseded(old)
    /\ hello' = [hello EXCEPT ![c] = IF old = None THEN "done" ELSE "waiting"]
    /\ UNCHANGED <<conn_state, services, default_id, announcing,
                   registered_endpoints, node_balance>>

\* A second Hello stops the connection.
DuplicateHello(c) ==
    /\ Reading(c)
    /\ instance_id[c] # None
    /\ conn_state' = [conn_state EXCEPT ![c] = "stopping"]
    /\ UNCHANGED <<instance_id, services, default_id, announcing,
                   helloVars, routerVars>>

\* The replaced connection answered (or its mailbox is closed): the input
\* stream goes on.
DropAnswered(c) ==
    /\ Idle(c)
    /\ hello[c] = "waiting"
    /\ predecessor[c] \notin drop_request
    /\ hello' = [hello EXCEPT ![c] = "done"]
    /\ UNCHANGED <<connVars, predecessor, drop_request, routerVars>>

\* The DropConnection that goes with the future c's Hello left behind.
Abandoned(c) == IF hello[c] = "waiting" THEN {predecessor[c]} ELSE {}

\* The replaced connection did not answer within 10 s.  The future ends, its
\* DropConnection is cancelled.
DropTimeout(c) ==
    /\ Idle(c)
    /\ hello[c] = "waiting"
    /\ predecessor[c] \in drop_request
    /\ hello' = [hello EXCEPT ![c] = "timed_out"]
    /\ drop_request' = drop_request \ Abandoned(c)
    /\ UNCHANGED <<connVars, predecessor, routerVars>>

HandleDrop_StopOnly(c) ==
    /\ Idle(c)
    /\ c \in drop_request
    /\ drop_request' = drop_request \ {c}
    /\ conn_state' = [conn_state EXCEPT ![c] = "stopping"]
    /\ UNCHANGED <<instance_id, services, default_id, announcing,
                   hello, predecessor, routerVars>>

\* Handler<DropConnection>: clean up, stop, answer.
HandleDrop(c) ==
    /\ Idle(c)
    /\ c \in drop_request
    /\ Cleanup(c)
    /\ drop_request' = drop_request \ {c}
    /\ conn_state' = [conn_state EXCEPT ![c] = "dropped"]
    /\ UNCHANGED <<default_id, announcing, hello, predecessor>>

\* A well-behaved client registers only after its Hello.
MayRegister(c) == Reading(c) /\ (HelloFirst => instance_id[c] # None)

\* default_id after s was registered: set once, by the first service name
\* with a node id in it.
DefaultId(c, s) == IF default_id[c] = None THEN NodeOf[s] ELSE default_id[c]

\* RegisterRequest for a free name, up to the end of the write lock.
Register(c, s) ==
    /\ MayRegister(c)
    /\ CanRegister(s, c)
    /\ registered_endpoints' = [registered_endpoints EXCEPT ![s] = c]
    /\ services' = [services EXCEPT ![c] = @ \cup {s}]
    /\ default_id' = [default_id EXCEPT ![c] = DefaultId(c, s)]
    /\ announcing' =
           [announcing EXCEPT ![c] = default_id[c] = None /\ NodeOf[s] # None]
    /\ UNCHANGED <<conn_state, instance_id, helloVars,
                   registered_instances, node_balance>>

\* The rest of that handler: NodeEvent::New, under a read lock of its own.
AnnounceNode(c) ==
    /\ announcing[c]
    /\ announcing' = [announcing EXCEPT ![c] = FALSE]
    /\ node_balance' = NodeNew(c)
    /\ UNCHANGED <<conn_state, instance_id, services, default_id, helloVars,
                   registered_instances, registered_endpoints>>

\* Connection.services after s was unregistered.
ForgetService(c, s) == services[c] \ {s}

\* UnregisterRequest for a name the connection may unregister.
Unregister(c, s) ==
    /\ Reading(c)
    /\ CanUnregister(s, c)
    /\ registered_endpoints' = [registered_endpoints EXCEPT ![s] = None]
    /\ services' = [services EXCEPT ![c] = ForgetService(c, s)]
    /\ UNCHANGED <<conn_state, instance_id, default_id, announcing,
                   helloVars, registered_instances, node_balance>>

\* ctx.stop() for any other reason: end of the input, a protocol error, an
\* unexpected message, a failed write, a ping timeout.
Stop(c) ==
    /\ Idle(c)
    /\ conn_state' = [conn_state EXCEPT ![c] = "stopping"]
    /\ UNCHANGED <<instance_id, services, default_id, announcing,
                   helloVars, routerVars>>

CloseMailbox_Kept(c) == drop_request \ Abandoned(c)

\* Dropping the mailbox answers the DropConnection that may be in it, and
\* dropping the futures cancels the one c's own Hello may have sent.
CloseMailbox(c) == drop_request \ ({c} \cup Abandoned(c))

\* Actor::stopped, and the end of the mailbox and the futures.
Stopped(c) ==
    /\ conn_state[c] \in {"stopping", "dropped"}
    /\ Cleanup(c)
    /\ conn_state' = [conn_state EXCEPT ![c] = "stopped"]
    /\ drop_request' = CloseMailbox(c)
    /\ UNCHANGED <<default_id, announcing, hello, predecessor>>

Next ==
    \E c \in Conn :
        \/ Accept(c)
        \/ DuplicateHello(c)
        \/ DropAnswered(c)
        \/ DropTimeout(c)
        \/ HandleDrop(c)
        \/ AnnounceNode(c)
        \/ Stop(c)
        \/ Stopped(c)
        \/ \E i \in Instance : Hello(c, i)
        \/ \E s \in Service : Register(c, s) \/ Unregister(c, s)

Spec == Init /\ [][Next]_vars

\* A worker thread keeps running its actors: a handler under way is
\* finished, a message in the mailbox of a running actor is handled, a
\* stopping actor is stopped and a future that is ready is polled.  Nothing
\* is assumed of clients, and the 10 s timeout need never fire.
Fairness ==
    \A c \in Conn :
        /\ WF_vars(HandleDrop(c))
        /\ WF_vars(Stopped(c))
        /\ WF_vars(DropAnswered(c))
        /\ WF_vars(AnnounceNode(c))

FairSpec == Spec /\ Fairness

-----------------------------------------------------------------------------
(* Properties.                                                             *)

\* The fields of the router and of its connections keep their types.
TypeOK ==
    /\ conn_state \in [Conn -> ConnState]
    /\ instance_id \in [Conn -> Instance \cup {None}]
    /\ services \in [Conn -> SUBSET Service]
    /\ default_id \in [Conn -> NodeId \cup {None}]
    /\ announcing \in [Conn -> BOOLEAN]
    /\ hello \in [Conn -> HelloState]
    /\ predecessor \in [Conn -> Conn \cup {None}]
    /\ drop_request \subseteq Conn
    /\ registered_instances \in [Instance -> Conn \cup {None}]
    /\ registered_endpoints \in [Service -> Conn \cup {None}]
    /\ node_balance \in [NodeId -> Int]

\* A connection's own list of services, which cleanup walks, and the shared
\* endpoint table, which calls are routed by, always agree: no service is in
\* the table that its owner would forget to remove.
EndpointsMatchServices ==
    \A s \in Service, c \in Conn :
        registered_endpoints[s] = c <=> s \in services[c]

\* README: "When a client is disconnected all registered services and
\* broadcast subscriptions are removed".  Once a connection is gone no
\* service and no instance points to it.
NoStaleRegistration ==
    /\ \A s \in Service :
           registered_endpoints[s] # None => Connected(registered_endpoints[s])
    /\ \A i \in Instance :
           registered_instances[i] # None => Connected(registered_instances[i])

\* The connection that replaced c no longer asks it to drop: it waited for
\* 10 s, or is itself gone.
GivenUpOn(c) ==
    \E d \in Conn :
        /\ predecessor[d] = c
        /\ hello[d] = "timed_out" \/ conn_state[d] = "stopped"

\* Of the running connections that said Hello with one instance id all but
\* the registered one have been told to drop: two live connections of one
\* client instance are never both left alone, whatever the order in which
\* Hellos, drops and cleanups of several connections meet, unless the newer
\* one gave up waiting or went away first.
SupersededIsDoomed ==
    \A c \in Conn :
        /\ conn_state[c] = "running"
        /\ instance_id[c] # None
        /\ registered_instances[instance_id[c]] # c
        => c \in drop_request \/ GivenUpOn(c)

\* A Hello that was answered before its timeout found a clean slate: the
\* connection it replaced is gone and owns nothing, so the client's
\* registrations that follow cannot conflict with its own previous
\* connection.
ReconnectIsClean ==
    \A c \in Conn :
        hello[c] = "done" /\ predecessor[c] # None =>
            /\ Gone(predecessor[c])
            /\ services[predecessor[c]] = {}
            /\ \A s \in Service : registered_endpoints[s] # predecessor[c]

\* Connections whose NodeEvent::New(n) was sent and that are still there.
LiveNodes(n) ==
    {c \in Conn : default_id[c] = n /\ ~announcing[c] /\ Present(c)}

\* The node events add up: New minus Lost of a node id is the number of
\* connections that carry it, so an observer of the event stream sees
\* exactly one Lost for every New it saw.
NodeEventBalance ==
    \A n \in NodeId : node_balance[n] = Cardinality(LiveNodes(n))

\* A name with a live owner changes only by that owner's doing, and it
\* becomes free: no other connection can take it over or unregister it.
LiveOwnerNotEvicted ==
    [][\A s \in Service, c \in Conn :
          registered_endpoints[s] = c /\ Connected(c)
              /\ registered_endpoints'[s] # c =>
          /\ registered_endpoints'[s] = None
          /\ s \in services[c] /\ s \notin services'[c]]_vars

\* A Hello never blocks its connection's input for good, even if the 10 s
\* timeout did not exist: chains of reconnects cannot wait for one another.
HelloResolves ==
    \A c \in Conn :
        hello[c] = "waiting" ~>
            (hello[c] # "waiting" \/ conn_state[c] = "stopped")

(* What the invariants above rest on, for clients that say Hello first.    *)

\* An instance's entry is the connection that said Hello with that id.
InstancesMatchIds ==
    \A i \in Instance, c \in Conn :
        registered_instances[i] = c => instance_id[c] = i

\* Only a connection that is there and said Hello holds anything that
\* cleanup must give back.
OnlyLiveHold ==
    \A c \in Conn :
        /\ instance_id[c] # None => Present(c)
        /\ services[c] # {} => instance_id[c] # None
        /\ announcing[c] => conn_state[c] = "running" /\ instance_id[c] # None

\* A DropConnection lies only in the mailbox of a connection with an id.
DropsReachLive == \A c \in drop_request : instance_id[c] # None

\* A connection says Hello once, replaces at most one other and is replaced
\* by at most one, after which it is not registered any more.
OneSuccessor ==
    \A c \in Conn :
        /\ instance_id[c] # None => hello[c] # "none"
        /\ instance_id[c] = None /\ ~Gone(c) => hello[c] = "none"
        /\ predecessor[c] # None =>
              /\ hello[predecessor[c]] # "none"
              /\ \A i \in Instance : registered_instances[i] # predecessor[c]
              /\ \A d \in Conn : predecessor[d] = predecessor[c] => d = c

\* A Hello waits for a connection that still has its DropConnection or is
\* gone, and one that was answered waited for a connection that is gone.
WaitsForDrop ==
    \A c \in Conn :
        /\ hello[c] = "waiting" => predecessor[c] \in Conn
        /\ hello[c] = "waiting" /\ Connected(c) =>
              \/ predecessor[c] \in drop_request
              \/ Gone(predecessor[c])
        /\ hello[c] = "done" /\ predecessor[c] # None =>
              Gone(predecessor[c])

\* The inductive invariant: the table and the connections' lists agree, only
\* connections that are there hold anything, and every superseded connection
\* has its DropConnection, is gone or was given up, whatever order Hello,
\* DropConnection, cleanup and the end of connections come in.
RegistryInv ==
    /\ EndpointsMatchServices
    /\ InstancesMatchIds
    /\ OnlyLiveHold
    /\ SupersededIsDoomed
    /\ DropsReachLive
    /\ OneSuccessor
    /\ WaitsForDrop

\* A connection owns what the table says and leaves when it is cleaned up.
Ownership ==
    INSTANCE ServiceOwnership WITH
        owner <- registered_endpoints,
        joined <- {c \in Conn : conn_state[c] # "unborn"},
        left <- {c \in Conn : Gone(c)}

\* The registry implements the abstract specification of service ownership:
\* register_service, unregister_service and cleanup are its only steps.
OwnershipSpec == Ownership!Spec
=============================================================================
