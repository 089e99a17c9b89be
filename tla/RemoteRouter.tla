---------------------------- MODULE RemoteRouter ----------------------------
(***************************************************************************)
(* A process on the bus: the table of local handlers (Router in            *)
(* src/local_router.rs, behind a mutex), the RemoteRouter actor that keeps *)
(* one connection to the GSB router (src/remote_router.rs), and the calls  *)
(* and bindings that go through it.                                        *)
(*                                                                         *)
(* RemoteRouter dials, registers every local binding on the new connection *)
(* and is stopped, and restarted by its supervisor, when dialling fails or *)
(* takes too long, when a registration is refused and when the connection  *)
(* is lost.  A restart keeps the actor's fields but drops all its futures, *)
(* and with them every call that is on its way.                            *)
(*                                                                         *)
(* External: the connection delivers commands in order and answers each    *)
(* (ClientConnection); a new connection of the same instance replaces the  *)
(* registrations of the old one (RouterRegistry).  Left out: what calls    *)
(* carry, and prefix matching (PrefixLookup): an address is looked up as a *)
(* whole.                                                                  *)
(***************************************************************************)
EXTENDS Naturals, Sequences, FiniteSets, Functions

CONSTANTS
    Addr,         \* addresses of services of this process
    Foreign,      \* those that another client has registered
    Call,         \* calls made by this process
    CallTo,       \* CallTo[c]: the address called, in Addr or not
    LazyUnbind,   \* whether somebody may bind before an unbind is awaited
    MaxOps,       \* bound: binds and unbinds
    MaxFaults     \* bound: failed dials, timeouts, lost connections

ASSUME AddrAssumption ==
    /\ Foreign \subseteq Addr
    /\ DOMAIN CallTo = Call
    /\ LazyUnbind \in BOOLEAN
    /\ MaxOps \in Nat
    /\ MaxFaults \in Nat

VARIABLES
    handlers,        \* Router.handlers
    removing,        \* addresses an unbind future has still to report
    updates,         \* UpdateService messages in the actor's mailbox
    local_bindings,  \* RemoteRouter.local_bindings
    phase,           \* what the actor's futures are doing
    connection,      \* RemoteRouter.connection: none, a live or a dead one
    joining,         \* bindings registered by try_connect, not yet answered
    commands,        \* commands on their way to the router
    registered,      \* what the router has registered for this process
    call,            \* call[c]: where call c is
    shutdown,        \* ctrl-c
    ops, faults      \* bounded counters

local == <<handlers, removing, ops>>
remote == <<phase, connection, joining, commands, registered>>
vars == <<local, updates, local_bindings, remote, call, shutdown, faults>>

\* "dialing": connect_fut before the transport is there; "binding": it waits
\* for the registrations; "ready": it is done; "failed": ctx.stop() is
\* RECONNECT_DELAY away; "idle": started after ctrl-c, without connecting.
Phase == {"dialing", "binding", "ready", "failed", "idle"}

\* "waiting": in pending_calls; "granted": the future that hands it the
\* connection is spawned; "sent": on the connection.
CallState == {"idle", "mailbox", "waiting", "granted", "sent",
              "local", "answered", "closed"}

Init ==
    /\ handlers = {}
    /\ removing = {}
    /\ updates = <<>>
    /\ local_bindings = {}
    /\ phase = "dialing"
    /\ connection = "none"
    /\ joining = {}
    /\ commands = <<>>
    /\ registered = {}
    /\ call = [c \in Call |-> "idle"]
    /\ shutdown = FALSE
    /\ ops = 0
    /\ faults = 0

-----------------------------------------------------------------------------
(* local_router.rs: bind, unbind.  The caller holds the router's mutex.    *)

Counted == ops < MaxOps /\ ops' = ops + 1

MayBind(a) == LazyUnbind \/ a \notin removing

\* bind, bind_stream, bind_actor, bind_raw, ...: replace what is there.
Bind(a) ==
    /\ Counted
    /\ MayBind(a)
    /\ handlers' = handlers \cup {a}
    /\ updates' = Append(updates, [op |-> "add", addr |-> a])
    /\ UNCHANGED <<removing, local_bindings, remote, call, shutdown, faults>>

\* try_bind_raw: only when the address is free.
TryBindRaw(a) ==
    /\ a \notin handlers
    /\ Bind(a)

\* unbind removes the handlers below an address at once; its future, when
\* polled, tells RemoteRouter about one after the other.
Unbind(matching) ==
    /\ Counted
    /\ matching # {}
    /\ handlers' = handlers \ matching
    /\ removing' = removing \cup matching
    /\ UNCHANGED <<updates, local_bindings, remote, call, shutdown, faults>>

ReportRemoved(a) ==
    /\ a \in removing
    /\ removing' = removing \ {a}
    /\ updates' = Append(updates, [op |-> "remove", addr |-> a])
    /\ UNCHANGED <<handlers, ops, local_bindings, remote, call, shutdown, faults>>

UnbindExact_Silent(a) ==
    /\ Counted
    /\ a \in handlers
    /\ handlers' = handlers \ {a}
    /\ UNCHANGED <<removing, updates, local_bindings, remote, call, shutdown, faults>>

\* unbind_exact tells it under the mutex.
UnbindExact(a) ==
    /\ Counted
    /\ a \in handlers
    /\ handlers' = handlers \ {a}
    /\ updates' = Append(updates, [op |-> "remove", addr |-> a])
    /\ UNCHANGED <<removing, local_bindings, remote, call, shutdown, faults>>

-----------------------------------------------------------------------------
(* remote_router.rs: the actor's life.                                     *)

\* Calls whose futures run in the actor's context.
Dropped == {c \in Call : call[c] \in {"waiting", "granted", "sent"}}

\* The actor stops and its supervisor restarts it: restarting, started.
Restart ==
    /\ connection' = "none"
    /\ joining' = {}
    /\ commands' = <<>>
    /\ call' = [c \in Call |-> IF c \in Dropped THEN "closed" ELSE call[c]]
    /\ phase' = IF shutdown THEN "idle" ELSE "dialing"
    /\ UNCHANGED registered

Faulty == faults < MaxFaults /\ faults' = faults + 1

JoinSet_Nothing == {}

\* The services try_connect registers on a new connection.
JoinSet == local_bindings

\* The registrations of S, in some order: local_bindings is a hash set.
Joins(S) ==
    {[i \in DOMAIN f |-> [op |-> "join", addr |-> f[i]]] : f \in Bijection(1 .. Cardinality(S), S)}

Activated_Nobody == {}

\* The calls clean_pending_calls hands a connection to.
Activated == {c \in Call : call[c] = "waiting"}

\* try_connect: the transport is there.  Waiting calls get the connection
\* and all bindings are registered on it.  Registrations and the updates
\* that follow share one queue, which holds while no more of them wait than
\* fit into the mailbox of the connection's actor.
Connected ==
    /\ phase = "dialing"
    /\ connection' = "up"
    /\ call' = [c \in Call |-> IF c \in Activated THEN "granted" ELSE call[c]]
    /\ joining' = JoinSet
    /\ commands' \in Joins(JoinSet)
    /\ phase' = IF JoinSet = {} THEN "ready" ELSE "binding"
    /\ registered' = {}
    /\ UNCHANGED <<local, updates, local_bindings, shutdown, faults>>

\* try_connect: no transport; stop after RECONNECT_DELAY.
DialFails ==
    /\ phase = "dialing"
    /\ Faulty
    /\ phase' = "failed"
    /\ UNCHANGED <<local, updates, local_bindings, connection, joining, commands,
                   registered, call, shutdown>>

\* CONNECT_TIMEOUT.  clean_pending_calls only spawns the futures that would
\* tell the callers; ctx.stop() then drops these as well as the callers'.
ConnectTimeout ==
    /\ phase = "dialing"
    /\ connection = "none"
    /\ Faulty
    /\ Restart
    /\ UNCHANGED <<local, updates, local_bindings, shutdown>>

DelayElapsed_Idle ==
    /\ phase = "failed"
    /\ phase' = "idle"
    /\ UNCHANGED <<local, updates, local_bindings, connection, joining, commands,
                   registered, call, shutdown, faults>>

\* RECONNECT_DELAY is over: ctx.stop().
DelayElapsed ==
    /\ phase = "failed"
    /\ Restart
    /\ UNCHANGED <<local, updates, local_bindings, shutdown, faults>>

\* The connection's actor stops and reports it through on_disconnect; what
\* was sent on it fails.
ConnectionLost ==
    /\ connection = "up"
    /\ Faulty
    /\ connection' = "dead"
    /\ phase' = "failed"
    /\ joining' = {}
    /\ commands' = <<>>
    /\ registered' = {}
    /\ call' = [c \in Call |-> IF call[c] = "sent" THEN "closed" ELSE call[c]]
    /\ UNCHANGED <<local, updates, local_bindings, shutdown>>

CtrlC ==
    /\ ~shutdown
    /\ shutdown' = TRUE
    /\ UNCHANGED <<local, updates, local_bindings, remote, call, faults>>

Recorded_OnlyConnected(u) ==
    IF connection = "none" THEN local_bindings
    ELSE IF u.op = "add" THEN local_bindings \cup {u.addr}
    ELSE local_bindings \ {u.addr}

\* local_bindings after an update, connected or not.
Recorded(u) ==
    IF u.op = "add" THEN local_bindings \cup {u.addr} ELSE local_bindings \ {u.addr}

\* Handler<UpdateService>.
HandleUpdate ==
    /\ updates # <<>>
    /\ updates' = Tail(updates)
    /\ local_bindings' = Recorded(Head(updates))
    /\ commands' = IF connection = "up" THEN Append(commands, Head(updates)) ELSE commands
    /\ UNCHANGED <<local, phase, connection, joining, registered, call, shutdown, faults>>

-----------------------------------------------------------------------------
(* The GSB router (external): register refuses a name that is taken, by    *)
(* this client or by another.                                              *)

Free(a) == a \notin registered \cup Foreign

\* The answer to an update's command is only logged ...
UpdateAnswered ==
    /\ connection = "up"
    /\ commands # <<>>
    /\ Head(commands).op # "join"
    /\ registered' = IF Head(commands).op = "remove" THEN registered \ {Head(commands).addr}
                     ELSE registered \cup ({Head(commands).addr} \ Foreign)
    /\ commands' = Tail(commands)
    /\ UNCHANGED <<local, updates, local_bindings, phase, connection, joining, call,
                   shutdown, faults>>

\* ... those to try_connect are joined: all succeed or the first refusal
\* ends the future and the actor stops after RECONNECT_DELAY.  (Commands
\* behind a refusal may be cancelled or answered; the restart makes both
\* the same.)
JoinAnswered ==
    /\ connection = "up"
    /\ commands # <<>>
    /\ Head(commands).op = "join"
    /\ commands' = Tail(commands)
    /\ LET a == Head(commands).addr IN
       \/ /\ Free(a)
          /\ registered' = registered \cup {a}
          /\ joining' = joining \ {a}
          /\ phase' = IF phase = "binding" /\ joining' = {} THEN "ready" ELSE phase
       \/ /\ ~Free(a)
          /\ phase' = "failed"
          /\ UNCHANGED <<registered, joining>>
    /\ UNCHANGED <<local, updates, local_bindings, connection, call, shutdown, faults>>

-----------------------------------------------------------------------------
(* Calls: forward, push, streaming_forward and their raw forms.            *)

\* A handler in this process answers the call without the bus; otherwise it
\* goes into RemoteRouter's mailbox.
MakeCall(c) ==
    /\ call[c] = "idle"
    /\ call' = [call EXCEPT ![c] = IF CallTo[c] \in handlers THEN "local" ELSE "mailbox"]
    /\ UNCHANGED <<local, updates, local_bindings, remote, shutdown, faults>>

\* What becomes of a call that has a connection in hand.
OnConnection == IF connection = "up" THEN "sent" ELSE "closed"

\* Handler<RpcRawCall>, Handler<RpcRawStreamCall>: connection().
HandleCall(c) ==
    /\ call[c] = "mailbox"
    /\ call' = [call EXCEPT ![c] = IF connection = "none" THEN "waiting" ELSE OnConnection]
    /\ UNCHANGED <<local, updates, local_bindings, remote, shutdown, faults>>

\* The future clean_pending_calls spawned, then the call's own.
GrantedCall(c) ==
    /\ call[c] = "granted"
    /\ call' = [call EXCEPT ![c] = OnConnection]
    /\ UNCHANGED <<local, updates, local_bindings, remote, shutdown, faults>>

Answered(c) ==
    /\ call[c] = "sent"
    /\ connection = "up"
    /\ call' = [call EXCEPT ![c] = "answered"]
    /\ UNCHANGED <<local, updates, local_bindings, remote, shutdown, faults>>

-----------------------------------------------------------------------------

Next ==
    \/ \E a \in Addr : Bind(a) \/ TryBindRaw(a) \/ ReportRemoved(a) \/ UnbindExact(a)
    \/ \E matching \in SUBSET handlers : Unbind(matching)
    \/ Connected \/ DialFails \/ ConnectTimeout \/ DelayElapsed \/ ConnectionLost
    \/ CtrlC
    \/ HandleUpdate
    \/ UpdateAnswered
    \/ JoinAnswered
    \/ \E c \in Call : MakeCall(c) \/ HandleCall(c) \/ GrantedCall(c) \/ Answered(c)

Spec == Init /\ [][Next]_vars

\* The actor is polled, its timers fire, unbind futures are awaited, and
\* after the last fault dialling succeeds and the router answers.
FairSpec ==
    /\ Spec
    /\ \A a \in Addr : WF_vars(ReportRemoved(a))
    /\ WF_vars(Connected)
    /\ WF_vars(DelayElapsed)
    /\ WF_vars(HandleUpdate)
    /\ WF_vars(UpdateAnswered)
    /\ WF_vars(JoinAnswered)
    /\ \A c \in Call : /\ WF_vars(HandleCall(c))
                       /\ WF_vars(GrantedCall(c))
                       /\ WF_vars(Answered(c))

-----------------------------------------------------------------------------
(* Properties.                                                             *)

Update == [op : {"add", "remove"}, addr : Addr]

\* Every variable keeps its type; the actor dials only without a connection
\* and joins only what it has bound.
TypeOK ==
    /\ handlers \subseteq Addr
    /\ removing \subseteq Addr
    /\ updates \in Seq(Update)
    /\ local_bindings \subseteq Addr
    /\ phase \in Phase
    /\ connection \in {"none", "up", "dead"}
    /\ joining \subseteq Addr
    /\ commands \in Seq(Update \cup [op : {"join"}, addr : Addr])
    /\ registered \subseteq Addr
    /\ call \in [Call -> CallState]
    /\ shutdown \in BOOLEAN
    /\ ops \in 0 .. MaxOps
    /\ faults \in 0 .. MaxFaults
    /\ phase = "dialing" => connection = "none"
    /\ connection # "up" => commands = <<>>

\* Once every update is handled, RemoteRouter's bindings are the handlers
\* of the local router, whatever order bind and unbind came in.
BindingsFollowHandlers ==
    updates = <<>> /\ removing = {} => local_bindings = handlers

\* Once every command is answered on a live connection, the router has
\* registered what is bound, save names held by others, and nothing else,
\* whether a service was bound before, while or after the connection was
\* made or restored.
RouterFollowsBindings ==
    connection = "up" /\ phase # "failed" /\ commands = <<>> =>
        registered = local_bindings \ Foreign

\* A name that another client holds is bound here.
Refused == local_bindings \cap Foreign # {}

\* A bound service is registered at last, unless it is unbound or the
\* process shut down, whatever connections were lost in between.  A name
\* held by another client keeps it from being so: its refusal restarts the
\* actor again and again.
BoundIsRegistered ==
    \A a \in Addr \ Foreign :
        (a \in handlers) ~> (a \in registered \/ a \notin handlers \/ shutdown \/ Refused)

\* After the last fault the actor stays connected, under the same proviso.
ReconnectSettles == <>[](phase = "ready" \/ shutdown \/ Refused)

\* Every call resolves unless the process is shut down.
CallsResolve ==
    \A c \in Call : (call[c] = "mailbox") ~>
        (call[c] \in {"answered", "closed"} \/ shutdown)
=============================================================================
