----------------------- MODULE RouterRegistryProofs -----------------------
(***************************************************************************)
(* Proofs about RouterRegistry for any number of connections, instances    *)
(* and services.                                                           *)
(***************************************************************************)
EXTENDS RouterRegistry, FiniteSetTheorems, TLAPS

-----------------------------------------------------------------------------
(* Typing.                                                                 *)

\* The router's tables and the connections' fields keep their types whatever
\* clients send, with or without Hello.
THEOREM TypeCorrect == Spec => []TypeOK
<1> USE NoneAssumption, NodeOfAssumption
<1>1. Init => TypeOK
  BY DEF Init, TypeOK, ConnState, HelloState
<1>2. TypeOK /\ [Next]_vars => TypeOK'
  <2> SUFFICES ASSUME TypeOK, [Next]_vars PROVE TypeOK'
    OBVIOUS
  <2> USE DEF TypeOK, ConnState, HelloState
  <2>1. ASSUME NEW c \in Conn, Accept(c) PROVE TypeOK'
    BY <2>1 DEF Accept, helloVars, routerVars
  <2>2. ASSUME NEW c \in Conn, DuplicateHello(c) PROVE TypeOK'
    BY <2>2 DEF DuplicateHello, helloVars, routerVars
  <2>3. ASSUME NEW c \in Conn, DropAnswered(c) PROVE TypeOK'
    BY <2>3 DEF DropAnswered, connVars, routerVars
  <2>4. ASSUME NEW c \in Conn, DropTimeout(c) PROVE TypeOK'
    BY <2>4 DEF DropTimeout, Abandoned, connVars, routerVars
  <2>5. ASSUME NEW c \in Conn, Cleanup(c)
        PROVE  /\ instance_id' \in [Conn -> Instance \cup {None}]
               /\ services' \in [Conn -> SUBSET Service]
               /\ registered_instances' \in [Instance -> Conn \cup {None}]
               /\ registered_endpoints' \in [Service -> Conn \cup {None}]
               /\ node_balance' \in [NodeId -> Int]
    BY <2>5 DEF Cleanup, UnregisterAll, RemoveConnection, NodeLost, routerVars
  <2>6. ASSUME NEW c \in Conn, HandleDrop(c) PROVE TypeOK'
    BY <2>5, <2>6 DEF HandleDrop
  <2>7. ASSUME NEW c \in Conn, AnnounceNode(c) PROVE TypeOK'
    BY <2>7 DEF AnnounceNode, NodeNew, helloVars
  <2>8. ASSUME NEW c \in Conn, Stop(c) PROVE TypeOK'
    BY <2>8 DEF Stop, helloVars, routerVars
  <2>9. ASSUME NEW c \in Conn, Stopped(c) PROVE TypeOK'
    BY <2>5, <2>9 DEF Stopped, CloseMailbox, Abandoned
  <2>10. ASSUME NEW c \in Conn, NEW i \in Instance, Hello(c, i) PROVE TypeOK'
    BY <2>10 DEF Hello, Superseded
  <2>11. ASSUME NEW c \in Conn, NEW s \in Service, Register(c, s)
         PROVE  TypeOK'
    BY <2>11 DEF Register, DefaultId, helloVars
  <2>12. ASSUME NEW c \in Conn, NEW s \in Service, Unregister(c, s)
         PROVE  TypeOK'
    BY <2>12 DEF Unregister, ForgetService, helloVars
  <2>13. ASSUME UNCHANGED vars PROVE TypeOK'
    BY <2>13 DEF vars, connVars, helloVars, routerVars
  <2> QED
    BY <2>1, <2>2, <2>3, <2>4, <2>6, <2>7, <2>8, <2>9, <2>10, <2>11, <2>12,
       <2>13 DEF Next
<1> QED
  BY <1>1, <1>2, PTL DEF Spec

-----------------------------------------------------------------------------
(* The inductive invariant, for clients that say Hello first.              *)

\* Under the invariant, what a connection cleans up is exactly what it owns.
LEMMA CleanupOwned ==
    ASSUME TypeOK, RegistryInv, NEW c \in Conn, instance_id[c] # None
    PROVE  UnregisterAll(c) =
               [s \in Service |->
                   IF registered_endpoints[s] = c
                   THEN None ELSE registered_endpoints[s]]
<1>1. ASSUME NEW s \in Service
      PROVE  (s \in services[c] /\ CanUnregister(s, c))
                 <=> registered_endpoints[s] = c
  BY <1>1, NoneAssumption DEF RegistryInv, EndpointsMatchServices, CanUnregister
<1> QED
  BY <1>1, Zenon DEF UnregisterAll

\* A connection that ran cleanup holds nothing, and the others are not
\* disturbed.
LEMMA CleanupEffect ==
    ASSUME TypeOK, RegistryInv, NEW c \in Conn, Cleanup(c)
    PROVE  /\ instance_id' = [instance_id EXCEPT ![c] = None]
           /\ services' = [services EXCEPT ![c] = {}]
           /\ registered_endpoints' =
                  [s \in Service |->
                      IF registered_endpoints[s] = c
                      THEN None ELSE registered_endpoints[s]]
           /\ registered_instances' =
                  [i \in Instance |->
                      IF registered_instances[i] = c
                      THEN None ELSE registered_instances[i]]
<1> USE NoneAssumption
<1>1. CASE instance_id[c] = None
  <2>1. UNCHANGED <<instance_id, services, registered_endpoints,
                    registered_instances>>
    BY <1>1 DEF Cleanup, routerVars
  <2>2. services[c] = {}
    BY <1>1 DEF RegistryInv, OnlyLiveHold
  <2>3. \A s \in Service : registered_endpoints[s] # c
    BY <2>2 DEF RegistryInv, EndpointsMatchServices
  <2>4. \A i \in Instance : registered_instances[i] # c
    BY <1>1 DEF RegistryInv, InstancesMatchIds
  <2> QED
    BY <1>1, <2>1, <2>2, <2>3, <2>4 DEF TypeOK
<1>2. CASE instance_id[c] # None
  <2>1. registered_instances' =
            [i \in Instance |->
                IF registered_instances[i] = c
                THEN None ELSE registered_instances[i]]
    <3>1. ASSUME NEW i \in Instance
          PROVE  (i = instance_id[c] /\ registered_instances[i] = c)
                     <=> registered_instances[i] = c
      BY DEF RegistryInv, InstancesMatchIds
    <3> QED
      BY <1>2, <3>1 DEF Cleanup, RemoveConnection
  <2> QED
    BY <1>2, <2>1, CleanupOwned DEF Cleanup
<1> QED
  BY <1>1, <1>2

\* A connection that cleans up (the handler of DropConnection, or stopped(),
\* which also ends its mailbox and its futures) leaves the invariant intact.
LEMMA LeavePreserves ==
    ASSUME TypeOK, RegistryInv, NEW c \in Conn, Connected(c), ~announcing[c],
           Cleanup(c),
           \/ /\ conn_state' = [conn_state EXCEPT ![c] = "dropped"]
              /\ drop_request' = drop_request \ {c}
           \/ /\ conn_state' = [conn_state EXCEPT ![c] = "stopped"]
              /\ drop_request' = drop_request \ ({c} \cup Abandoned(c)),
           UNCHANGED <<default_id, announcing, hello, predecessor>>
    PROVE  RegistryInv'
<1> USE NoneAssumption, CleanupEffect DEF TypeOK, RegistryInv
<1>1. EndpointsMatchServices'
  BY DEF EndpointsMatchServices
<1>2. InstancesMatchIds'
  BY DEF InstancesMatchIds
<1>3. OnlyLiveHold'
  BY DEF OnlyLiveHold, Present
<1>4. SupersededIsDoomed'
  <2> SUFFICES ASSUME NEW x \in Conn, conn_state'[x] = "running",
                      instance_id'[x] # None,
                      registered_instances'[instance_id'[x]] # x,
                      x \notin drop_request'
               PROVE  GivenUpOn(x)'
    BY DEF SupersededIsDoomed
  <2>1. x # c /\ conn_state[x] = "running" /\ instance_id[x] = instance_id'[x]
    OBVIOUS
  <2>2. registered_instances[instance_id[x]] # x
    BY <2>1
  <2>3. CASE x \in drop_request
    BY <2>1, <2>3 DEF GivenUpOn, Abandoned
  <2>4. CASE GivenUpOn(x)
    BY <2>4 DEF GivenUpOn, Connected
  <2> QED
    BY <2>1, <2>2, <2>3, <2>4 DEF SupersededIsDoomed
<1>5. DropsReachLive'
  BY DEF DropsReachLive, Abandoned
<1>6. OneSuccessor'
  BY DEF OneSuccessor, Gone
<1>7. WaitsForDrop'
  BY DEF WaitsForDrop, OneSuccessor, Gone, Connected, Abandoned
<1> QED
  BY <1>1, <1>2, <1>3, <1>4, <1>5, <1>6, <1>7

\* Hello keeps the invariant: the connection it replaces becomes doomed, the
\* new one is registered.
LEMMA HelloPreserves ==
    ASSUME TypeOK, RegistryInv, NEW c \in Conn, NEW i \in Instance, Hello(c, i)
    PROVE  RegistryInv'
<1> USE NoneAssumption DEF TypeOK, RegistryInv, Hello
<1>1. registered_instances[i] # c
  BY DEF InstancesMatchIds
<1>2. registered_instances[i] # None =>
          /\ registered_instances[i] \in Conn
          /\ instance_id[registered_instances[i]] = i
  BY DEF InstancesMatchIds
<1>3. EndpointsMatchServices'
  BY DEF EndpointsMatchServices
<1>4. InstancesMatchIds'
  BY DEF InstancesMatchIds
<1>5. OnlyLiveHold'
  BY DEF OnlyLiveHold, Present, Reading, Idle
<1>6. SupersededIsDoomed'
  BY <1>1, <1>2 DEF SupersededIsDoomed, InstancesMatchIds, Superseded, GivenUpOn,
     OneSuccessor, Reading, Idle, Gone
<1>7. DropsReachLive'
  BY <1>1, <1>2 DEF DropsReachLive, Superseded
<1>8. hello[c] = "none" /\ ~Gone(c)
  BY DEF OneSuccessor, Reading, Idle, Gone
<1>9. OneSuccessor'
  BY <1>1, <1>2, <1>8 DEF OneSuccessor, InstancesMatchIds, Gone
<1>10. WaitsForDrop'
  BY <1>1, <1>2, <1>8 DEF WaitsForDrop, Superseded, Gone, Connected
<1> QED
  BY <1>3, <1>4, <1>5, <1>6, <1>7, <1>9, <1>10

\* Every step of the router keeps the invariant.
LEMMA NextPreserves ==
    ASSUME HelloFirst, TypeOK, RegistryInv, [Next]_vars
    PROVE  RegistryInv'
<1> USE NoneAssumption DEF TypeOK, RegistryInv
<1>1. ASSUME NEW c \in Conn, Accept(c) PROVE RegistryInv'
  BY <1>1 DEF Accept, EndpointsMatchServices, InstancesMatchIds, OnlyLiveHold,
     SupersededIsDoomed, GivenUpOn, DropsReachLive, OneSuccessor, WaitsForDrop,
     Connected, Present, Gone, helloVars, routerVars
<1>2. ASSUME NEW c \in Conn, Stop(c) \/ DuplicateHello(c) PROVE RegistryInv'
  BY <1>2 DEF Stop, DuplicateHello, EndpointsMatchServices, InstancesMatchIds,
     OnlyLiveHold, SupersededIsDoomed, GivenUpOn, DropsReachLive, OneSuccessor,
     WaitsForDrop, Connected, Present, Gone, Reading, Idle, helloVars, routerVars
<1>3. ASSUME NEW c \in Conn, DropAnswered(c) PROVE RegistryInv'
  BY <1>3 DEF DropAnswered, EndpointsMatchServices, InstancesMatchIds,
     OnlyLiveHold, SupersededIsDoomed, GivenUpOn, DropsReachLive, OneSuccessor,
     WaitsForDrop, Connected, Present, Gone, Idle, connVars, routerVars
<1>4. ASSUME NEW c \in Conn, DropTimeout(c) PROVE RegistryInv'
  <2> USE <1>4 DEF DropTimeout, Abandoned, connVars, routerVars
  <2>1. (EndpointsMatchServices /\ InstancesMatchIds /\ OnlyLiveHold)'
    BY DEF EndpointsMatchServices, InstancesMatchIds, OnlyLiveHold, Present
  <2>2. SupersededIsDoomed'
    BY DEF SupersededIsDoomed, GivenUpOn
  <2>3. DropsReachLive' /\ OneSuccessor'
    BY DEF DropsReachLive, OneSuccessor, Gone
  <2>4. WaitsForDrop'
    BY DEF WaitsForDrop, OneSuccessor, Gone, Connected
  <2> QED
    BY <2>1, <2>2, <2>3, <2>4
<1>5. ASSUME NEW c \in Conn, HandleDrop(c) PROVE RegistryInv'
  BY <1>5, LeavePreserves DEF HandleDrop, Idle, Connected
<1>6. ASSUME NEW c \in Conn, Stopped(c) PROVE RegistryInv'
  <2>1. ~announcing[c] /\ Connected(c)
    BY <1>6 DEF Stopped, OnlyLiveHold, Connected
  <2> QED
    BY <1>6, <2>1, LeavePreserves DEF Stopped, CloseMailbox
<1>7. ASSUME NEW c \in Conn, AnnounceNode(c) PROVE RegistryInv'
  BY <1>7 DEF AnnounceNode, EndpointsMatchServices, InstancesMatchIds,
     OnlyLiveHold, SupersededIsDoomed, GivenUpOn, DropsReachLive, OneSuccessor,
     WaitsForDrop, Connected, Present, Gone, helloVars
<1>8. ASSUME NEW c \in Conn, NEW i \in Instance, Hello(c, i)
      PROVE  RegistryInv'
  BY <1>8, HelloPreserves
<1>9. ASSUME NEW c \in Conn, NEW s \in Service, Register(c, s)
      PROVE  RegistryInv'
  <2> USE <1>9 DEF Register, MayRegister, CanRegister
  <2>1. EndpointsMatchServices'
    BY DEF EndpointsMatchServices
  <2>2. OnlyLiveHold'
    BY DEF OnlyLiveHold, Present, Reading, Idle
  <2>3. (InstancesMatchIds /\ SupersededIsDoomed /\ DropsReachLive
             /\ OneSuccessor /\ WaitsForDrop)'
    BY DEF InstancesMatchIds, SupersededIsDoomed, GivenUpOn, DropsReachLive,
       OneSuccessor, WaitsForDrop, Gone, Connected, helloVars
  <2> QED
    BY <2>1, <2>2, <2>3
<1>10. ASSUME NEW c \in Conn, NEW s \in Service, Unregister(c, s)
       PROVE  RegistryInv'
  <2> USE <1>10 DEF Unregister, CanUnregister, ForgetService
  <2>1. registered_endpoints[s] = c
    BY DEF EndpointsMatchServices, OnlyLiveHold, Connected, Present
  <2>2. EndpointsMatchServices'
    BY <2>1 DEF EndpointsMatchServices
  <2>3. OnlyLiveHold'
    BY DEF OnlyLiveHold, Present, Reading, Idle
  <2>4. (InstancesMatchIds /\ SupersededIsDoomed /\ DropsReachLive
             /\ OneSuccessor /\ WaitsForDrop)'
    BY DEF InstancesMatchIds, SupersededIsDoomed, GivenUpOn, DropsReachLive,
       OneSuccessor, WaitsForDrop, Gone, Connected, helloVars
  <2> QED
    BY <2>2, <2>3, <2>4
<1>11. ASSUME UNCHANGED vars PROVE RegistryInv'
  BY <1>11 DEF vars, connVars, helloVars, routerVars, EndpointsMatchServices,
     InstancesMatchIds, OnlyLiveHold, SupersededIsDoomed, GivenUpOn,
     DropsReachLive, OneSuccessor, WaitsForDrop, Connected, Present, Gone
<1> QED
  BY <1>1, <1>2, <1>3, <1>4, <1>5, <1>6, <1>7, <1>8, <1>9, <1>10, <1>11
     DEF Next

\* The inductive invariant holds of every reachable state of a router whose
\* clients say Hello first.
THEOREM RegistryInvariant == ASSUME HelloFirst PROVE Spec => []RegistryInv
<1>1. Init => RegistryInv
  BY NoneAssumption DEF Init, RegistryInv, EndpointsMatchServices,
     InstancesMatchIds, OnlyLiveHold, SupersededIsDoomed, DropsReachLive,
     OneSuccessor, WaitsForDrop, Connected, Present, Gone
<1>2. TypeOK /\ RegistryInv /\ [Next]_vars => RegistryInv'
  BY NextPreserves
<1> QED
  BY <1>1, <1>2, TypeCorrect, PTL DEF Spec

-----------------------------------------------------------------------------
(* What users of the router rely on.                                       *)

\* No service and no instance points to a connection that is gone: calls are
\* never routed to a connection whose disconnect was already cleaned up.
THEOREM NothingStale == ASSUME HelloFirst PROVE Spec => []NoStaleRegistration
<1>1. TypeOK /\ RegistryInv => NoStaleRegistration
  BY NoneAssumption DEF TypeOK, RegistryInv, NoStaleRegistration,
     EndpointsMatchServices, InstancesMatchIds, OnlyLiveHold, Connected, Present
<1> QED
  BY <1>1, TypeCorrect, RegistryInvariant, PTL

\* At most one running connection of a client instance is not told to drop,
\* while those that replaced the others wait for them.
THEOREM Superseding == ASSUME HelloFirst PROVE Spec => []SupersededIsDoomed
<1>1. RegistryInv => SupersededIsDoomed
  BY DEF RegistryInv
<1> QED
  BY <1>1, RegistryInvariant, PTL

\* A Hello that was answered in time found its predecessor gone, owning
\* nothing.
THEOREM CleanReconnect == ASSUME HelloFirst PROVE Spec => []ReconnectIsClean
<1>1. TypeOK /\ RegistryInv => ReconnectIsClean
  <2> SUFFICES ASSUME TypeOK, RegistryInv, NEW c \in Conn,
                      hello[c] = "done", predecessor[c] # None
               PROVE  /\ Gone(predecessor[c])
                      /\ services[predecessor[c]] = {}
                      /\ \A s \in Service :
                            registered_endpoints[s] # predecessor[c]
    BY DEF ReconnectIsClean
  <2>1. predecessor[c] \in Conn
    BY DEF TypeOK
  <2>2. Gone(predecessor[c])
    BY DEF RegistryInv, WaitsForDrop
  <2>3. services[predecessor[c]] = {}
    BY <2>1, <2>2 DEF RegistryInv, OnlyLiveHold, Present, Gone
  <2> QED
    BY <2>1, <2>2, <2>3 DEF RegistryInv, EndpointsMatchServices
<1> QED
  BY <1>1, TypeCorrect, RegistryInvariant, PTL

\* The registry, with its locks, mailboxes, timeouts and three kinds of
\* disconnect, implements exclusive ownership of service names.
THEOREM ImplementsOwnership == ASSUME HelloFirst PROVE Spec => OwnershipSpec
<1> USE NoneAssumption
<1>1. Init => Ownership!Init
  BY DEF Init, Gone, Ownership!Init
<1>2. TypeOK /\ RegistryInv /\ [Next]_vars => [Ownership!Next]_Ownership!vars
  <2> SUFFICES ASSUME TypeOK, RegistryInv, [Next]_vars
               PROVE  Ownership!Next \/ UNCHANGED Ownership!vars
    OBVIOUS
  <2> DEFINE joined == {c \in Conn : conn_state[c] # "unborn"}
             left == {c \in Conn : Gone(c)}
  <2> USE DEF TypeOK, Gone, Ownership!vars
  <2>1. ASSUME NEW c \in Conn, Accept(c) PROVE Ownership!Next
    <3>1. joined' = joined \cup {c} /\ left' = left /\ c \notin joined
      BY <2>1 DEF Accept
    <3>2. Ownership!Join(c)
      BY <2>1, <3>1 DEF Accept, Ownership!Join, routerVars
    <3> QED
      BY <3>2 DEF Ownership!Next
  <2>2. ASSUME NEW c \in Conn, Stop(c) \/ DuplicateHello(c)
        PROVE  UNCHANGED Ownership!vars
    BY <2>2 DEF Stop, DuplicateHello, Reading, Idle, routerVars
  <2>3. ASSUME NEW c \in Conn, DropAnswered(c) \/ DropTimeout(c)
        PROVE  UNCHANGED Ownership!vars
    BY <2>3 DEF DropAnswered, DropTimeout, connVars, routerVars
  <2>4. ASSUME NEW c \in Conn, Present(c), Cleanup(c),
               \/ conn_state' = [conn_state EXCEPT ![c] = "dropped"]
               \/ conn_state' = [conn_state EXCEPT ![c] = "stopped"]
        PROVE  Ownership!Next
    <3>1. joined' = joined /\ left' = left \cup {c} /\ c \in joined \ left
      BY <2>4 DEF Present
    <3>2. registered_endpoints' =
              [s \in Service |->
                  IF registered_endpoints[s] = c
                  THEN None ELSE registered_endpoints[s]]
      BY <2>4, CleanupEffect
    <3>3. Ownership!Leave(c)
      BY <3>1, <3>2 DEF Ownership!Leave
    <3> QED
      BY <3>3 DEF Ownership!Next
  <2>5. ASSUME NEW c \in Conn, HandleDrop(c) PROVE Ownership!Next
    BY <2>4, <2>5 DEF HandleDrop, Idle, Present
  <2>6. ASSUME NEW c \in Conn, Stopped(c)
        PROVE  Ownership!Next \/ UNCHANGED Ownership!vars
    <3>1. CASE conn_state[c] = "stopping"
      BY <2>4, <2>6, <3>1 DEF Stopped, Present
    <3>2. CASE conn_state[c] = "dropped"
      <4>1. instance_id[c] = None
        BY <3>2 DEF RegistryInv, OnlyLiveHold, Present
      <4>2. UNCHANGED registered_endpoints
        BY <2>6, <4>1 DEF Stopped, Cleanup, routerVars
      <4>3. UNCHANGED <<joined, left>>
        BY <2>6, <3>2 DEF Stopped
      <4> QED
        BY <4>2, <4>3
    <3> QED
      BY <2>6, <3>1, <3>2 DEF Stopped
  <2>7. ASSUME NEW c \in Conn, AnnounceNode(c) PROVE UNCHANGED Ownership!vars
    BY <2>7 DEF AnnounceNode
  <2>8. ASSUME NEW c \in Conn, NEW i \in Instance, Hello(c, i)
        PROVE  UNCHANGED Ownership!vars
    BY <2>8 DEF Hello
  <2>9. ASSUME NEW c \in Conn, NEW s \in Service, Register(c, s)
        PROVE  Ownership!Next
    <3>1. c \in joined \ left /\ UNCHANGED <<joined, left>>
      BY <2>9 DEF Register, MayRegister, Reading, Idle
    <3>2. Ownership!Claim(c, s)
      BY <2>9, <3>1 DEF Register, CanRegister, Ownership!Claim
    <3> QED
      BY <3>2 DEF Ownership!Next
  <2>10. ASSUME NEW c \in Conn, NEW s \in Service, Unregister(c, s)
         PROVE  Ownership!Next
    <3>1. c \in joined \ left /\ UNCHANGED <<joined, left>>
      BY <2>10 DEF Unregister, Reading, Idle
    <3>2. registered_endpoints[s] = c
      BY <2>10 DEF Unregister, CanUnregister, RegistryInv,
         EndpointsMatchServices, OnlyLiveHold, Connected, Present
    <3>3. Ownership!Release(c, s)
      BY <2>10, <3>1, <3>2 DEF Unregister, Ownership!Release
    <3> QED
      BY <3>3 DEF Ownership!Next
  <2>11. ASSUME UNCHANGED vars PROVE UNCHANGED Ownership!vars
    BY <2>11 DEF vars, connVars, routerVars
  <2> QED
    BY <2>1, <2>2, <2>3, <2>5, <2>6, <2>7, <2>8, <2>9, <2>10, <2>11 DEF Next
<1> QED
  BY <1>1, <1>2, TypeCorrect, RegistryInvariant, PTL
     DEF Spec, OwnershipSpec, Ownership!Spec

-----------------------------------------------------------------------------
(* Without the assumption that clients say Hello first.                    *)

\* Half of EndpointsMatchServices: every name is in its owner's list.
OwnedListed ==
    \A s \in Service, c \in Conn :
        registered_endpoints[s] = c => s \in services[c]

\* A step of the router keeps the owners' lists complete, and takes a name
\* away from a live owner only together with the owner's own list entry.
LEMMA OwnerStep ==
    ASSUME TypeOK, OwnedListed, Next
    PROVE  /\ OwnedListed'
           /\ \A s \in Service, c \in Conn :
                 registered_endpoints[s] = c /\ Connected(c)
                     /\ registered_endpoints'[s] # c =>
                 /\ registered_endpoints'[s] = None
                 /\ s \in services[c] /\ s \notin services'[c]
<1> DEFINE Kept == \A s \in Service, c \in Conn :
                      registered_endpoints[s] = c /\ Connected(c)
                          /\ registered_endpoints'[s] # c =>
                      /\ registered_endpoints'[s] = None
                      /\ s \in services[c] /\ s \notin services'[c]
<1> USE NoneAssumption DEF TypeOK, OwnedListed
<1>1. ASSUME UNCHANGED <<registered_endpoints, services>>
      PROVE  OwnedListed' /\ Kept
  BY <1>1
<1>2. ASSUME NEW c \in Conn, Cleanup(c) PROVE OwnedListed' /\ Kept
  <2>1. CASE instance_id[c] = None
    BY <1>1, <1>2, <2>1 DEF Cleanup, routerVars
  <2>2. CASE instance_id[c] # None
    BY <1>2, <2>2 DEF Cleanup, UnregisterAll, CanUnregister
  <2> QED
    BY <2>1, <2>2
<1>3. ASSUME NEW c \in Conn, NEW s \in Service, Register(c, s)
      PROVE  OwnedListed' /\ Kept
  BY <1>3 DEF Register, CanRegister
<1>4. ASSUME NEW c \in Conn, NEW s \in Service, Unregister(c, s)
      PROVE  OwnedListed' /\ Kept
  BY <1>4 DEF Unregister, CanUnregister, ForgetService
<1>5. ASSUME NEW c \in Conn,
             \/ Accept(c) \/ DuplicateHello(c) \/ DropAnswered(c)
             \/ DropTimeout(c) \/ AnnounceNode(c) \/ Stop(c)
             \/ \E i \in Instance : Hello(c, i)
      PROVE  UNCHANGED <<registered_endpoints, services>>
  BY <1>5 DEF Accept, DuplicateHello, DropAnswered, DropTimeout, AnnounceNode,
     Stop, Hello, connVars, routerVars
<1> QED
  BY <1>1, <1>2, <1>3, <1>4, <1>5 DEF Next, HandleDrop, Stopped

\* No connection can take a service away from a live owner, whether clients
\* say Hello or not.
THEOREM OwnersAreSafe == Spec => LiveOwnerNotEvicted
<1>1. Init => OwnedListed
  BY NoneAssumption DEF Init, OwnedListed
<1>2. TypeOK /\ OwnedListed /\ [Next]_vars => OwnedListed'
  BY OwnerStep DEF vars, connVars, routerVars, OwnedListed
<1>3. TypeOK /\ OwnedListed /\ [Next]_vars =>
        [\A s \in Service, c \in Conn :
            registered_endpoints[s] = c /\ Connected(c)
                /\ registered_endpoints'[s] # c =>
            /\ registered_endpoints'[s] = None
            /\ s \in services[c] /\ s \notin services'[c]]_vars
  BY OwnerStep
<1> QED
  BY <1>1, <1>2, <1>3, TypeCorrect, PTL DEF Spec, LiveOwnerNotEvicted

-----------------------------------------------------------------------------
(* The node events.                                                        *)

\* A connection has a node id only once it runs and said Hello, which is
\* when cleanup will report the node lost.
NodesSaidHello ==
    \A c \in Conn :
        /\ conn_state[c] = "unborn" => default_id[c] = None
        /\ default_id[c] # None /\ Present(c) => instance_id[c] # None
        /\ announcing[c] => default_id[c] # None

\* The balance, with the finiteness that counting needs.
BalanceInv ==
    /\ NodesSaidHello
    /\ \A n \in NodeId : IsFiniteSet(LiveNodes(n))
    /\ NodeEventBalance

\* A step that changes neither the balance nor the set of live nodes.
LEMMA BalanceUnchanged ==
    ASSUME BalanceInv, NodesSaidHello', UNCHANGED node_balance,
           \A n \in NodeId : LiveNodes(n)' = LiveNodes(n)
    PROVE  BalanceInv'
<1>1. \A n \in NodeId : IsFiniteSet(LiveNodes(n)')
  BY DEF BalanceInv
<1>2. \A n \in NodeId : node_balance'[n] = Cardinality(LiveNodes(n)')
  BY DEF BalanceInv, NodeEventBalance
<1> QED
  BY <1>1, <1>2 DEF BalanceInv, NodeEventBalance

\* Announcing a node adds the connection to the live ones and one to the
\* balance.
LEMMA AnnounceBalanced ==
    ASSUME TypeOK, RegistryInv, BalanceInv, NEW c \in Conn, AnnounceNode(c)
    PROVE  BalanceInv'
<1> USE NoneAssumption DEF TypeOK, AnnounceNode, LiveNodes, Present
<1>1. NodesSaidHello'
  BY DEF NodesSaidHello, BalanceInv
<1>2. ASSUME NEW n \in NodeId
      PROVE  /\ IsFiniteSet(LiveNodes(n)')
             /\ node_balance'[n] = Cardinality(LiveNodes(n)')
  <2>1. IsFiniteSet(LiveNodes(n)) /\ node_balance[n] = Cardinality(LiveNodes(n))
    BY <1>2 DEF BalanceInv, NodeEventBalance
  <2>2. CASE default_id[c] = n
    <3>1. LiveNodes(n)' = LiveNodes(n) \cup {c} /\ c \notin LiveNodes(n)
      BY <2>2 DEF RegistryInv, OnlyLiveHold
    <3>2. node_balance'[n] = node_balance[n] + 1
      BY <2>2 DEF NodeNew
    <3>3. IsFiniteSet(LiveNodes(n) \cup {c})
              /\ Cardinality(LiveNodes(n) \cup {c})
                     = Cardinality(LiveNodes(n)) + 1
      BY <2>1, <3>1, FS_AddElement, Zenon
    <3> QED
      BY <2>1, <3>1, <3>2, <3>3
  <2>3. CASE default_id[c] # n
    <3>1. LiveNodes(n)' = LiveNodes(n)
      BY <2>3
    <3>2. node_balance'[n] = node_balance[n]
      BY <2>3 DEF NodeNew
    <3> QED
      BY <2>1, <3>1, <3>2
  <2> QED
    BY <2>2, <2>3
<1> QED
  BY <1>1, <1>2 DEF BalanceInv, NodeEventBalance

\* A connection that cleans up and stops is no longer counted.
LEMMA LeaveBalanced ==
    ASSUME TypeOK, RegistryInv, BalanceInv, NEW c \in Conn, Present(c),
           ~announcing[c], Cleanup(c),
           \/ conn_state' = [conn_state EXCEPT ![c] = "dropped"]
           \/ conn_state' = [conn_state EXCEPT ![c] = "stopped"],
           UNCHANGED <<default_id, announcing>>
    PROVE  BalanceInv'
<1> USE NoneAssumption DEF TypeOK, LiveNodes, Present
<1>1. NodesSaidHello'
  BY CleanupEffect DEF NodesSaidHello, BalanceInv
<1>2. ASSUME NEW n \in NodeId
      PROVE  /\ IsFiniteSet(LiveNodes(n)')
             /\ node_balance'[n] = Cardinality(LiveNodes(n)')
  <2>1. IsFiniteSet(LiveNodes(n)) /\ node_balance[n] = Cardinality(LiveNodes(n))
    BY <1>2 DEF BalanceInv, NodeEventBalance
  <2>2. CASE default_id[c] = n
    <3>1. LiveNodes(n)' = LiveNodes(n) \ {c} /\ c \in LiveNodes(n)
      BY <2>2
    <3>2. instance_id[c] # None
      BY <2>2 DEF BalanceInv, NodesSaidHello
    <3>3. node_balance'[n] = node_balance[n] - 1
      BY <2>2, <3>2 DEF Cleanup, NodeLost
    <3>4. IsFiniteSet(LiveNodes(n) \ {c})
              /\ Cardinality(LiveNodes(n) \ {c})
                     = Cardinality(LiveNodes(n)) - 1
      BY <2>1, <3>1, FS_RemoveElement, Zenon
    <3> QED
      BY <2>1, <3>1, <3>3, <3>4
  <2>3. CASE default_id[c] # n
    <3>1. LiveNodes(n)' = LiveNodes(n)
      BY <2>3
    <3>2. node_balance'[n] = node_balance[n]
      BY <2>3 DEF Cleanup, NodeLost, routerVars
    <3> QED
      BY <2>1, <3>1, <3>2
  <2> QED
    BY <2>2, <2>3
<1> QED
  BY <1>1, <1>2 DEF BalanceInv, NodeEventBalance

\* Every step keeps the node events balanced.
LEMMA BalanceStep ==
    ASSUME HelloFirst, TypeOK, RegistryInv, BalanceInv, [Next]_vars
    PROVE  BalanceInv'
<1> USE NoneAssumption, NodeOfAssumption DEF TypeOK
<1>1. ASSUME NEW c \in Conn,
             \/ Accept(c) \/ DuplicateHello(c) \/ Stop(c)
             \/ DropAnswered(c) \/ DropTimeout(c)
      PROVE  BalanceInv'
  <2>1. NodesSaidHello'
    BY <1>1 DEF BalanceInv, NodesSaidHello, Accept, DuplicateHello, Stop,
       DropAnswered, DropTimeout, Present, Reading, Idle, connVars
  <2>2. UNCHANGED node_balance /\ \A n \in NodeId : LiveNodes(n)' = LiveNodes(n)
    BY <1>1 DEF BalanceInv, NodesSaidHello, Accept, DuplicateHello, Stop,
       DropAnswered, DropTimeout, Present, Reading, Idle, connVars,
       routerVars, LiveNodes
  <2> QED
    BY <2>1, <2>2, BalanceUnchanged
<1>2. ASSUME NEW c \in Conn, NEW i \in Instance, Hello(c, i) PROVE BalanceInv'
  <2>1. NodesSaidHello'
    BY <1>2 DEF BalanceInv, NodesSaidHello, Hello, Present
  <2>2. UNCHANGED node_balance /\ \A n \in NodeId : LiveNodes(n)' = LiveNodes(n)
    BY <1>2 DEF Hello, Present, LiveNodes
  <2> QED
    BY <2>1, <2>2, BalanceUnchanged
<1>3. ASSUME NEW c \in Conn, NEW s \in Service, Register(c, s)
      PROVE  BalanceInv'
  <2>1. NodesSaidHello'
    BY <1>3 DEF BalanceInv, NodesSaidHello, Register, MayRegister, Reading,
       Idle, DefaultId, Present
  <2>2. UNCHANGED node_balance
    BY <1>3 DEF Register
  <2>3. ASSUME NEW n \in NodeId PROVE LiveNodes(n)' = LiveNodes(n)
    BY <1>3 DEF Register, MayRegister, Reading, Idle, DefaultId, Present,
       LiveNodes
  <2> QED
    BY <2>1, <2>2, <2>3, BalanceUnchanged
<1>4. ASSUME NEW c \in Conn, NEW s \in Service, Unregister(c, s)
      PROVE  BalanceInv'
  <2>1. NodesSaidHello'
    BY <1>4 DEF BalanceInv, NodesSaidHello, Unregister, Present
  <2>2. UNCHANGED node_balance /\ \A n \in NodeId : LiveNodes(n)' = LiveNodes(n)
    BY <1>4 DEF Unregister, Present, LiveNodes
  <2> QED
    BY <2>1, <2>2, BalanceUnchanged
<1>5. ASSUME NEW c \in Conn, AnnounceNode(c) PROVE BalanceInv'
  BY <1>5, AnnounceBalanced
<1>6. ASSUME NEW c \in Conn, HandleDrop(c) PROVE BalanceInv'
  BY <1>6, LeaveBalanced DEF HandleDrop, Idle, Present
<1>7. ASSUME NEW c \in Conn, Stopped(c) PROVE BalanceInv'
  <2>1. CASE conn_state[c] = "stopping"
    <3>1. ~announcing[c] /\ Present(c)
      BY <2>1 DEF RegistryInv, OnlyLiveHold, Present
    <3> QED
      BY <1>7, <3>1, LeaveBalanced DEF Stopped
  <2>2. CASE conn_state[c] = "dropped"
    <3>1. instance_id[c] = None
      BY <2>2 DEF RegistryInv, OnlyLiveHold, Present
    <3>2. UNCHANGED <<node_balance, instance_id>>
      BY <1>7, <3>1 DEF Stopped, Cleanup, routerVars
    <3>3. NodesSaidHello'
      BY <1>7, <2>2, <3>2 DEF BalanceInv, NodesSaidHello, Stopped, Present
    <3>4. \A n \in NodeId : LiveNodes(n)' = LiveNodes(n)
      BY <1>7, <2>2 DEF Stopped, LiveNodes, Present
    <3> QED
      BY <3>2, <3>3, <3>4, BalanceUnchanged
  <2> QED
    BY <1>7, <2>1, <2>2 DEF Stopped
<1>8. ASSUME UNCHANGED vars PROVE BalanceInv'
  <2>1. NodesSaidHello'
    BY <1>8 DEF BalanceInv, NodesSaidHello, vars, connVars, Present
  <2>2. UNCHANGED node_balance /\ \A n \in NodeId : LiveNodes(n)' = LiveNodes(n)
    BY <1>8 DEF vars, connVars, routerVars, Present, LiveNodes
  <2> QED
    BY <2>1, <2>2, BalanceUnchanged
<1> QED
  BY <1>1, <1>2, <1>3, <1>4, <1>5, <1>6, <1>7, <1>8 DEF Next

\* One Lost for every New: the event stream of the REST interface counts the
\* live connections of each node, for any number of connections.
THEOREM EventsBalance == ASSUME HelloFirst PROVE Spec => []NodeEventBalance
<1>1. Init => BalanceInv
  <2>1. ASSUME Init PROVE \A n \in NodeId : LiveNodes(n) = {}
    BY <2>1, NoneAssumption DEF Init, LiveNodes
  <2>2. ASSUME Init PROVE NodesSaidHello
    BY <2>2 DEF Init, NodesSaidHello, Present
  <2>3. IsFiniteSet({}) /\ Cardinality({}) = 0
    BY FS_EmptySet, Zenon
  <2> QED
    BY <2>1, <2>2, <2>3 DEF BalanceInv, NodeEventBalance, Init
<1>2. TypeOK /\ RegistryInv /\ BalanceInv /\ [Next]_vars => BalanceInv'
  BY BalanceStep
<1>3. BalanceInv => NodeEventBalance
  BY DEF BalanceInv
<1> QED
  BY <1>1, <1>2, <1>3, TypeCorrect, RegistryInvariant, PTL DEF Spec
=============================================================================
