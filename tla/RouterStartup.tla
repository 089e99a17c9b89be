--------------------------- MODULE RouterStartup ---------------------------
(***************************************************************************)
(* Routers that start on one machine: bind_url, bind_tcp and bind_unix     *)
(* (crates/router/src/router.rs) with prepare_for_bind and                 *)
(* set_owner_only_permissions (crates/router/src/unix_socket.rs).          *)
(*                                                                         *)
(* A start on a unix socket is a sequence of system calls on a path that   *)
(* other routers may be using at the same time: look at the file, connect  *)
(* to see whether somebody listens, look again, remove, bind, listen, look,*)
(* restrict the mode, look again.  Every call is a step, and a process may *)
(* be killed between any two; its socket's file stays.                     *)
(*                                                                         *)
(* The file system is external: a file has an inode number, which is free  *)
(* again when neither the path nor a listener holds it, an owner and a     *)
(* mode.  connect is refused unless the socket bound to the file listens;  *)
(* other errors of connect come from a listener (full backlog) and have    *)
(* the same effect as success.  The device never changes.  Other programs  *)
(* leave files at the path before the first start only.  A server that     *)
(* ends in an orderly way is like one that is killed: its file stays.      *)
(***************************************************************************)
EXTENDS GsbAddress, FiniteSets

CONSTANTS
    Process,      \* processes that run a router
    Inode,        \* inode numbers
    Environment,  \* environments the processes may share
    None,
    MaxStarts     \* bound: starts of all processes

ASSUME StartAssumption ==
    /\ None \notin Process \cup Inode
    /\ Inode # {}
    /\ MaxStarts \in Nat

\* The directories an environment names are paths, nothing in them is encoded.
ASSUME EnvironmentAssumption ==
    \A env \in Environment :
        \A dir \in {env.runtime_dir, env.temp_dir, env.data_dir} :
            dir \in Seq({Part(dir[i].name) : i \in DOMAIN dir})

VARIABLES
    addr,     \* addr[p]: the address the router of process p resolves
    dial,     \* the address a client in the same environment resolves
    pc,       \* pc[p]: where the start of p is
    file,     \* file[a]: what lies at the path of unix address a
    inode,    \* inode[p]: the inode of p's own socket, None without one
    seen,     \* seen[p]: SocketIdentity in the function p executes
    starts,   \* number of starts so far
    rivals    \* rivals[p]: processes whose start overlapped the last start of p

vars == <<addr, dial, pc, file, inode, seen, starts, rivals>>

NoFile == [inode |-> None, type |-> "none", own |-> TRUE, mode |-> "none", by |-> None]

\* The paths in question.
Path == {a \in {addr[p] : p \in Process} : a.kind = "unix"}

Idle == {"down", "failed"}
Closed == Idle \cup {"bind_tcp", "inspect", "connect", "recheck", "remove", "bind"}
Listening == {"permissions", "chmod", "verify", "serving"}
Starting == {p \in Process : pc[p] \notin Idle \cup {"serving"}}

\* A file the process finds at the path: its own user's socket that nobody
\* listens on any more, another user's, or something else.
Found(i) ==
    {NoFile}
    \cup [inode : {i}, type : {"socket"}, own : BOOLEAN, mode : {"private"}, by : {None}]
    \cup [inode : {i}, type : {"other"}, own : {TRUE}, mode : {"private"}, by : {None}]

Init ==
    /\ \E env \in Environment, binary \in SUBSET Process :
          /\ addr = [p \in Process |->
                       IF p \in binary THEN BinaryAddr(env) ELSE LibraryAddr(env)]
          /\ dial = LibraryAddr(env)
    /\ pc = [p \in Process |-> "down"]
    /\ \E f \in Found(CHOOSE i \in Inode : TRUE) : file = [a \in Path |-> f]
    /\ inode = [p \in Process |-> None]
    /\ seen = [p \in Process |-> None]
    /\ starts = 0
    /\ rivals = [p \in Process |-> {}]

-----------------------------------------------------------------------------
(* Helpers.                                                                *)

\* The file at the path p uses, and its replacement.
Here(p) == file[addr[p]]
Put(p, f) == file' = [file EXCEPT ![addr[p]] = f]

Owned_AnyUser(f) == f.type = "socket"

\* inspect_owned_socket succeeds.
Owned(f) == f.type = "socket" /\ f.own

Refused_Always(f) == f # NoFile

\* UnixStream::connect: ConnectionRefused.
Refused(f) == f # NoFile /\ f.by \notin {q \in Process : pc[q] \in Listening}

\* p's part of the start is over without success: what it listened on is
\* closed, the file remains.
Ends(p, state) ==
    /\ pc' = [pc EXCEPT ![p] = state]
    /\ inode' = [inode EXCEPT ![p] = None]
    /\ file' = [a \in Path |->
                   IF file[a].by = p THEN [file[a] EXCEPT !.by = None] ELSE file[a]]
    /\ seen' = [seen EXCEPT ![p] = None]
    /\ UNCHANGED <<addr, dial, starts, rivals>>

\* p goes on to another step.
Goto(p, state) ==
    /\ pc' = [pc EXCEPT ![p] = state]
    /\ UNCHANGED <<addr, dial, starts, rivals>>

-----------------------------------------------------------------------------
(* bind_url.                                                               *)

\* bind_url with the resolved address; a panic or a usage error (see
\* BinaryAddr) ends the process.
Start(p) ==
    /\ pc[p] \in Idle
    /\ starts < MaxStarts
    /\ starts' = starts + 1
    /\ pc' = [pc EXCEPT ![p] = CASE addr[p].kind = "panic" -> "failed"
                                 [] addr[p].kind = "tcp"   -> "bind_tcp"
                                 [] addr[p].kind = "unix"  -> "inspect"]
    /\ rivals' = [q \in Process |->
                     CASE q = p -> Starting
                       [] q \in Starting -> rivals[q] \cup {p}
                       [] OTHER -> rivals[q]]
    /\ UNCHANGED <<addr, dial, file, inode, seen>>

\* bind_tcp, bind_tls: the address is free or in use.
BindTcp(p) ==
    /\ pc[p] = "bind_tcp"
    /\ IF \E q \in Process : pc[q] = "serving" /\ addr[q] = addr[p]
       THEN Ends(p, "failed")
       ELSE Goto(p, "serving") /\ UNCHANGED <<file, inode, seen>>

-----------------------------------------------------------------------------
(* prepare_for_bind.                                                       *)

\* The first inspect_owned_socket.
Inspect(p) ==
    /\ pc[p] = "inspect"
    /\ \/ Here(p) = NoFile /\ Goto(p, "bind") /\ UNCHANGED <<file, inode, seen>>
       \/ Here(p) # NoFile /\ ~Owned(Here(p)) /\ Ends(p, "failed")
       \/ /\ Owned(Here(p))
          /\ seen' = [seen EXCEPT ![p] = Here(p).inode]
          /\ Goto(p, "connect")
          /\ UNCHANGED <<file, inode>>

\* UnixStream::connect: no file, a listener, or nobody.
Connect(p) ==
    /\ pc[p] = "connect"
    /\ \/ Here(p) = NoFile /\ Goto(p, "bind") /\ UNCHANGED <<file, inode, seen>>
       \/ Here(p) # NoFile /\ ~Refused(Here(p)) /\ Ends(p, "failed")
       \/ Refused(Here(p)) /\ Goto(p, "recheck") /\ UNCHANGED <<file, inode, seen>>

Matches_Always(p) == Owned(Here(p))

\* inspect_owned_socket again, and SocketIdentity::matches.
Matches(p) == Owned(Here(p)) /\ Here(p).inode = seen[p]

Recheck(p) ==
    /\ pc[p] = "recheck"
    /\ \/ ~Matches(p) /\ Ends(p, "failed")
       \/ Matches(p) /\ Goto(p, "remove") /\ UNCHANGED <<file, inode, seen>>

\* remove_file: whatever lies at the path now.
Remove(p) ==
    /\ pc[p] = "remove"
    /\ \/ Here(p) = NoFile /\ Ends(p, "failed")
       \/ /\ Here(p) # NoFile
          /\ Put(p, NoFile)
          /\ Goto(p, "bind")
          /\ UNCHANGED <<inode, seen>>

-----------------------------------------------------------------------------
(* bind_unix.                                                              *)

InUse == {file[a].inode : a \in Path} \cup {inode[p] : p \in Process}

\* UnixListener::bind creates the file, unless there is one ...
Bind(p) ==
    /\ pc[p] = "bind"
    /\ \/ Here(p) # NoFile /\ Ends(p, "failed")
       \/ /\ Here(p) = NoFile
          /\ \E i \in Inode \ InUse :
                /\ inode' = [inode EXCEPT ![p] = i]
                /\ Put(p, [inode |-> i, type |-> "socket", own |-> TRUE,
                           mode |-> "umask", by |-> p])
          /\ Goto(p, "listen")
          /\ UNCHANGED seen

\* ... and listens, in a second system call.
Listen(p) ==
    /\ pc[p] = "listen"
    /\ Goto(p, "permissions")
    /\ UNCHANGED <<file, inode, seen>>

\* set_owner_only_permissions: inspect_owned_socket ...
Permissions(p) ==
    /\ pc[p] = "permissions"
    /\ \/ ~Owned(Here(p)) /\ Ends(p, "failed")
       \/ /\ Owned(Here(p))
          /\ seen' = [seen EXCEPT ![p] = Here(p).inode]
          /\ Goto(p, "chmod")
          /\ UNCHANGED <<file, inode>>

SetMode_Skipped(p) == UNCHANGED file

\* ... set_permissions of whatever lies there ...
SetMode(p) == Put(p, [Here(p) EXCEPT !.mode = "private"])

Chmod(p) ==
    /\ pc[p] = "chmod"
    /\ \/ Here(p) = NoFile /\ Ends(p, "failed")
       \/ Here(p) # NoFile /\ SetMode(p) /\ Goto(p, "verify") /\ UNCHANGED <<inode, seen>>

\* ... and the comparison of identity and mode.  Then the server runs.
Verify(p) ==
    /\ pc[p] = "verify"
    /\ \/ /\ ~Matches(p) \/ Here(p).mode # "private"
          /\ Ends(p, "failed")
       \/ /\ Matches(p) /\ Here(p).mode = "private"
          /\ Goto(p, "serving")
          /\ UNCHANGED <<file, inode, seen>>

\* The process is killed.
Kill(p) ==
    /\ pc[p] \notin Idle
    /\ Ends(p, "down")

-----------------------------------------------------------------------------

Step(p) ==
    \/ BindTcp(p)
    \/ Inspect(p) \/ Connect(p) \/ Recheck(p) \/ Remove(p)
    \/ Bind(p) \/ Listen(p)
    \/ Permissions(p) \/ Chmod(p) \/ Verify(p)

Next == \E p \in Process : Start(p) \/ Step(p) \/ Kill(p)

Spec == Init /\ [][Next]_vars

\* A start is a sequence of calls that return.
FairSpec == Spec /\ \A p \in Process : WF_vars(Step(p))

-----------------------------------------------------------------------------
(* Properties.                                                             *)

\* Every variable keeps its type.
TypeOK ==
    /\ pc \in [Process -> Closed \cup Listening \cup {"listen"}]
    /\ file \in [Path -> [inode : Inode \cup {None}, type : {"none", "socket", "other"},
                          own : BOOLEAN, mode : {"none", "umask", "private"},
                          by : Process \cup {None}]]
    /\ inode \in [Process -> Inode \cup {None}]
    /\ seen \in [Process -> Inode \cup {None}]
    /\ starts \in 0 .. MaxStarts
    /\ rivals \in [Process -> SUBSET Process]

\* The router that answers at address a.
Answers(p, a) ==
    \/ a.kind = "tcp" /\ pc[p] = "serving" /\ addr[p] = a
    \/ a.kind = "unix" /\ a \in Path /\ file[a].by = p /\ pc[p] \in Listening

\* A client that shares the environment of a running router dials an
\* address at which this router answers, whether it runs from the binary or
\* the library, and whatever starts, fails or is killed later: only a
\* router whose start overlapped its own can push it aside.
ClientFindsRouter ==
    \A p \in Process :
        pc[p] = "serving" /\ rivals[p] = {} => Answers(p, dial)

\* prepare_for_bind never removes the socket of a router that was running
\* before this start began, whoever else starts, crashes or reuses inode
\* numbers meanwhile: what is removed is stale or of an overlapping start.
EstablishedIsSafe ==
    \A p, q \in Process :
        pc[q] = "remove" /\ Here(q).by = p => p \in rivals[q]

\* "without following or deleting any other kind of filesystem entry": a
\* file that is no socket, or another user's, is left as it is.
OthersAreKept ==
    [][\A a \in Path :
          file[a] # NoFile /\ ~(file[a].type = "socket" /\ file[a].own)
              => file'[a] = file[a]]_vars

\* A start that no other start overlaps and no signal ends succeeds if the
\* path is free or holds a stale socket, such as a crash leaves behind at
\* any point of an earlier start.
StaleIsReclaimed ==
    \A p \in Process :
        (pc[p] = "inspect" /\ (Here(p) = NoFile \/ (Owned(Here(p)) /\ Here(p).by = None)))
            ~> (pc[p] \in {"serving", "down"} \/ rivals[p] # {})
=============================================================================
