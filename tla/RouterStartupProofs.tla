------------------------ MODULE RouterStartupProofs ------------------------
(***************************************************************************)
(* Routers that start on one machine (RouterStartup): a client finds the   *)
(* router of its environment, a running router's socket and foreign files  *)
(* are never removed, for any processes, environments and kills.           *)
(*                                                                         *)
(* The argument is about overlapping starts.  While a start is under way,  *)
(* a process that is not one of its rivals is down or serving, and being a *)
(* rival is mutual; so a socket that refused a connection belongs to       *)
(* nobody or to a rival, and stays so until it is removed.                 *)
(***************************************************************************)
EXTENDS RouterStartup, SequenceTheorems, TLAPS

-----------------------------------------------------------------------------
(* The invariant.                                                          *)

\* Phases in which the process holds a socket.
Bound == {"listen"} \cup Listening

\* Something this user's routers have no business with.
Foreign(f) == f # NoFile /\ ~Owned(f)

\* A start does what its kind of address calls for.
PhaseInv ==
    \A p \in Process :
        /\ addr[p].kind \in {"tcp", "unix", "panic"}
        /\ \/ pc[p] \in Idle
           \/ addr[p].kind = "tcp" /\ pc[p] \in {"bind_tcp", "serving"}
           \/ addr[p].kind = "unix" /\ pc[p] # "bind_tcp"

\* A router listens where clients dial, or does not start.
AddrInv == \A p \in Process : addr[p] = dial \/ addr[p].kind = "panic"

\* Who a file is bound to holds a socket there.
ByInv ==
    \A a \in Path, p \in Process :
        file[a].by = p => addr[p] = a /\ pc[p] \in Bound /\ Owned(file[a])

\* Who is no rival of a start does not start meanwhile; rivalry is mutual.
RivalInv ==
    \A p \in Process, q \in Starting :
        /\ p = q \/ p \in rivals[q] \/ pc[p] \in Idle \cup {"serving"}
        /\ p \in rivals[q] => q \in rivals[p]

\* What a start is about to remove is stale, or a rival's.
RemoveInv ==
    \A p, q \in Process :
        pc[q] \in {"recheck", "remove"} /\ Here(q).by = p => p \in rivals[q]

\* A router without rivals holds the file at its path.
ServeInv ==
    \A p \in Process :
        pc[p] \in Bound /\ addr[p].kind = "unix" /\ rivals[p] = {} => Here(p).by = p

\* A start does not go on past a foreign file.
ForeignInv ==
    \A p \in Process :
        addr[p].kind = "unix" /\ Foreign(Here(p)) => pc[p] \in Idle \cup {"inspect"}

StartInv ==
    /\ TypeOK /\ PhaseInv /\ AddrInv /\ ByInv /\ RivalInv /\ RemoveInv /\ ServeInv
    /\ ForeignInv

-----------------------------------------------------------------------------
(* Addresses.                                                              *)

\* A path survives being made a URL and read back.
LEMMA DecodeEncode ==
    ASSUME NEW X, \A x \in X : \E name : x = Part(name), NEW path \in Seq(X)
    PROVE  Decode(Encode(path)) = path
<1> DEFINE e == Encode(path)
           n == Len(path)
<1>1. n \in Nat /\ DOMAIN path = 1 .. n /\ path = [i \in 1 .. n |-> path[i]]
  OBVIOUS
<1>2. e = [i \in 1 .. n |-> IF path[i].name \in Special
                            THEN [path[i] EXCEPT !.enc = @ + 1] ELSE path[i]]
  BY <1>1 DEF Encode
<1>3. Decode(e) = [i \in 1 .. n |-> IF e[i].enc > 0 THEN [e[i] EXCEPT !.enc = @ - 1] ELSE e[i]]
  BY <1>2 DEF Decode
<1> HIDE DEF e, n
<1>4. ASSUME NEW i \in 1 .. n
      PROVE  (IF e[i].enc > 0 THEN [e[i] EXCEPT !.enc = @ - 1] ELSE e[i]) = path[i]
  <2>1. path[i] \in X
    BY <1>1
  <2>2. PICK x : x = path[i]
    OBVIOUS
  <2>3. x = [name |-> x.name, enc |-> 0] /\ x.enc = 0
    BY <2>1, <2>2 DEF Part
  <2>4. CASE x.name \in Special
    <3>1. e[i] = [name |-> x.name, enc |-> 1]
      BY <1>2, <2>2, <2>3, <2>4
    <3> QED
      BY <2>2, <2>3, <3>1
  <2>5. CASE x.name \notin Special
    <3>1. e[i] = x
      BY <1>2, <2>2, <2>5
    <3> QED
      BY <2>2, <2>3, <3>1
  <2> QED
    BY <2>4, <2>5
<1>5. Decode(e) = [i \in 1 .. n |-> path[i]]
  BY <1>3, <1>4
<1> QED
  BY <1>1, <1>5 DEF e

LEMMA DefaultPathType ==
    ASSUME NEW env \in Environment
    PROVE  \E X : (\A x \in X : \E name : x = Part(name)) /\ DefaultPath(env) \in Seq(X)
<1> DEFINE Of(dir) == {Part(dir[i].name) : i \in DOMAIN dir}
           X == Of(env.runtime_dir) \cup Of(env.temp_dir) \cup Of(env.data_dir)
                \cup {APP_DIR, RUN_DIR, SOCKET_NAME}
<1>1. \A x \in X : \E name : x = Part(name)
  BY DEF APP_DIR, RUN_DIR, SOCKET_NAME
<1>2. /\ env.runtime_dir \in Seq(Of(env.runtime_dir)) /\ env.temp_dir \in Seq(Of(env.temp_dir))
      /\ env.data_dir \in Seq(Of(env.data_dir))
  BY EnvironmentAssumption
<1>3. /\ Of(env.runtime_dir) \subseteq X /\ Of(env.temp_dir) \subseteq X
      /\ Of(env.data_dir) \subseteq X
      /\ APP_DIR \in X /\ RUN_DIR \in X /\ SOCKET_NAME \in X
  OBVIOUS
<1> HIDE DEF Of, X
<1>4. env.runtime_dir \in Seq(X) /\ env.temp_dir \in Seq(X) /\ env.data_dir \in Seq(X)
  BY <1>2, <1>3, SeqMonotonic
<1>5. <<APP_DIR, SOCKET_NAME>> \in Seq(X) /\ <<RUN_DIR, SOCKET_NAME>> \in Seq(X)
  BY <1>3
<1>6. \A d \in Seq(X) : /\ d \o <<APP_DIR, SOCKET_NAME>> \in Seq(X)
                        /\ d \o <<RUN_DIR, SOCKET_NAME>> \in Seq(X)
  BY <1>5
<1>7. DefaultPath(env) \in Seq(X)
  BY <1>4, <1>6 DEF DefaultPath, LinuxDefault, MacosDefault
<1> QED
  BY <1>1, <1>7

\* The binary and the library mean the same address, unless the binary does
\* not start at all.
LEMMA AddressesAgree ==
    ASSUME NEW env \in Environment
    PROVE  /\ BinaryAddr(env) = LibraryAddr(env) \/ BinaryAddr(env) = Panic
           /\ LibraryAddr(env).kind \in {"tcp", "unix", "panic"}
<1>1. LibraryAddr(env).kind \in {"tcp", "unix", "panic"}
  BY DEF LibraryAddr, FromUrl, ParseTcp, Tcp, Unix, Panic
<1>2. CASE env.gsb_url.scheme = "bare"
  <2>1. env.gsb_url # NoUrl
    BY <1>2 DEF NoUrl
  <2>2. BinaryAddr(env) = Panic
    BY <1>2, <2>1 DEF BinaryAddr
  <2> QED
    BY <1>1, <2>2
<1>3. CASE env.gsb_url = NoUrl
  <2>0. env.gsb_url.scheme = "none"
    BY <1>3 DEF NoUrl
  <2>1. BinaryAddr(env) = FromUrl(DefaultUrl(env), env)
    BY <1>3, <2>0 DEF BinaryAddr
  <2>2. PICK u : u = DefaultUrl(env)
    OBVIOUS
  <2>3. u # NoUrl /\ u.scheme = "unix" /\ u.at = Encode(DefaultPath(env))
    BY <2>2 DEF DefaultUrl, NoUrl, Url
  <2>4. FromUrl(u, env) = Unix(ParseUnix(u.at))
    BY <2>3 DEF FromUrl
  <2>5. ParseUnix(u.at) = DefaultPath(env)
    <3>1. PICK X : (\A x \in X : \E name : x = Part(name)) /\ DefaultPath(env) \in Seq(X)
      BY DefaultPathType
    <3>2. Decode(Encode(DefaultPath(env))) = DefaultPath(env)
      BY <3>1, DecodeEncode
    <3> QED
      BY <2>3, <3>2 DEF ParseUnix
  <2>6. LibraryAddr(env) = Unix(DefaultPath(env))
    BY <1>3, <2>0 DEF LibraryAddr, FromUrl, NoUrl
  <2> QED
    BY <1>1, <2>1, <2>2, <2>4, <2>5, <2>6
<1>4. CASE env.gsb_url.scheme # "bare" /\ env.gsb_url # NoUrl
  <2>1. BinaryAddr(env) = FromUrl(env.gsb_url, env)
    BY <1>4 DEF BinaryAddr
  <2>2. FromUrl(env.gsb_url, env) = FromUrl(NoUrl, env)
    BY <1>4 DEF FromUrl
  <2> QED
    BY <1>1, <2>1, <2>2 DEF LibraryAddr
<1> QED
  BY <1>2, <1>3, <1>4

-----------------------------------------------------------------------------
(* Steps.                                                                  *)

LEMMA InitInv == Init => StartInv
<1> SUFFICES ASSUME Init PROVE StartInv
  OBVIOUS
<1>1. PICK env \in Environment, binary \in SUBSET Process :
         /\ addr = [p \in Process |->
                      IF p \in binary THEN BinaryAddr(env) ELSE LibraryAddr(env)]
         /\ dial = LibraryAddr(env)
  BY DEF Init
<1>2. \A p \in Process : /\ addr[p] = dial \/ addr[p].kind = "panic"
                         /\ addr[p].kind \in {"tcp", "unix", "panic"}
  <2>1. Panic.kind = "panic"
    BY DEF Panic
  <2> QED
    BY <1>1, <2>1, AddressesAgree
<1>3. \A p \in Process : pc[p] = "down"
  BY DEF Init
<1>4. PICK i \in Inode : i = CHOOSE j \in Inode : TRUE
  BY StartAssumption
<1>5. PICK f \in Found(i) : file = [a \in Path |-> f]
  BY <1>4 DEF Init
<1>6. /\ f \in [inode : Inode \cup {None}, type : {"none", "socket", "other"}, own : BOOLEAN,
                mode : {"none", "umask", "private"}, by : Process \cup {None}]
      /\ f.by = None
  <2>1. CASE f = NoFile
    BY <2>1 DEF NoFile
  <2>2. CASE f # NoFile
    BY <1>5, <2>2 DEF Found
  <2> QED
    BY <2>1, <2>2
<1>7. TypeOK
  BY <1>5, <1>6, StartAssumption DEF Init, TypeOK, Closed, Idle
<1>8. PhaseInv /\ AddrInv
  BY <1>2, <1>3 DEF PhaseInv, AddrInv, Idle
<1>9. ByInv
  BY <1>5, <1>6, StartAssumption DEF ByInv
<1>10. RivalInv
  BY <1>3 DEF RivalInv, Starting, Idle
<1>11. RemoveInv /\ ServeInv
  BY <1>3 DEF RemoveInv, ServeInv, Bound, Listening
<1>12. ForeignInv
  BY <1>3 DEF ForeignInv, Idle
<1> QED
  BY <1>7, <1>8, <1>9, <1>10, <1>11, <1>12 DEF StartInv

\* What a step that leaves the addresses alone needs to know of a path.
LEMMA UnixPath ==
    ASSUME TypeOK, NEW p \in Process, addr[p].kind = "unix"
    PROVE  addr[p] \in Path /\ Here(p) = file[addr[p]]
  BY DEF Path, Here

\* A start that fails, or a process that is killed.
LEMMA EndsInv ==
    ASSUME StartInv, NEW p \in Process, NEW st \in Idle, pc[p] \notin Idle, Ends(p, st)
    PROVE  StartInv'
<1> USE DEF StartInv
<1>0. Path' = Path /\ addr' = addr /\ dial' = dial /\ rivals' = rivals
  BY DEF Ends, Path
<1>1. /\ pc'[p] = st /\ pc' \in [Process -> Closed \cup Listening \cup {"listen"}]
      /\ \A q \in Process : q # p => pc'[q] = pc[q]
  BY DEF Ends, TypeOK, Closed
<1>2. \A a \in Path : /\ file[a].by = p => /\ file'[a] = [file[a] EXCEPT !.by = None]
                                           /\ file'[a].by = None
                                           /\ file'[a].type = file[a].type
                                           /\ file'[a].own = file[a].own
                      /\ file[a].by # p => file'[a] = file[a]
  BY DEF Ends, TypeOK
<1>3. TypeOK'
  <2>1. file' \in [Path -> [inode : Inode \cup {None}, type : {"none", "socket", "other"},
                            own : BOOLEAN, mode : {"none", "umask", "private"},
                            by : Process \cup {None}]]
    BY SMTT(40) DEF Ends, TypeOK
  <2> QED
    BY <1>0, <1>1, <2>1 DEF TypeOK, Ends
<1>4. PhaseInv' /\ AddrInv'
  BY <1>0, <1>1 DEF PhaseInv, AddrInv
<1>5. ByInv'
  <2> SUFFICES ASSUME NEW a \in Path, NEW q \in Process, file'[a].by = q
               PROVE  addr[q] = a /\ pc'[q] \in Bound /\ Owned(file'[a])
    BY <1>0 DEF ByInv, Owned
  <2>1. file[a].by # p /\ file'[a] = file[a]
    BY <1>2, StartAssumption
  <2> QED
    BY <1>1, <2>1 DEF ByInv
<1>6. RivalInv'
  BY <1>0, <1>1 DEF RivalInv, Starting
<1>7. RemoveInv'
  <2> SUFFICES ASSUME NEW r \in Process, NEW q \in Process,
                      (pc[q] \in {"recheck", "remove"})', Here(q)'.by = r
               PROVE  r \in rivals[q]
    BY <1>0 DEF RemoveInv
  <2>1. q # p /\ pc[q] \in {"recheck", "remove"}
    BY <1>1 DEF Idle
  <2>2. addr[q] \in Path
    BY <2>1, UnixPath DEF PhaseInv, Idle
  <2>3. Here(q).by = r
    BY <1>0, <1>2, <2>2, StartAssumption DEF Here
  <2> QED
    BY <2>1, <2>3 DEF RemoveInv
<1>8. ServeInv'
  <2> SUFFICES ASSUME NEW q \in Process, (pc[q] \in Bound)', addr[q].kind = "unix", rivals[q] = {}
               PROVE  Here(q)'.by = q
    BY <1>0 DEF ServeInv
  <2>1. q # p /\ pc[q] \in Bound
    BY <1>1 DEF Idle, Bound, Listening
  <2>2. addr[q] \in Path
    BY UnixPath
  <2> QED
    BY <1>0, <1>2, <2>1, <2>2 DEF ServeInv, Here
<1>9. ForeignInv'
  <2> SUFFICES ASSUME NEW q \in Process, addr[q].kind = "unix", Foreign(Here(q))'
               PROVE  pc'[q] \in Idle \cup {"inspect"}
    BY <1>0 DEF ForeignInv
  <2>1. addr[q] \in Path
    BY UnixPath
  <2>2. Foreign(Here(q))
    <3>1. Foreign(file'[addr[q]])
      BY <1>0 DEF Foreign, Owned, Here
    <3>2. NoFile.by # p
      BY StartAssumption DEF NoFile
    <3>3. file[addr[q]] # NoFile
      BY <1>2, <2>1, <3>1, <3>2 DEF Foreign
    <3> QED
      BY <1>2, <2>1, <3>1, <3>3 DEF Foreign, Owned, Here
  <2> QED
    BY <1>1, <2>2 DEF ForeignInv
<1> QED
  BY <1>3, <1>4, <1>5, <1>6, <1>7, <1>8, <1>9

\* A start begins: those that start meanwhile become rivals of it, and it of them.
LEMMA StartStepInv ==
    ASSUME StartInv, NEW p \in Process, Start(p)
    PROVE  StartInv'
<1> USE DEF StartInv
<1>0. Path' = Path /\ addr' = addr /\ dial' = dial /\ file' = file
  BY DEF Start, Path
<1>1. /\ pc[p] \in Idle
      /\ pc' = [pc EXCEPT ![p] = pc'[p]]
      /\ \/ addr[p].kind = "panic" /\ pc'[p] = "failed"
         \/ addr[p].kind = "tcp" /\ pc'[p] = "bind_tcp"
         \/ addr[p].kind = "unix" /\ pc'[p] = "inspect"
  <2>1. addr[p].kind \in {"tcp", "unix", "panic"}
    BY DEF PhaseInv
  <2>2. p \in DOMAIN pc
    BY DEF TypeOK
  <2> QED
    BY <2>1, <2>2 DEF Start
<1>2. \A q \in Process : q # p => pc'[q] = pc[q]
  BY <1>1 DEF TypeOK
<1>3. /\ p \notin Starting /\ rivals'[p] = Starting
      /\ \A q \in Starting : rivals'[q] = rivals[q] \cup {p}
      /\ \A q \in Process : q # p /\ q \notin Starting => rivals'[q] = rivals[q]
      /\ rivals' \in [Process -> SUBSET Process]
  <2>1. p \notin Starting /\ Starting \subseteq Process
    BY <1>1 DEF Starting
  <2>2. rivals' = [q \in Process |->
                     CASE q = p -> Starting
                       [] q \in Starting -> rivals[q] \cup {p}
                       [] OTHER -> rivals[q]]
    BY DEF Start
  <2> QED
    BY <2>1, <2>2 DEF TypeOK
<1>4. TypeOK'
  <2>1. pc' \in [Process -> Closed \cup Listening \cup {"listen"}]
    BY <1>1 DEF TypeOK, Closed, Idle
  <2>2. starts' \in 0 .. MaxStarts
    BY StartAssumption DEF Start, TypeOK
  <2> QED
    BY <1>0, <1>3, <2>1, <2>2 DEF TypeOK, Start
<1>5. PhaseInv' /\ AddrInv'
  BY <1>0, <1>1, <1>2 DEF PhaseInv, AddrInv, Idle
<1>6. ByInv'
  BY <1>0, <1>1, <1>2 DEF ByInv, Bound, Listening, Idle
<1>7. RivalInv'
  <2> SUFFICES ASSUME NEW r \in Process, NEW q \in Process, pc'[q] \notin Idle \cup {"serving"}
               PROVE  /\ r = q \/ r \in rivals'[q] \/ pc'[r] \in Idle \cup {"serving"}
                      /\ r \in rivals'[q] => q \in rivals'[r]
    BY DEF RivalInv, Starting
  <2>1. CASE q = p
    BY <1>2, <1>3, <2>1 DEF Starting
  <2>2. CASE q # p
    <3>1. q \in Starting /\ rivals'[q] = rivals[q] \cup {p}
      BY <1>2, <1>3, <2>2 DEF Starting
    <3>2. CASE r = p
      BY <1>3, <3>1, <3>2
    <3>3. CASE r # p
      <4>1. rivals[r] \subseteq rivals'[r]
        BY <1>3, <3>3 DEF TypeOK
      <4> QED
        BY <1>2, <3>1, <3>3, <4>1 DEF RivalInv
    <3> QED
      BY <3>2, <3>3
  <2> QED
    BY <2>1, <2>2
<1>8. RemoveInv'
  <2>1. \A q \in Process : (pc[q] \in {"recheck", "remove"})' =>
           q # p /\ pc[q] \in {"recheck", "remove"} /\ rivals[q] \subseteq rivals'[q]
    BY <1>1, <1>2, <1>3
  <2> QED
    BY <1>0, <2>1 DEF RemoveInv, Here
<1>9. ServeInv'
  <2>1. \A q \in Process : (pc[q] \in Bound)' =>
           q # p /\ pc[q] \in Bound /\ (rivals'[q] = {} => rivals[q] = {})
    BY <1>1, <1>2, <1>3 DEF Bound, Listening
  <2> QED
    BY <1>0, <2>1 DEF ServeInv, Here
<1>10. ForeignInv'
  BY <1>0, <1>1, <1>2 DEF ForeignInv, Here, Foreign, Owned, Idle
<1> QED
  BY <1>4, <1>5, <1>6, <1>7, <1>8, <1>9, <1>10

\* A start goes from one system call to the next and leaves the file as it is.
Advances(p, to) ==
    /\ Goto(p, to) /\ file' = file
    /\ to \in Closed \cup Listening /\ to \notin Idle \cup {"inspect", "bind_tcp"}
    /\ pc[p] \notin Idle \cup {"serving"}
    /\ pc[p] \in Bound => to \in Bound
    /\ to \in Bound => pc[p] \in Bound \cup {"bind_tcp"}
    /\ pc[p] = "bind_tcp" => to = "serving"
    /\ to = "remove" => pc[p] = "recheck"
    /\ to = "recheck" => pc[p] = "connect" /\ Refused(Here(p))
    /\ pc[p] = "inspect" => ~Foreign(Here(p))
    /\ inode' \in [Process -> Inode \cup {None}] /\ seen' \in [Process -> Inode \cup {None}]

LEMMA AdvancesInv ==
    ASSUME StartInv, NEW p \in Process, NEW to, Advances(p, to)
    PROVE  StartInv'
<1> USE DEF StartInv
<1>0. Path' = Path /\ addr' = addr /\ dial' = dial /\ rivals' = rivals /\ file' = file
  BY DEF Advances, Goto, Path
<1>1. /\ pc'[p] = to /\ pc' \in [Process -> Closed \cup Listening \cup {"listen"}]
      /\ \A q \in Process : q # p => pc'[q] = pc[q]
  BY DEF Advances, Goto, TypeOK
<1>2. TypeOK'
  BY <1>0, <1>1 DEF TypeOK, Advances, Goto
<1>3. PhaseInv' /\ AddrInv'
  BY <1>0, <1>1 DEF PhaseInv, AddrInv, Advances, Idle
<1>4. ByInv'
  BY <1>0, <1>1 DEF ByInv, Advances
<1>5. RivalInv'
  BY <1>0, <1>1 DEF RivalInv, Starting, Advances
<1>6. RemoveInv'
  <2> SUFFICES ASSUME NEW r \in Process, NEW q \in Process,
                      (pc[q] \in {"recheck", "remove"})', Here(q).by = r
               PROVE  r \in rivals[q]
    BY <1>0 DEF RemoveInv, Here
  <2>1. CASE q # p \/ to # "recheck"
    BY <1>1, <2>1 DEF RemoveInv, Advances
  <2>2. CASE q = p /\ to = "recheck"
    <3>1. pc[p] = "connect" /\ Refused(Here(p)) /\ addr[p].kind = "unix"
      BY <2>2 DEF Advances, PhaseInv, Idle
    <3>2. pc[r] \in Bound /\ pc[r] \notin Listening
      BY <2>2, <3>1, UnixPath DEF Refused, ByInv
    <3>3. pc[r] = "listen" /\ r # p /\ p \in Starting
      BY <3>1, <3>2 DEF Bound, Starting, Idle
    <3> QED
      BY <2>2, <3>3 DEF RivalInv, Idle
  <2> QED
    BY <2>1, <2>2
<1>7. ServeInv'
  BY <1>0, <1>1 DEF ServeInv, Here, Advances, PhaseInv, Idle
<1>8. ForeignInv'
  <2>1. \A q \in Process : Here(q)' = Here(q) /\ Foreign(Here(q))' = Foreign(Here(q))
    BY <1>0 DEF Here, Foreign, Owned
  <2> QED
    BY <1>0, <1>1, <2>1 DEF ForeignInv, Advances
<1> QED
  BY <1>2, <1>3, <1>4, <1>5, <1>6, <1>7, <1>8

\* The file is removed: nobody who is safe from p loses it.
LEMMA RemoveStepInv ==
    ASSUME StartInv, NEW p \in Process, pc[p] = "remove", Put(p, NoFile), Goto(p, "bind"),
           UNCHANGED <<inode, seen>>
    PROVE  StartInv'
<1> USE DEF StartInv
<1>0. Path' = Path /\ addr' = addr /\ dial' = dial /\ rivals' = rivals
  BY DEF Goto, Path
<1>1. /\ pc'[p] = "bind" /\ pc' \in [Process -> Closed \cup Listening \cup {"listen"}]
      /\ \A q \in Process : q # p => pc'[q] = pc[q]
  BY DEF Goto, TypeOK, Closed
<1>2. addr[p].kind = "unix" /\ addr[p] \in Path
  BY UnixPath DEF PhaseInv, Idle
<1>3. /\ file'[addr[p]] = NoFile
      /\ \A a \in Path : a # addr[p] => file'[a] = file[a]
  BY <1>2 DEF Put, TypeOK
<1>4. /\ NoFile.by = None
      /\ NoFile \in [inode : Inode \cup {None}, type : {"none", "socket", "other"},
                     own : BOOLEAN, mode : {"none", "umask", "private"},
                     by : Process \cup {None}]
  BY DEF NoFile
<1>5. TypeOK'
  <2>1. file' \in [Path -> [inode : Inode \cup {None}, type : {"none", "socket", "other"},
                            own : BOOLEAN, mode : {"none", "umask", "private"},
                            by : Process \cup {None}]]
    BY <1>2, <1>4 DEF Put, TypeOK
  <2> QED
    BY <1>0, <1>1, <2>1 DEF TypeOK, Goto
<1>6. PhaseInv' /\ AddrInv'
  BY <1>0, <1>1, <1>2 DEF PhaseInv, AddrInv
<1>7. ByInv'
  <2> SUFFICES ASSUME NEW a \in Path, NEW q \in Process, file'[a].by = q
               PROVE  addr[q] = a /\ pc'[q] \in Bound /\ Owned(file'[a])
    BY <1>0 DEF ByInv, Owned
  <2>1. a # addr[p] /\ file'[a] = file[a]
    BY <1>3, <1>4, StartAssumption
  <2> QED
    BY <1>1, <2>1 DEF ByInv
<1>8. RivalInv'
  BY <1>0, <1>1 DEF RivalInv, Starting, Idle
<1>9. RemoveInv'
  <2> SUFFICES ASSUME NEW r \in Process, NEW q \in Process,
                      (pc[q] \in {"recheck", "remove"})', Here(q)'.by = r
               PROVE  r \in rivals[q]
    BY <1>0 DEF RemoveInv
  <2>1. q # p /\ pc[q] \in {"recheck", "remove"}
    BY <1>1
  <2>2. addr[q] \in Path
    BY <2>1, UnixPath DEF PhaseInv, Idle
  <2>3. Here(q).by = r
    BY <1>0, <1>3, <1>4, <2>2, StartAssumption DEF Here
  <2> QED
    BY <2>1, <2>3 DEF RemoveInv
<1>10. ServeInv'
  <2> SUFFICES ASSUME NEW q \in Process, (pc[q] \in Bound)', addr[q].kind = "unix", rivals[q] = {}
               PROVE  Here(q)'.by = q
    BY <1>0 DEF ServeInv
  <2>1. q # p /\ pc[q] \in Bound
    BY <1>1 DEF Bound, Listening
  <2>2. addr[q] \in Path /\ Here(q).by = q
    BY <2>1, UnixPath DEF ServeInv
  <2>3. addr[q] # addr[p]
    <3> SUFFICES ASSUME addr[q] = addr[p] PROVE FALSE
      OBVIOUS
    <3>1. q \in rivals[p] /\ p \in Starting
      BY <2>2 DEF RemoveInv, Here, Starting, Idle
    <3> QED
      BY <3>1 DEF RivalInv
  <2> QED
    BY <1>0, <1>3, <2>2, <2>3 DEF Here
<1>11. ForeignInv'
  <2> SUFFICES ASSUME NEW q \in Process, addr[q].kind = "unix", Foreign(Here(q))'
               PROVE  pc'[q] \in Idle \cup {"inspect"}
    BY <1>0 DEF ForeignInv
  <2>1. addr[q] \in Path
    BY UnixPath
  <2>2. addr[q] # addr[p] /\ Foreign(Here(q))
    BY <1>0, <1>3, <2>1 DEF Foreign, Owned, Here
  <2> QED
    BY <1>1, <2>2 DEF ForeignInv
<1> QED
  BY <1>5, <1>6, <1>7, <1>8, <1>9, <1>10, <1>11

\* A socket is bound where there is no file: whoever is about to remove what
\* it finds there is a rival.
LEMMA BindStepInv ==
    ASSUME StartInv, NEW p \in Process, pc[p] = "bind", Here(p) = NoFile, NEW i \in Inode,
           inode' = [inode EXCEPT ![p] = i],
           Put(p, [inode |-> i, type |-> "socket", own |-> TRUE, mode |-> "umask", by |-> p]),
           Goto(p, "listen"), UNCHANGED seen
    PROVE  StartInv'
<1> USE DEF StartInv
<1>0. Path' = Path /\ addr' = addr /\ dial' = dial /\ rivals' = rivals
  BY DEF Goto, Path
<1>1. /\ pc'[p] = "listen" /\ pc' \in [Process -> Closed \cup Listening \cup {"listen"}]
      /\ \A q \in Process : q # p => pc'[q] = pc[q]
  BY DEF Goto, TypeOK
<1>2. addr[p].kind = "unix" /\ addr[p] \in Path
  BY UnixPath DEF PhaseInv, Idle
<1>3. PICK f : f = [inode |-> i, type |-> "socket", own |-> TRUE, mode |-> "umask", by |-> p]
  OBVIOUS
<1>4. /\ file' = [file EXCEPT ![addr[p]] = f]
      /\ file'[addr[p]] = f
      /\ \A a \in Path : a # addr[p] => file'[a] = file[a]
  BY <1>2, <1>3 DEF Put, TypeOK
<1>5. /\ f.by = p /\ Owned(f)
      /\ f \in [inode : Inode \cup {None}, type : {"none", "socket", "other"},
                own : BOOLEAN, mode : {"none", "umask", "private"},
                by : Process \cup {None}]
  BY <1>3 DEF Owned
<1>6. TypeOK'
  <2>1. file' \in [Path -> [inode : Inode \cup {None}, type : {"none", "socket", "other"},
                            own : BOOLEAN, mode : {"none", "umask", "private"},
                            by : Process \cup {None}]]
    BY <1>2, <1>4, <1>5 DEF TypeOK
  <2> QED
    BY <1>0, <1>1, <2>1 DEF TypeOK, Goto
<1>7. PhaseInv' /\ AddrInv'
  BY <1>0, <1>1, <1>2 DEF PhaseInv, AddrInv
<1>8. ByInv'
  <2> SUFFICES ASSUME NEW a \in Path, NEW q \in Process, file'[a].by = q
               PROVE  addr[q] = a /\ pc'[q] \in Bound /\ Owned(file'[a])
    BY <1>0 DEF ByInv, Owned
  <2>1. CASE a = addr[p]
    BY <1>1, <1>4, <1>5, <2>1 DEF Bound
  <2>2. CASE a # addr[p]
    <3>1. file'[a] = file[a] /\ addr[q] = a /\ pc[q] \in Bound /\ Owned(file[a])
      BY <1>4, <2>2 DEF ByInv
    <3> QED
      BY <1>1, <2>2, <3>1
  <2> QED
    BY <2>1, <2>2
<1>9. RivalInv'
  BY <1>0, <1>1 DEF RivalInv, Starting, Idle
<1>10. RemoveInv'
  <2> SUFFICES ASSUME NEW r \in Process, NEW q \in Process,
                      (pc[q] \in {"recheck", "remove"})', Here(q)'.by = r
               PROVE  r \in rivals[q]
    BY <1>0 DEF RemoveInv
  <2>1. q # p /\ pc[q] \in {"recheck", "remove"} /\ q \in Starting
    BY <1>1 DEF Starting, Idle
  <2>2. addr[q] \in Path
    BY <2>1, UnixPath DEF PhaseInv, Idle
  <2>3. CASE addr[q] = addr[p]
    <3>1. r = p
      BY <1>0, <1>4, <1>5, <2>3 DEF Here
    <3> QED
      BY <2>1, <3>1 DEF RivalInv, Idle
  <2>4. CASE addr[q] # addr[p]
    BY <1>0, <1>4, <2>1, <2>2, <2>4 DEF RemoveInv, Here
  <2> QED
    BY <2>3, <2>4
<1>11. ServeInv'
  <2> SUFFICES ASSUME NEW q \in Process, (pc[q] \in Bound)', addr[q].kind = "unix", rivals[q] = {}
               PROVE  Here(q)'.by = q
    BY <1>0 DEF ServeInv
  <2>1. CASE q = p
    BY <1>0, <1>4, <1>5, <2>1 DEF Here
  <2>2. CASE q # p
    <3>1. addr[q] \in Path /\ Here(q).by = q
      BY <1>1, <2>2, UnixPath DEF ServeInv
    <3>2. NoFile.by # q
      BY StartAssumption DEF NoFile
    <3> QED
      BY <1>0, <1>4, <3>1, <3>2 DEF Here
  <2> QED
    BY <2>1, <2>2
<1>12. ForeignInv'
  <2> SUFFICES ASSUME NEW q \in Process, addr[q].kind = "unix", Foreign(Here(q))'
               PROVE  pc'[q] \in Idle \cup {"inspect"}
    BY <1>0 DEF ForeignInv
  <2>1. addr[q] \in Path /\ Foreign(file'[addr[q]])
    BY <1>0, UnixPath DEF Foreign, Owned, Here
  <2>2. addr[q] # addr[p] /\ Foreign(Here(q))
    BY <1>4, <1>5, <2>1 DEF Foreign, Here
  <2> QED
    BY <1>1, <2>2 DEF ForeignInv
<1> QED
  BY <1>6, <1>7, <1>8, <1>9, <1>10, <1>11, <1>12

\* The mode of a file changes, nothing the argument is about.
LEMMA ChmodStepInv ==
    ASSUME StartInv, NEW p \in Process, pc[p] = "chmod", Here(p) # NoFile, SetMode(p),
           Goto(p, "verify"), UNCHANGED <<inode, seen>>
    PROVE  StartInv'
<1> USE DEF StartInv
<1>0. Path' = Path /\ addr' = addr /\ dial' = dial /\ rivals' = rivals
  BY DEF Goto, Path
<1>1. /\ pc'[p] = "verify" /\ pc' \in [Process -> Closed \cup Listening \cup {"listen"}]
      /\ \A q \in Process : q # p => pc'[q] = pc[q]
      /\ pc[p] \in Bound /\ pc'[p] \in Bound
  BY DEF Goto, TypeOK, Listening, Bound
<1>2. addr[p].kind = "unix" /\ addr[p] \in Path
  BY UnixPath DEF PhaseInv, Idle
<1>3. file' = [file EXCEPT ![addr[p]] = [Here(p) EXCEPT !.mode = "private"]]
  BY DEF SetMode, Put
<1>4. \A a \in Path : /\ file'[a].by = file[a].by /\ Owned(file'[a]) = Owned(file[a])
                      /\ Foreign(file'[a]) => Foreign(file[a])
  <2>1. \A a \in Path : a # addr[p] => file'[a] = file[a]
    BY <1>2, <1>3 DEF TypeOK
  <2>2. PICK f : f = file[addr[p]]
    OBVIOUS
  <2>3. f \in [inode : Inode \cup {None}, type : {"none", "socket", "other"},
               own : BOOLEAN, mode : {"none", "umask", "private"},
               by : Process \cup {None}]
    BY <1>2, <2>2 DEF TypeOK
  <2>4. file'[addr[p]] = [f EXCEPT !.mode = "private"] /\ f # NoFile
    BY <1>2, <1>3, <2>2 DEF TypeOK, Here
  <2>5. LET g == file'[addr[p]] IN g.by = f.by /\ g.type = f.type /\ g.own = f.own
    BY <2>3, <2>4
  <2> QED
    BY <2>1, <2>2, <2>4, <2>5, ZenonT(40) DEF Owned, Foreign
<1>5. TypeOK'
  <2>1. file' \in [Path -> [inode : Inode \cup {None}, type : {"none", "socket", "other"},
                            own : BOOLEAN, mode : {"none", "umask", "private"},
                            by : Process \cup {None}]]
    BY <1>2, <1>3, SMTT(40) DEF TypeOK, Here
  <2> QED
    BY <1>0, <1>1, <2>1 DEF TypeOK, Goto
<1>6. PhaseInv' /\ AddrInv'
  BY <1>0, <1>1, <1>2 DEF PhaseInv, AddrInv
<1>7. ByInv'
  <2> SUFFICES ASSUME NEW a \in Path, NEW q \in Process, file'[a].by = q
               PROVE  addr[q] = a /\ pc'[q] \in Bound /\ Owned(file'[a])
    BY <1>0 DEF ByInv, Owned
  <2> QED
    BY <1>1, <1>4 DEF ByInv
<1>8. RivalInv'
  BY <1>0, <1>1 DEF RivalInv, Starting, Idle, Bound, Listening
<1>9. \A q \in Process : addr[q].kind = "unix" =>
         /\ Here(q)'.by = Here(q).by
         /\ Foreign(Here(q))' => Foreign(Here(q))
  <2>1. \A q \in Process : Here(q)' = file'[addr[q]] /\ Foreign(Here(q))' = Foreign(file'[addr[q]])
    BY <1>0 DEF Here, Foreign, Owned
  <2> QED
    BY <1>4, <2>1, UnixPath DEF Here
<1>10. RemoveInv'
  <2>1. \A q \in Process : (pc[q] \in {"recheck", "remove"})' =>
           pc[q] \in {"recheck", "remove"} /\ addr[q].kind = "unix"
    BY <1>1 DEF PhaseInv, Idle
  <2> QED
    BY <1>0, <1>9, <2>1 DEF RemoveInv
<1>11. ServeInv'
  BY <1>0, <1>1, <1>9 DEF ServeInv
<1>12. ForeignInv'
  <2>1. pc[p] \notin Idle \cup {"inspect"}
    BY DEF Idle
  <2> QED
    BY <1>0, <1>1, <1>9, <2>1 DEF ForeignInv
<1> QED
  BY <1>5, <1>6, <1>7, <1>8, <1>10, <1>11, <1>12

-----------------------------------------------------------------------------
(* Every action is one of these.                                           *)

\* What a step of p may be.
Kinds(p) ==
    \/ \E st \in Idle : pc[p] \notin Idle /\ Ends(p, st)
    \/ \E to : Advances(p, to)
    \/ pc[p] = "remove" /\ Put(p, NoFile) /\ Goto(p, "bind") /\ UNCHANGED <<inode, seen>>
    \/ /\ pc[p] = "bind" /\ Here(p) = NoFile
       /\ \E i \in Inode :
             /\ inode' = [inode EXCEPT ![p] = i]
             /\ Put(p, [inode |-> i, type |-> "socket", own |-> TRUE, mode |-> "umask", by |-> p])
       /\ Goto(p, "listen") /\ UNCHANGED seen
    \/ /\ pc[p] = "chmod" /\ Here(p) # NoFile /\ SetMode(p)
       /\ Goto(p, "verify") /\ UNCHANGED <<inode, seen>>

LEMMA StepKinds ==
    ASSUME StartInv, NEW p \in Process, Step(p) \/ Kill(p)
    PROVE  Kinds(p)
<1> USE DEF StartInv
<1>0. "failed" \in Idle /\ "down" \in Idle
  BY DEF Idle
<1>1. CASE pc[p] \notin Idle /\ \E st \in Idle : Ends(p, st)
  BY <1>1 DEF Kinds
<1> DEFINE Same == UNCHANGED <<file, inode, seen>>
<1>2. Same => file' = file /\ inode' \in [Process -> Inode \cup {None}]
                           /\ seen' \in [Process -> Inode \cup {None}]
  BY DEF TypeOK
<1>3. ASSUME Owned(Here(p)), addr[p].kind = "unix", NEW s,
             s = [seen EXCEPT ![p] = Here(p).inode]
      PROVE  s \in [Process -> Inode \cup {None}]
  BY <1>3, UnixPath DEF TypeOK
<1>4. pc[p] \notin Idle \cup {"bind_tcp"} /\ addr[p].kind # "tcp" => addr[p].kind = "unix"
  BY DEF PhaseInv
<1> HIDE DEF Same
<1>5. CASE BindTcp(p)
  <2>1. CASE Ends(p, "failed")
    BY <1>0, <1>1, <1>5, <2>1 DEF BindTcp, Idle
  <2>2. CASE Goto(p, "serving") /\ Same
    <3>1. Advances(p, "serving")
      BY <1>2, <1>5, <2>2 DEF BindTcp, Advances, Idle, Closed, Listening, Bound
    <3> QED
      BY <3>1 DEF Kinds
  <2> QED
    BY <1>5, <2>1, <2>2 DEF BindTcp, Same
<1>6. CASE Inspect(p)
  <2>1. CASE Ends(p, "failed")
    BY <1>0, <1>1, <1>6, <2>1 DEF Inspect, Idle
  <2>2. CASE Here(p) = NoFile /\ Goto(p, "bind") /\ Same
    <3>1. Advances(p, "bind")
      BY <1>2, <1>6, <2>2 DEF Inspect, Advances, Idle, Closed, Listening, Bound, Foreign
    <3> QED
      BY <3>1 DEF Kinds
  <2>3. CASE /\ Owned(Here(p))
             /\ seen' = [seen EXCEPT ![p] = Here(p).inode]
             /\ Goto(p, "connect")
             /\ UNCHANGED <<file, inode>>
    <3>0. seen' \in [Process -> Inode \cup {None}] /\ inode' \in [Process -> Inode \cup {None}]
      BY <1>3, <1>6, <2>3 DEF Inspect, PhaseInv, Idle, TypeOK
    <3>1. Advances(p, "connect")
      BY <1>6, <2>3, <3>0 DEF Inspect, Advances, Idle, Closed, Listening, Bound, Foreign
    <3> QED
      BY <3>1 DEF Kinds
  <2> QED
    BY <1>6, <2>1, <2>2, <2>3 DEF Inspect, Same
<1>7. CASE Connect(p)
  <2>1. CASE Ends(p, "failed")
    BY <1>0, <1>1, <1>7, <2>1 DEF Connect, Idle
  <2>2. CASE Goto(p, "bind") /\ Same
    <3>1. Advances(p, "bind")
      BY <1>2, <1>7, <2>2 DEF Connect, Advances, Idle, Closed, Listening, Bound
    <3> QED
      BY <3>1 DEF Kinds
  <2>3. CASE Refused(Here(p)) /\ Goto(p, "recheck") /\ Same
    <3>1. Advances(p, "recheck")
      BY <1>2, <1>7, <2>3 DEF Connect, Advances, Idle, Closed, Listening, Bound
    <3> QED
      BY <3>1 DEF Kinds
  <2> QED
    BY <1>7, <2>1, <2>2, <2>3 DEF Connect, Same
<1>8. CASE Recheck(p)
  <2>1. CASE Ends(p, "failed")
    BY <1>0, <1>1, <1>8, <2>1 DEF Recheck, Idle
  <2>2. CASE Goto(p, "remove") /\ Same
    <3>1. Advances(p, "remove")
      BY <1>2, <1>8, <2>2 DEF Recheck, Advances, Idle, Closed, Listening, Bound
    <3> QED
      BY <3>1 DEF Kinds
  <2> QED
    BY <1>8, <2>1, <2>2 DEF Recheck, Same
<1>9. CASE Remove(p)
  <2>1. CASE Ends(p, "failed")
    BY <1>0, <1>1, <1>9, <2>1 DEF Remove, Idle
  <2>2. CASE ~Ends(p, "failed")
    BY <1>9, <2>2 DEF Remove, Kinds
  <2> QED
    BY <2>1, <2>2
<1>10. CASE Bind(p)
  <2>1. CASE Ends(p, "failed")
    BY <1>0, <1>1, <1>10, <2>1 DEF Bind, Idle
  <2>2. CASE ~Ends(p, "failed")
    BY <1>10, <2>2 DEF Bind, Kinds
  <2> QED
    BY <2>1, <2>2
<1>11. CASE Listen(p)
  <2>1. Goto(p, "permissions") /\ Same
    BY <1>11 DEF Listen, Same
  <2>2. Advances(p, "permissions")
    BY <1>2, <1>11, <2>1 DEF Listen, Advances, Idle, Closed, Listening, Bound
  <2> QED
    BY <2>2 DEF Kinds
<1>12. CASE Permissions(p)
  <2>1. CASE Ends(p, "failed")
    BY <1>0, <1>1, <1>12, <2>1 DEF Permissions, Idle
  <2>2. CASE /\ Owned(Here(p))
             /\ seen' = [seen EXCEPT ![p] = Here(p).inode]
             /\ Goto(p, "chmod")
             /\ UNCHANGED <<file, inode>>
    <3>0. seen' \in [Process -> Inode \cup {None}] /\ inode' \in [Process -> Inode \cup {None}]
      BY <1>3, <1>12, <2>2 DEF Permissions, PhaseInv, Idle, TypeOK
    <3>1. Advances(p, "chmod")
      BY <1>12, <2>2, <3>0 DEF Permissions, Advances, Idle, Closed, Listening, Bound
    <3> QED
      BY <3>1 DEF Kinds
  <2> QED
    BY <1>12, <2>1, <2>2 DEF Permissions
<1>13. CASE Chmod(p)
  <2>1. CASE Ends(p, "failed")
    BY <1>0, <1>1, <1>13, <2>1 DEF Chmod, Idle
  <2>2. CASE ~Ends(p, "failed")
    BY <1>13, <2>2 DEF Chmod, Kinds
  <2> QED
    BY <2>1, <2>2
<1>14. CASE Verify(p)
  <2>1. CASE Ends(p, "failed")
    BY <1>0, <1>1, <1>14, <2>1 DEF Verify, Idle
  <2>2. CASE Goto(p, "serving") /\ Same
    <3>1. Advances(p, "serving")
      BY <1>2, <1>14, <2>2 DEF Verify, Advances, Idle, Closed, Listening, Bound
    <3> QED
      BY <3>1 DEF Kinds
  <2> QED
    BY <1>14, <2>1, <2>2 DEF Verify, Same
<1>15. CASE Kill(p)
  BY <1>0, <1>1, <1>15 DEF Kill
<1> QED
  BY <1>5, <1>6, <1>7, <1>8, <1>9, <1>10, <1>11, <1>12, <1>13, <1>14, <1>15 DEF Step

\* A step preserves the invariant and leaves foreign files alone.
LEMMA NextInv ==
    ASSUME StartInv, [Next]_vars
    PROVE  /\ StartInv'
           /\ \A a \in Path : Foreign(file[a]) => file'[a] = file[a]
<1> DEFINE Kept == \A a \in Path : Foreign(file[a]) => file'[a] = file[a]
<1>1. CASE UNCHANGED vars
  <2>1. StartInv'
    BY <1>1 DEF vars, StartInv, TypeOK, PhaseInv, AddrInv, ByInv, RivalInv, RemoveInv, ServeInv,
                ForeignInv, Path, Here, Starting, Foreign, Owned
  <2> QED
    BY <1>1, <2>1 DEF vars
<1>2. ASSUME NEW p \in Process, Start(p)
      PROVE  StartInv' /\ Kept
  BY <1>2, StartStepInv DEF Start
<1>3. ASSUME NEW p \in Process, Step(p) \/ Kill(p)
      PROVE  StartInv' /\ Kept
  <2>0. ASSUME pc[p] \in {"remove", "bind", "chmod"}, NEW f,
               file' = [file EXCEPT ![addr[p]] = f]
        PROVE  Kept
    <3>1. addr[p].kind = "unix" /\ pc[p] \notin Idle \cup {"inspect"}
      BY <2>0 DEF StartInv, PhaseInv, Idle
    <3>2. ~Foreign(file[addr[p]])
      BY <3>1 DEF StartInv, ForeignInv, Here
    <3> QED
      BY <2>0, <3>2 DEF StartInv, TypeOK
  <2>1. ASSUME NEW st \in Idle, pc[p] \notin Idle, Ends(p, st)
        PROVE  StartInv' /\ Kept
    <3>1. \A a \in Path : Foreign(file[a]) => file[a].by # p
      BY DEF StartInv, ByInv, Foreign
    <3> QED
      BY <2>1, <3>1, EndsInv DEF Ends
  <2>2. ASSUME NEW to, Advances(p, to)
        PROVE  StartInv' /\ Kept
    BY <2>2, AdvancesInv DEF Advances
  <2>3. CASE pc[p] = "remove" /\ Put(p, NoFile) /\ Goto(p, "bind") /\ UNCHANGED <<inode, seen>>
    BY <2>0, <2>3, RemoveStepInv DEF Put
  <2>4. CASE /\ pc[p] = "bind" /\ Here(p) = NoFile
             /\ \E i \in Inode :
                   /\ inode' = [inode EXCEPT ![p] = i]
                   /\ Put(p, [inode |-> i, type |-> "socket", own |-> TRUE,
                              mode |-> "umask", by |-> p])
             /\ Goto(p, "listen") /\ UNCHANGED seen
    BY <2>0, <2>4, BindStepInv DEF Put
  <2>5. CASE /\ pc[p] = "chmod" /\ Here(p) # NoFile /\ SetMode(p)
             /\ Goto(p, "verify") /\ UNCHANGED <<inode, seen>>
    BY <2>0, <2>5, ChmodStepInv DEF SetMode, Put
  <2> QED
    BY <1>3, <2>1, <2>2, <2>3, <2>4, <2>5, StepKinds DEF Kinds
<1> QED
  BY <1>1, <1>2, <1>3 DEF Next

-----------------------------------------------------------------------------
(* The theorems.                                                           *)

\* The inductive invariant: processes, files and rivals are related as the
\* parts above say, through every order of system calls, starts and kills.
THEOREM StartInvariant == Spec => []StartInv
<1>1. StartInv /\ [Next]_vars => StartInv'
  BY NextInv
<1> QED
  BY <1>1, InitInv, PTL DEF Spec

\* prepare_for_bind removes only a stale socket or one of an overlapping start.
THEOREM EstablishedSafe == Spec => []EstablishedIsSafe
<1>1. StartInv => EstablishedIsSafe
  BY DEF StartInv, RemoveInv, EstablishedIsSafe
<1> QED
  BY <1>1, StartInvariant, PTL

\* A client that resolves the address in the router's environment reaches
\* the router, for every environment and both ways to start a router.
THEOREM ClientsFindRouter == Spec => []ClientFindsRouter
<1>1. StartInv => ClientFindsRouter
  <2> SUFFICES ASSUME StartInv, NEW p \in Process, pc[p] = "serving", rivals[p] = {}
               PROVE  Answers(p, dial)
    BY DEF ClientFindsRouter
  <2>1. addr[p] = dial /\ addr[p].kind \in {"tcp", "unix"}
    BY DEF StartInv, PhaseInv, AddrInv, Idle
  <2>2. CASE addr[p].kind = "tcp"
    BY <2>1, <2>2 DEF Answers
  <2>3. CASE addr[p].kind = "unix"
    <3>1. pc[p] \in Bound /\ pc[p] \in Listening
      BY DEF Bound, Listening
    <3> QED
      BY <2>1, <2>3, <3>1, UnixPath DEF StartInv, ServeInv, Answers
  <2> QED
    BY <2>1, <2>2, <2>3
<1> QED
  BY <1>1, StartInvariant, PTL

\* No step of a start or of a process's end touches a file that is no socket
\* or another user's.
THEOREM ForeignFilesKept == Spec => OthersAreKept
<1>1. StartInv /\ [Next]_vars =>
         [\A a \in Path :
             file[a] # NoFile /\ ~(file[a].type = "socket" /\ file[a].own)
                 => file'[a] = file[a]]_vars
  BY NextInv DEF Foreign, Owned
<1> QED
  BY <1>1, StartInvariant, PTL DEF Spec, OthersAreKept
=============================================================================
