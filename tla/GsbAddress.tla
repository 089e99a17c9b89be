---------------------------- MODULE GsbAddress ----------------------------
(***************************************************************************)
(* Where a router listens and where a client dials (crates/proto/src/      *)
(* lib.rs).  Both derive it from their environment: the variable GSB_URL,  *)
(* or else a default that depends on the platform.  The library (a client, *)
(* or a router inside another program) uses the default as a path; the     *)
(* router binary turns it into a URL, which percent-encodes it, and back.  *)
(*                                                                         *)
(* A path is a sequence of parts, and a part a name with the number of     *)
(* times it is percent-encoded.  A URL has a scheme and parts: a path, or  *)
(* a host with or without a port.  A text such as 127.0.0.1:7464 is no URL *)
(* ("bare"); one such as host:7464 is a URL with the scheme host.          *)
(***************************************************************************)
EXTENDS Naturals, Sequences

CONSTANT
    Special   \* names with characters that a URL percent-encodes

\* A part that is not encoded.
Part(name) == [name |-> name, enc |-> 0]

NoUrl == [scheme |-> "none", at |-> <<>>]
Url(scheme, at) == [scheme |-> scheme, at |-> at]

\* GsbAddr; "panic" stands for the panics of from_url.
Tcp(at) == [kind |-> "tcp", at |-> at]
Unix(path) == [kind |-> "unix", at |-> path]
Panic == [kind |-> "panic", at |-> <<>>]

-----------------------------------------------------------------------------

APP_DIR == Part("yagna")
RUN_DIR == Part("run")
SOCKET_NAME == Part("gsb.sock")
DEFAULT_GSB_PORT == Part("7464")

\* linux_default_gsb_endpoint for the default data directory.
LinuxDefault(data_dir, runtime_dir) ==
    IF runtime_dir # <<>>
    THEN runtime_dir \o <<APP_DIR, SOCKET_NAME>>
    ELSE data_dir \o <<RUN_DIR, SOCKET_NAME>>

\* macos_default_gsb_endpoint for the default data directory.
MacosDefault(temp_dir) == temp_dir \o <<APP_DIR, SOCKET_NAME>>

\* default_unix_gsb_endpoint.  env is what a process sees of its
\* environment: the platform, GSB_URL, an XDG_RUNTIME_DIR that is set and
\* absolute (or <<>>), the temporary and the data directory.
DefaultPath(env) ==
    CASE env.platform = "linux" -> LinuxDefault(env.data_dir, env.runtime_dir)
      [] env.platform = "macos" -> MacosDefault(env.temp_dir)
      [] OTHER                  -> LinuxDefault(env.data_dir, <<>>)

Encode(path) ==
    [i \in DOMAIN path |->
        IF path[i].name \in Special THEN [path[i] EXCEPT !.enc = @ + 1] ELSE path[i]]

Decode(path) ==
    [i \in DOMAIN path |->
        IF path[i].enc > 0 THEN [path[i] EXCEPT !.enc = @ - 1] ELSE path[i]]

\* GeneratedGsbEndpoint::into_url, of the default: default_gsb_url.
DefaultUrl(env) == Url("unix", Encode(DefaultPath(env)))

\* parse_tcp_url: the port may be left out, the host may not.
ParseTcp(at) ==
    CASE at = <<>> -> Panic
      [] at # <<>> -> Tcp(IF Len(at) = 1 THEN Append(at, DEFAULT_GSB_PORT) ELSE at)

ParseUnix_Raw(at) == at

\* parse_unix_url: Url::to_file_path decodes.
ParseUnix(at) == Decode(at)

\* GsbAddr::from_url: the argument, else GSB_URL with tcp:// put before a
\* bare host and port, else the default as a path.
FromUrl(url, env) ==
    LET bare  == url = NoUrl /\ env.gsb_url.scheme = "bare"
        given == IF url = NoUrl THEN env.gsb_url ELSE url
    IN  CASE given = NoUrl                  -> Unix(DefaultPath(env))
          [] given.scheme = "tcp" \/ bare   -> ParseTcp(given.at)
          [] given.scheme = "unix"          -> Unix(ParseUnix(given.at))
          [] OTHER                          -> Panic

\* GsbAddr::default: what a client dials, and bind_gsb_router(None).
LibraryAddr(env) == FromUrl(NoUrl, env)

\* The router binary: the option -l is read from GSB_URL too, but must be a
\* URL, or the process ends with a usage error; without it, default_gsb_url.
BinaryAddr(env) ==
    CASE env.gsb_url.scheme = "bare" -> Panic
      [] env.gsb_url = NoUrl         -> FromUrl(DefaultUrl(env), env)
      [] OTHER                       -> FromUrl(env.gsb_url, env)
=============================================================================
