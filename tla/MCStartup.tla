---------------------------- MODULE MCStartup ----------------------------
(* An instance of RouterStartup for TLC: environments for every way an     *)
(* address is resolved.                                                    *)
EXTENDS RouterStartup

Home == <<Part("my data")>>
Run == <<Part("run")>>
Host == <<Part("127.0.0.1")>>
HostPort == <<Part("127.0.0.1"), Part("7500")>>

Env(platform, url, runtime) ==
    [platform |-> platform, gsb_url |-> url, runtime_dir |-> runtime,
     temp_dir |-> Run, data_dir |-> Home]

Environments ==
    {Env(pl, NoUrl, r) : pl \in {"linux", "macos", "unix"}, r \in {<<>>, Run}}
    \cup {Env("linux", u, Run) :
             u \in {Url("tcp", Host), Url("tcp", <<>>), Url("bare", HostPort),
                    Url("other", HostPort), Url("unix", Encode(LinuxDefault(Home, <<>>)))}}
=============================================================================
