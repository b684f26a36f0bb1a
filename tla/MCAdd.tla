------------------------------- MODULE MCAdd -------------------------------
(* Every type on its own over the states of a host, and then commands that *)
(* overlap on one file, and autoadd.                                       *)
EXTENDS Add, TLC

CONSTANT v   \* what a getter reads: any value, and the same as long as nothing changes

V == {v}
B == BOOLEAN

AddrHosts == [dial : B]
CommandHosts == [run : {"ok", "exit", "nostart", "timeout"}, out : {"", "blank", "lines"}]
DNSHosts == [server : B, qtype : {"", "A", "CNAME", "PTR", "MX"}, fails : SUBSET {"A", "PTR"}, slow : {"none", "first", "all"}, v : V,
             reply : {<<>>, <<"A">>, <<"CNAME", "A">>, <<"PTR">>, <<"CNAME", "PTR">>}]
DNSHostsRest == [server : {TRUE}, qtype : {"AAAA", "NS", "SRV", "TXT", "CAA"}, fails : {{}, {"SRV"}}, slow : {"none"}, v : V,
                 reply : {<<>>, <<"AAAA">>, <<"NS", "A">>, <<"SRV">>, <<"TXT", "CAA">>}]
FileHosts == [home : B, lstat : {"ok", "notexist", "denied"}, named : B, link : B, open : B, v : V]
GroupHosts == [known : B, v : V]
UserHosts == {h \in [known : B, groupFile : B, inPasswd : B, v : V] : h.inPasswd => h.known}
InterfaceHosts == [found : B, addrsRead : B, v : V]
KernelParamHosts == [found : B, v : V]
MountHosts == [entry : {"found", "notfound", "timeout"}, statfs : B, v : V]
PortHosts == [read : B, open : B, owned : B, v : V]
ProcessHosts == [list : {"ok", "error"}, running : B, readable : B, ports : {{}}, portsRead : {TRUE}, v : V]
HTTPHosts == [fails : {"nothing", "proxy", "cert", "request", "exchange"}, v : V]
RegistryHosts == [windows : B, path : {"valid", "invalid"}, opens : B, default : B, set : B, type : {"SZ", "NONE"}, v : V]
Files == {{}, {"lsb-release Ubuntu"}, {"redhat-release"}, {"alpine-release"}, {"arch-release"}, {"debian_version"}}
PackageHosts == [query : B, line : {"install ok installed", "hold ok installed", "deinstall ok config-files", "WARNING"}, v : V,
                 package : {"", "dpkg", "apk", "pacman", "rpm", "none"}, files : Files, path : {{}, {"rpm", "apk"}, {"pacman"}}]
\* The init scripts with every manager, and each manager's own answers.
ServiceHosts ==
    {h \in [slash : B, initd : B, rclinks : B, service : {"absent", "zero", "nonzero"}, unit : B,
            isEnabled : {"zero", "nonzero"}, isActive : {"zero", "nonzero"}, conf : B, manual : B, startOn : B, saysRunning : B,
            debian8 : B, files : {{}, {"lsb-release Ubuntu"}, {"alpine-release"}, {"arch-release"}, {"debian_version"}},
            path : {{}, {"systemctl"}}, windows : B, v : V] :
        /\ h.windows => h.path = {} /\ h.files = {} /\ ~h.slash /\ ~h.initd /\ ~h.rclinks
        /\ h.path = {} /\ ~h.windows => h.isEnabled = "zero" /\ h.isActive = "zero" /\ ~h.unit
        /\ (h.path # {} \/ "lsb-release Ubuntu" \notin h.files) => ~h.conf /\ ~h.manual /\ ~h.startOn /\ ~h.saysRunning
        /\ h.path # {} => h.files \in {{}, {"debian_version"}}
        /\ h.slash => h.initd /\ h.rclinks
        /\ h.debian8 => h.files = {"debian_version"}}

NoFile == [state |-> "missing", text |-> None]
Whole(text) == [state |-> "whole", text |-> text]
OneSpelling == [x \in {} |-> ""]

Alone(type, ext, host, ignore) ==
    [ext |-> ext, start |-> NoFile, canon |-> OneSpelling, host |-> <<type, "a">> :> host,
     cmds |-> 1 :> [op |-> "add", type |-> type, keys |-> <<"a">>, ignore |-> ignore]]

\* Every state of a host is recorded and validated, in full and as little as
\* --exclude-attr allows.
EveryHost(type, hosts) == {Alone(type, ".json", h, i) : h \in hosts, i \in {{}, {"*"}}}

EveryType ==
    EveryHost("addr", AddrHosts) \cup EveryHost("command", CommandHosts) \cup EveryHost("dns", DNSHosts \cup DNSHostsRest) \cup
    EveryHost("file", FileHosts) \cup EveryHost("group", GroupHosts) \cup EveryHost("user", UserHosts) \cup
    EveryHost("interface", InterfaceHosts) \cup EveryHost("kernel-param", KernelParamHosts) \cup
    EveryHost("mount", MountHosts) \cup EveryHost("port", PortHosts) \cup EveryHost("process", ProcessHosts) \cup
    EveryHost("http", HTTPHosts) \cup EveryHost("package", PackageHosts) \cup EveryHost("service", ServiceHosts) \cup
    EveryHost("registry", RegistryHosts) \cup EveryHost("gossfile", {<<>>}) \cup {Alone("addr", ".txt", [dial |-> TRUE], {})}

-----------------------------------------------------------------------------

GoodFile == [home |-> TRUE, lstat |-> "ok", named |-> TRUE, link |-> FALSE, open |-> TRUE, v |-> v]
FileTest == Entry([exists |-> TRUE], "none")

\* Two commands with a key in common, one of which may meet a file it is not
\* allowed to look at.
Overlap ==
    {[ext |-> ext, start |-> start, canon |-> OneSpelling,
      host |-> <<"file", "a">> :> GoodFile @@ <<"file", "b">> :> [GoodFile EXCEPT !.lstat = b],
      cmds |-> 1 :> [op |-> "add", type |-> "file", keys |-> <<"a", "b">>, ignore |-> {}] @@
               2 :> [op |-> "add", type |-> "file", keys |-> <<"a">>, ignore |-> {}]] :
        ext \in {".json", ".yml"}, b \in {"notexist", "denied"},
        start \in {NoFile, Whole(<<"file", "c">> :> FileTest @@ <<"file", "a">> :> FileTest)}}

\* Two spellings of one key, by two commands.
TwoSpellings(type, a, b, h) ==
    [ext |-> ".json", start |-> Whole(<<type, b>> :> FileTest), host |-> <<type, b>> :> h, canon |-> <<type, a>> :> b,
     cmds |-> 1 :> [op |-> "add", type |-> type, keys |-> <<a>>, ignore |-> {}] @@
              2 :> [op |-> "add", type |-> type, keys |-> <<b, a>>, ignore |-> {}]]

Spellings ==
    {TwoSpellings("port", "80", "tcp:80", [read |-> TRUE, open |-> TRUE, owned |-> TRUE, v |-> v]),
     TwoSpellings("file", "a", "/a", GoodFile), TwoSpellings("addr", "a:1", "tcp://a:1", [dial |-> TRUE])}

-----------------------------------------------------------------------------

AutoHosts(k, slash, group, open, process, listening, systemctl) ==
    <<"file", k>> :> GoodFile @@ <<"group", k>> :> [known |-> group, v |-> v] @@
    <<"package", k>> :> [query |-> TRUE, line |-> "x", v |-> v, package |-> "rpm", files |-> {}, path |-> {}] @@
    <<"port", "tcp:k">> :> [read |-> TRUE, open |-> open, owned |-> TRUE, v |-> v] @@
    <<"port", "own">> :> [read |-> TRUE, open |-> listening, owned |-> TRUE, v |-> v] @@
    <<"process", k>> :> process @@
    <<"service", k>> :> [slash |-> slash, initd |-> FALSE, rclinks |-> FALSE, service |-> "absent", unit |-> TRUE,
                         isEnabled |-> "zero", isActive |-> "nonzero", conf |-> FALSE, manual |-> FALSE, startOn |-> FALSE,
                         saysRunning |-> FALSE, debian8 |-> FALSE, files |-> {}, path |-> systemctl, windows |-> FALSE, v |-> v] @@
    <<"user", k>> :> [known |-> ~group, groupFile |-> TRUE, inPasswd |-> FALSE, v |-> v]

AutoAdd ==
    {[ext |-> ".yaml", start |-> start, canon |-> <<"port", "k">> :> "tcp:k",
      host |-> AutoHosts("k", slash, group, open, process, listening, systemctl),
      cmds |-> 1 :> [op |-> "autoadd", keys |-> <<"k">>, ignore |-> {}]] :
        start \in {NoFile, Whole(<<"port", "own">> :> Entry([listening |-> FALSE], "mine"))},
        slash \in B, group \in B, open \in B, listening \in B, systemctl \in {{}, {"systemctl"}},
        process \in [list : {"ok", "error"}, running : B, readable : {TRUE}, ports : {{}, {"own"}}, portsRead : B, v : V]}

MCScenarios == EveryType \cup Overlap \cup Spellings \cup AutoAdd
=============================================================================
