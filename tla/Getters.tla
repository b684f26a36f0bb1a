------------------------------ MODULE Getters ------------------------------
(***************************************************************************)
(* What the system package answers.  Every operator takes the relevant     *)
(* state of a host and gives, for each getter of the resource, its value   *)
(* and whether it came with an error; a value other than a truth value is  *)
(* the token v of the host, NoValue is Go's zero value, and Empty an empty *)
(* list.                                                                   *)
(***************************************************************************)
EXTENDS Naturals, Sequences

NoValue == "zero"
Empty == "empty"

Ok(x) == [val |-> x, err |-> FALSE]
Bad(x) == [val |-> x, err |-> TRUE]
Try(ok, x) == IF ok THEN Ok(x) ELSE Bad(NoValue)

-----------------------------------------------------------------------------
(* DNS lookups.  h.fails holds the questions whose exchange fails, h.reply *)
(* the types of the records in the answer, which may hold others than the  *)
(* one asked for (a CNAME on the way), and h.slow the attempts that time   *)
(* out.                                                                    *)

Reply(addrs, err, panic) == [addrs |-> addrs, err |-> err, panic |-> panic]

Lookup(h, type) ==
    IF type \in h.fails THEN Reply(<<>>, TRUE, FALSE)
    ELSE Reply(SelectSeq(h.reply, LAMBDA t : t = type), FALSE, FALSE)

LookupA(h) == Lookup(h, "A")
LookupAAAA(h) == Lookup(h, "AAAA")
LookupCNAME(h) == Lookup(h, "CNAME")
LookupMX(h) == Lookup(h, "MX")
LookupNS(h) == Lookup(h, "NS")
LookupSRV(h) == Lookup(h, "SRV")
LookupTXT(h) == Lookup(h, "TXT")
LookupCAA(h) == Lookup(h, "CAA")

\* The only lookup that asserts the type of every record it is given.
LookupPTR(h) ==
    IF "PTR" \in h.fails THEN Reply(<<>>, TRUE, FALSE)
    ELSE Reply(h.reply, FALSE, \E i \in DOMAIN h.reply : h.reply[i] # "PTR")

\* Both errors are dropped: a server that does not answer has no addresses.
LookupHost(h) == Reply(LookupA(h).addrs \o LookupAAAA(h).addrs, FALSE, FALSE)

\* Without a server the resolver of the host is asked, which has a DNSError for
\* a name without addresses.  A lookup that is slow whenever it is tried times
\* out.  After a failed one both channels are filled, and select may take the
\* addresses, of which there are none: the error is lost.
DNSlookup(h, lost) ==
    LET answer == IF ~h.server THEN Reply(LookupHost(h).addrs, LookupHost(h).addrs = <<>>, FALSE)
                  ELSE CASE h.qtype = "A" -> LookupA(h)
                         [] h.qtype = "AAAA" -> LookupAAAA(h)
                         [] h.qtype = "PTR" -> LookupPTR(h)
                         [] h.qtype = "CNAME" -> LookupCNAME(h)
                         [] h.qtype = "MX" -> LookupMX(h)
                         [] h.qtype = "NS" -> LookupNS(h)
                         [] h.qtype = "SRV" -> LookupSRV(h)
                         [] h.qtype = "TXT" -> LookupTXT(h)
                         [] h.qtype = "CAA" -> LookupCAA(h)
                         [] OTHER -> LookupHost(h)
    IN  IF h.slow = "all" THEN Reply(<<>>, TRUE, FALSE)
        ELSE Reply(answer.addrs, answer.err /\ ~lost, answer.panic)

-----------------------------------------------------------------------------

\* A dial that fails is an address that is not reachable, never an error.
DefAddr(h) == [reachable |-> Ok(h.dial)]

\* The error of setup is kept and returned by every getter.  A command that never
\* started has no output, and leaves both channels filled: when select takes the
\* other one the error is lost, and the status is 0.
DefCommand(h, lost) ==
    LET e == h.run = "timeout" \/ (h.run = "nostart" /\ ~lost)
    IN  [exit_status |-> [val |-> IF h.run = "exit" THEN 1 ELSE 0, err |-> e],
         stdout |-> [val |-> IF h.run = "nostart" THEN "" ELSE h.out, err |-> e],
         stderr |-> [val |-> "", err |-> e]]

\* Up to three attempts.  A DNSError ends them without an error, but one that
\* follows a timed out attempt leaves that error behind for the next getter that
\* asks; the third timeout is an error of all of them.
DefDNS(h, lost) ==
    LET r == DNSlookup(h, lost)
        nxdomain == r.err /\ ~h.server /\ h.slow # "all"
    IN  [resolvable |-> [val |-> r.addrs # <<>>, err |-> r.err /\ ~nxdomain],
         addrs |-> [val |-> IF r.addrs # <<>> THEN h.v ELSE Empty,
                    err |-> r.err /\ (~nxdomain \/ h.slow = "first")]]

\* ~ and ~user need a home directory to be found.
realPath(h) == h.home

\* The owner of a file may be a number without a name.
getUserForUid(h, stat) == Try(stat /\ h.named, h.v)

\* What lstat of the path itself says: a link is looked at and not followed.
FileInfo(h) ==
    LET stat == realPath(h) /\ h.lstat = "ok"
    IN  [mode |-> Try(stat, h.v), uid |-> Try(stat, h.v), gid |-> Try(stat, h.v),
         owner |-> getUserForUid(h, stat), group |-> getUserForUid(h, stat)]

hash(h) == Try(realPath(h) /\ h.open, h.v)

\* The error of setup fails every getter.
DefFile(h) ==
    LET stat == realPath(h) /\ h.lstat = "ok"
        info == FileInfo(h)
    IN  [exists |-> IF realPath(h) THEN [val |-> h.lstat # "notexist", err |-> h.lstat = "denied"] ELSE Bad(FALSE),
         size |-> Try(stat, h.v), filetype |-> Try(stat, h.v), linked_to |-> Try(realPath(h) /\ h.link, h.v),
         contents |-> Try(realPath(h) /\ h.open, h.v), contains |-> Try(realPath(h) /\ h.open, h.v),
         mode |-> info.mode, uid |-> info.uid, gid |-> info.gid, owner |-> info.owner, group |-> info.group,
         md5 |-> hash(h), sha256 |-> hash(h), sha512 |-> hash(h)]

DefGroup(h) == [exists |-> Ok(h.known), gid |-> Try(h.known, h.v)]

\* The user, its primary group and /etc/group are all needed.
Groups(h) == Try(h.known /\ h.groupFile, h.v)

\* /etc/passwd is read line by line, up to the user or to a malformed line.
Shell(h) == Try(h.inPasswd, h.v)

DefUser(h) ==
    [exists |-> Ok(h.known), uid |-> Try(h.known, h.v), gid |-> Try(h.known, h.v),
     home |-> Try(h.known, h.v), groups |-> Groups(h), shell |-> Shell(h)]

\* setup keeps its error; Exists drops it.
DefInterface(h) ==
    [exists |-> Ok(h.found), addrs |-> Try(h.found /\ h.addrsRead, h.v), mtu |-> Try(h.found, h.v)]

DefKernelParam(h) == [value |-> Try(h.found, h.v)]

\* The statfs behind usage is part of setup, asked for or not.
getUsage(h) == ~h.statfs

\* A mount point that is not mounted is an error of setup, kept for every
\* getter, Exists included.
DefMount(h) ==
    LET e == h.entry # "found" \/ getUsage(h)
    IN  [exists |-> [val |-> ~e, err |-> e], opts |-> Try(~e, h.v), vfs_opts |-> Try(~e, h.v),
         source |-> Try(~e, h.v), filesystem |-> Try(~e, h.v), usage |-> Try(~e, h.v)]

DefPort(h) ==
    [listening |-> [val |-> h.read /\ h.open, err |-> ~h.read],
     ip |-> Try(h.read, IF h.open THEN h.v ELSE Empty),
     pid |-> Try(h.read, IF h.open /\ h.owned THEN h.v ELSE Empty)]

\* A process that cannot be read any more is left out of status and user; when
\* the error of the list went to another caller, there are no processes.
DefProcess(h) ==
    LET seen == IF h.list = "ok" /\ h.running /\ h.readable THEN h.v ELSE Empty
    IN  [running |-> [val |-> h.list = "ok" /\ h.running, err |-> h.list = "error"],
         status |-> Try(h.list # "error", seen), user |-> Try(h.list # "error", seen)]

\* The steps of a request in the order they may fail; the first failure is kept
\* for every getter.
setupReal(h) == h.fails \in {"proxy", "cert", "request", "exchange"}

DefHTTP(h) == [a \in {"status", "headers", "body"} |-> Try(~setupReal(h), h.v)]

\* A hive that is known and something after it.
parseRegistryKey(h) == h.path = "valid"

typeName(t) == IF t \in {"SZ", "EXPAND_SZ", "DWORD", "QWORD", "BINARY", "MULTI_SZ"} THEN t ELSE "UNKNOWN"

formatValue(h) == Try(typeName(h.type) # "UNKNOWN", h.v)

\* The key itself stands for its default value, set or not.
defRegistryWindows(h) ==
    LET set == parseRegistryKey(h) /\ h.opens /\ h.set
    IN  [exists |-> [val |-> parseRegistryKey(h) /\ h.opens /\ (h.default \/ h.set), err |-> ~parseRegistryKey(h)],
         value |-> IF set THEN formatValue(h) ELSE Bad(NoValue),
         type |-> Try(set, typeName(h.type))]

\* Only Windows has a registry.
DefRegistry(h) ==
    IF h.windows THEN defRegistryWindows(h) ELSE [exists |-> Bad(FALSE), value |-> Bad(NoValue), type |-> Bad(NoValue)]

-----------------------------------------------------------------------------
(* Package managers.  h.query: the command ran and succeeded; h.line: what *)
(* it printed.  A failing command is a package that is not installed.      *)

Package(installed, v) == [installed |-> Ok(installed), versions |-> Try(installed, v)]

DebPackage(h) == Package(h.query /\ h.line \in {"install ok installed", "hold ok installed"}, h.v)
AlpinePackage(h) == Package(h.query /\ h.line \notin {"Installed:", "WARNING"}, h.v)
PacmanPackage(h) == Package(h.query, h.v)
RpmPackage(h) == Package(h.query, h.v)

\* The distribution decides, then the commands on the PATH, then nothing.
DetectDistro(h) ==
    CASE "lsb-release Ubuntu" \in h.files -> "ubuntu"
      [] h.files \cap {"redhat-release", "system-release"} # {} -> "redhat"
      [] "alpine-release" \in h.files -> "alpine"
      [] "arch-release" \in h.files -> "arch"
      [] "debian_version" \in h.files -> "debian"
      [] OTHER -> ""

DetectPackageManager(h) ==
    LET first == <<"dpkg", "rpm", "apk", "pacman">>
        found == {i \in 1..4 : first[i] \in h.path}
    IN  CASE DetectDistro(h) \in {"ubuntu", "debian"} -> "dpkg"
          [] DetectDistro(h) = "redhat" -> "rpm"
          [] DetectDistro(h) = "alpine" -> "apk"
          [] DetectDistro(h) = "arch" -> "pacman"
          [] OTHER -> IF found = {} THEN "" ELSE first[CHOOSE i \in found : \A j \in found : i <= j]

\* An unknown --package falls back on detection, an unknown result on rpm.
detectPackage(h) ==
    LET m == IF h.package \in {"dpkg", "apk", "pacman", "rpm"} THEN h.package ELSE DetectPackageManager(h)
    IN  CASE m = "dpkg" -> DebPackage(h)
          [] m = "apk" -> AlpinePackage(h)
          [] m = "pacman" -> PacmanPackage(h)
          [] OTHER -> RpmPackage(h)

-----------------------------------------------------------------------------
(* Service managers.  A command is "absent", or its exit status is "zero"  *)
(* or "nonzero".  Status is 0 until the command has been waited for, so an *)
(* absent command looks like success and only Err tells it apart.          *)

Status(cmd) == IF cmd = "nonzero" THEN 1 ELSE 0
Err(cmd) == cmd # "zero"

\* Mutant: the error of the command is dropped.
OnStatus_DropsErr(cmd, otherwise) == IF Status(cmd) = 0 THEN Ok(TRUE) ELSE Ok(otherwise)

\* return true, cmd.Err on status 0, and what a fallback says without an error.
OnStatus(cmd, otherwise) ==
    IF Status(cmd) = 0 THEN [val |-> TRUE, err |-> Err(cmd)] ELSE Ok(otherwise)

Says(g) == g.val /\ ~g.err

ServiceInit(h) ==
    [exists |-> Ok(~h.slash /\ h.initd),
     enabled |-> Ok(~h.slash /\ h.rclinks),
     running |-> IF h.slash THEN Ok(FALSE) ELSE OnStatus(h.service, FALSE),
     runlevels |-> Ok(IF ~h.slash /\ h.rclinks THEN h.v ELSE Empty)]

\* A legacy systemd falls back on sysv; runlevels are never known.
ServiceSystemd(h, legacy) ==
    LET sysv == ServiceInit(h)
        cmd(status) == IF "systemctl" \in h.path THEN status ELSE "absent"
        fallback(g) == legacy /\ Says(sysv[g])
    IN  [exists |-> IF h.slash THEN Ok(FALSE)
                    ELSE IF h.unit /\ "systemctl" \in h.path THEN Ok(TRUE) ELSE Ok(fallback("exists")),
         enabled |-> IF h.slash THEN Ok(FALSE) ELSE OnStatus(cmd(h.isEnabled), fallback("enabled")),
         running |-> IF h.slash THEN Ok(FALSE) ELSE OnStatus(cmd(h.isActive), fallback("running")),
         runlevels |-> Ok(Empty)]

\* An override wins over the job, the job over sysv.
ServiceUpstart(h) ==
    LET sysv == ServiceInit(h)
    IN  [exists |-> Ok(h.conf \/ Says(sysv.exists)),
         enabled |-> Ok(~h.manual /\ ((h.conf /\ h.startOn) \/ Says(sysv.enabled))),
         running |-> Ok(h.service = "zero" /\ h.saysRunning),
         runlevels |-> sysv.runlevels]

\* What PowerShell printed decides, and its error goes with it; only a message
\* that there is no such service is an answer of its own.
ServiceWindows(h) ==
    LET printed == h.service # "absent"
    IN  [exists |-> IF printed /\ ~h.unit THEN Ok(FALSE) ELSE [val |-> TRUE, err |-> Err(h.service)],
         enabled |-> [val |-> printed /\ h.unit /\ h.isEnabled = "zero", err |-> Err(h.service)],
         running |-> [val |-> printed /\ h.unit /\ h.isActive = "zero", err |-> Err(h.service)],
         runlevels |-> Ok(Empty)]

DetectService(h) ==
    CASE h.windows -> "windows"
      [] "systemctl" \in h.path -> IF h.debian8 /\ "debian_version" \in h.files THEN "systemdlegacy" ELSE "systemd"
      [] DetectDistro(h) = "ubuntu" -> "upstart"
      [] DetectDistro(h) = "alpine" -> "alpineinit"
      [] DetectDistro(h) = "arch" -> "systemd"
      [] OTHER -> "init"

detectService(h) ==
    CASE DetectService(h) = "windows" -> ServiceWindows(h)
      [] DetectService(h) = "upstart" -> ServiceUpstart(h)
      [] DetectService(h) = "systemd" -> ServiceSystemd(h, FALSE)
      [] DetectService(h) = "systemdlegacy" -> ServiceSystemd(h, TRUE)
      [] OTHER -> ServiceInit(h)
=============================================================================
