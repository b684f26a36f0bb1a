----------------------------- MODULE Resources -----------------------------
(***************************************************************************)
(* The resource package: what `goss add' records of a resource (New...)    *)
(* and what a recorded test checks (Validate).  A recorded test maps the   *)
(* attributes it asserts to the expected values.                           *)
(***************************************************************************)
EXTENDS Getters

-----------------------------------------------------------------------------
(* New: g holds the getters of the resource, ignore the patterns of        *)
(* --exclude-attr.                                                         *)

\* filepath.Match, for the patterns "*" and the literal ones.
contains(ignore, attr) == "*" \in ignore \/ attr \in ignore

Expect(g, attrs) == [a \in attrs |-> g[a].val]
New(err, attrs) == [err |-> err, attrs |-> attrs]

\* Mutant: an attribute is recorded whether or not it could be read.
Readable_Always(g, ignore, key) == {a \in DOMAIN key : ~contains(ignore, key[a])}

\* The optional attributes that are recorded; key names each for --exclude-attr.
Readable(g, ignore, key) == {a \in DOMAIN key : ~contains(ignore, key[a]) /\ ~g[a].err}

Named(attrs) == [a \in attrs |-> a]

NewAddr(g, ignore) == New(g.reachable.err, Expect(g, {"reachable"}))

\* Lines with something on them; a scanner never yields a list for no output.
readerToSlice(out) == IF out = "lines" THEN out ELSE ""

\* Excluded or blank output is recorded as the empty string, not left out.
NewCommand(g, ignore) ==
    LET output(a) == IF contains(ignore, a) THEN "" ELSE readerToSlice(g[a].val)
    IN  New(g.exit_status.err,
            [exit_status |-> g.exit_status.val, stdout |-> output("stdout"), stderr |-> output("stderr")])

NewDNS(g, ignore) ==
    New(g.resolvable.err, Expect(g, {"resolvable"} \cup {a \in {"addrs"} : ~contains(ignore, a)}))

\* contents is recorded as an empty list, which isSet takes for nothing.
NewFile(g, ignore) ==
    New(g.exists.err,
        Expect(g, {"exists"} \cup Readable(g, ignore, [mode |-> "mode", owner |-> "owner", group |-> "group",
                                                       linked_to |-> "linked-to", filetype |-> "filetype"])))

NewGossfile(g, ignore) == New(FALSE, <<>>)

\* The gid is left out by the name of another attribute.
NewGroup(g, ignore) == New(FALSE, Expect(g, {"exists"} \cup Readable(g, ignore, [gid |-> "stderr"])))

NewHTTP(g, ignore) == New(g.status.err, Expect(g, {"status"}))

NewInterface(g, ignore) ==
    New(FALSE, Expect(g, {"exists"} \cup Readable(g, ignore, Named({"addrs", "mtu"}))))

NewKernelParam(g, ignore) == New(g.value.err, Expect(g, {"value"}))

NewMount(g, ignore) ==
    New(FALSE, Expect(g, {"exists"} \cup Readable(g, ignore, [opts |-> "opts", vfs_opts |-> "vfs-opts",
                                                              source |-> "source", filesystem |-> "filesystem"])))

NewPackage(g, ignore) == New(FALSE, Expect(g, {"installed"} \cup Readable(g, ignore, Named({"versions"}))))

NewPort(g, ignore) == New(FALSE, Expect(g, {"listening"} \cup Readable(g, ignore, Named({"ip"}))))

NewProcess(g, ignore) ==
    New(g.running.err, Expect(g, {"running"} \cup Readable(g, ignore, Named({"status", "user"}))))

NewRegistry(g, ignore) ==
    IF ~g.exists.val THEN New(FALSE, Expect(g, {"exists"}))
    ELSE New(g.value.err \/ g.type.err, Expect(g, {"exists", "value", "type"}))

NewService(g, ignore) == New(g.enabled.err \/ g.running.err, Expect(g, {"enabled", "running"}))

NewUser(g, ignore) ==
    New(FALSE, Expect(g, {"exists"} \cup Readable(g, ignore, Named({"uid", "gid", "groups", "home", "shell"}))))

-----------------------------------------------------------------------------
(* Validate: x is the recorded test, g the getters now, skip the           *)
(* resource's own skip.  A test without a first attribute checks every     *)
(* attribute it has, one with a guard skips the rest when the first does   *)
(* not hold or says that the resource is not there.                        *)

\* An attribute that is missing is not checked, one that is missing though it
\* always is checked has nil for its expected value and fails.
ValidateValue(x, g, a, skip) ==
    CASE skip -> "SKIP"
      [] ~skip /\ (g[a].err \/ a \notin DOMAIN x) -> "FAIL"
      [] OTHER -> IF g[a].val = x[a] THEN "SUCCESS" ELSE "FAIL"

shouldSkip(result, g, a) == result # "SUCCESS" \/ g[a].val = FALSE

Guarded(x, g, skip, first, rest) ==
    LET r1 == ValidateValue(x, g, first, skip)
        skipRest == skip \/ shouldSkip(r1, g, first)
    IN  [a \in {first} \cup (DOMAIN x \cap rest) |->
            IF a = first THEN r1 ELSE ValidateValue(x, g, a, skipRest)]

Plain(x, g, skip, always, optional) ==
    [a \in always \cup (DOMAIN x \cap optional) |-> ValidateValue(x, g, a, skip)]

AddrValidate(x, g, skip) == Plain(x, g, skip, {"reachable"}, {})
CommandValidate(x, g, skip) == Plain(x, g, skip, {"exit_status"}, {"stdout", "stderr"})
DNSValidate(x, g, skip) == Guarded(x, g, skip, "resolvable", {"addrs"})
FileValidate(x, g, skip) ==
    Guarded(x, g, skip, "exists", {"mode", "owner", "uid", "group", "gid", "linked_to", "filetype",
                                   "contains", "contents", "size", "md5", "sha256", "sha512"})
GossfileValidate(x, g, skip) == <<>>
GroupValidate(x, g, skip) == Guarded(x, g, skip, "exists", {"gid"})
HTTPValidate(x, g, skip) == Guarded(x, g, skip, "status", {"headers", "body"})
InterfaceValidate(x, g, skip) == Guarded(x, g, skip, "exists", {"addrs", "mtu"})
KernelParamValidate(x, g, skip) == Plain(x, g, skip, {"value"}, {})
MountValidate(x, g, skip) ==
    Guarded(x, g, skip, "exists", {"opts", "vfs_opts", "source", "filesystem", "usage"})
PackageValidate(x, g, skip) == Guarded(x, g, skip, "installed", {"versions"})
PortValidate(x, g, skip) == Guarded(x, g, skip, "listening", {"ip", "pid"})
ProcessValidate(x, g, skip) == Guarded(x, g, skip, "running", {"status", "user"})
RegistryValidate(x, g, skip) == Guarded(x, g, skip, "exists", {"value", "type"})
ServiceValidate(x, g, skip) == Plain(x, g, skip, {}, {"enabled", "running", "runlevels"})
UserValidate(x, g, skip) == Guarded(x, g, skip, "exists", {"uid", "gid", "home", "groups", "shell"})
=============================================================================
