----------------------------- MODULE AddProofs ------------------------------
(***************************************************************************)
(* Proofs about `goss add' and `goss autoadd', for any number of commands  *)
(* on any gossfile and host: what a command writes back holds what it had  *)
(* read, with its titles, so a test or a title is lost only where commands *)
(* overlap or a write is interrupted.                                      *)
(***************************************************************************)
EXTENDS Add, TLAPS

\* The tests of c are in d, with the titles they had.
Kept(c, d) == DOMAIN c \subseteq DOMAIN d /\ \A id \in DOMAIN c : d[id].title = c[id].title

-----------------------------------------------------------------------------
(* What is recorded of a resource.                                         *)

\* What the resource package makes of a resource of this host.
Made(id, ignore, lost) ==
    LET h == run.host[id]
    IN  CASE id[1] = "addr" -> NewAddr(DefAddr(h), ignore)
          [] id[1] = "command" -> NewCommand(DefCommand(h, lost), ignore)
          [] id[1] = "dns" -> NewDNS(DefDNS(h, lost), ignore)
          [] id[1] = "file" -> NewFile(DefFile(h), ignore)
          [] id[1] = "group" -> NewGroup(DefGroup(h), ignore)
          [] id[1] = "package" -> NewPackage(detectPackage(h), ignore)
          [] id[1] = "port" -> NewPort(DefPort(h), ignore)
          [] id[1] = "process" -> NewProcess(DefProcess(h), ignore)
          [] id[1] = "service" -> NewService(detectService(h), ignore)
          [] id[1] = "user" -> NewUser(DefUser(h), ignore)
          [] id[1] = "gossfile" -> NewGossfile(<<>>, ignore)
          [] id[1] = "kernel-param" -> NewKernelParam(DefKernelParam(h), ignore)
          [] id[1] = "mount" -> NewMount(DefMount(h), ignore)
          [] id[1] = "interface" -> NewInterface(DefInterface(h), ignore)
          [] id[1] = "http" -> NewHTTP(DefHTTP(h), ignore)
          [] id[1] = "registry" -> NewRegistry(DefRegistry(h), ignore)

\* The test of id in c is what this host gives, and could be made.
Honest(c, id, ignore) ==
    \E lost \in BOOLEAN : ~Made(id, ignore, lost).err /\ c[id].attrs = Made(id, ignore, lost).attrs

\* The type of a resource is part of what it is recorded under, and the usual
\* spelling of a port is its own.
LEMMA IDType == ASSUME NEW type, NEW k PROVE ID(type, k)[1] = type
BY DEF ID

LEMMA PortSpelledOnce == ASSUME run \in Scenarios, NEW k PROVE ID("port", ID("port", k)[2]) = ID("port", k)
<1>1. \A x \in DOMAIN run.canon : <<x[1], run.canon[x]>> \notin DOMAIN run.canon
  BY ScenariosAssumption
<1>2. \A j : ID("port", j) = <<"port", normalizePort(j)>>
  BY DEF ID
<1>3. normalizePort(normalizePort(k)) = normalizePort(k)
  <2>1. CASE <<"port", k>> \in DOMAIN run.canon
    <3>1. normalizePort(k) = run.canon[<<"port", k>>] /\ <<"port", k>>[1] = "port"
      BY <2>1 DEF normalizePort, Spelled
    <3>2. <<"port", normalizePort(k)>> \notin DOMAIN run.canon
      BY <1>1, <2>1, <3>1
    <3> QED
      BY <3>2 DEF normalizePort, Spelled
  <2>2. CASE <<"port", k>> \notin DOMAIN run.canon
    BY <2>2 DEF normalizePort, Spelled
  <2> QED
    BY <2>1, <2>2
<1> QED
  BY <1>2, <1>3

\* Unless it failed, r holds what this host gives of ids, and of whatever c did.
Truthful(c, r, ids, ignore) ==
    ~r.err => /\ \A id \in ids : Honest(r.c, id, ignore)
              /\ \A id \in DOMAIN c : Honest(c, id, ignore) => Honest(r.c, id, ignore)

\* The types that autoadd looks for.
LEMMA MadeByType ==
    ASSUME NEW k, NEW ignore, NEW lost
    PROVE  /\ Made(ID("file", k), ignore, lost) = NewFile(DefFile(Host("file", k)), ignore)
           /\ Made(ID("group", k), ignore, lost) = NewGroup(DefGroup(Host("group", k)), ignore)
           /\ Made(ID("package", k), ignore, lost) = NewPackage(detectPackage(Host("package", k)), ignore)
           /\ Made(ID("port", k), ignore, lost) = NewPort(DefPort(Host("port", k)), ignore)
           /\ Made(ID("process", k), ignore, lost) = NewProcess(DefProcess(Host("process", k)), ignore)
           /\ Made(ID("service", k), ignore, lost) = NewService(detectService(Host("service", k)), ignore)
           /\ Made(ID("user", k), ignore, lost) = NewUser(DefUser(Host("user", k)), ignore)
<1>1. Made(ID("file", k), ignore, lost) = NewFile(DefFile(Host("file", k)), ignore)
  BY IDType DEF Made, Host
<1>2. Made(ID("group", k), ignore, lost) = NewGroup(DefGroup(Host("group", k)), ignore)
  BY IDType DEF Made, Host
<1>3. Made(ID("package", k), ignore, lost) = NewPackage(detectPackage(Host("package", k)), ignore)
  BY IDType DEF Made, Host
<1>4. Made(ID("port", k), ignore, lost) = NewPort(DefPort(Host("port", k)), ignore)
  BY IDType DEF Made, Host
<1>5. Made(ID("process", k), ignore, lost) = NewProcess(DefProcess(Host("process", k)), ignore)
  BY IDType DEF Made, Host
<1>6. Made(ID("service", k), ignore, lost) = NewService(detectService(Host("service", k)), ignore)
  BY IDType DEF Made, Host
<1>7. Made(ID("user", k), ignore, lost) = NewUser(DefUser(Host("user", k)), ignore)
  BY IDType DEF Made, Host
<1> QED
  BY <1>1, <1>2, <1>3, <1>4, <1>5, <1>6, <1>7

-----------------------------------------------------------------------------
(* Validating what was recorded.                                           *)

\* No result fails.
Passes(r) == \A a \in DOMAIN r : r[a] # "FAIL"

\* An attribute that can be read and is as recorded does not fail.
LEMMA ValuePasses ==
    ASSUME NEW x, NEW g, NEW a, NEW skip \in BOOLEAN,
           ~skip => ~g[a].err /\ a \in DOMAIN x /\ x[a] = g[a].val
    PROVE  ValidateValue(x, g, a, skip) # "FAIL"
BY DEF ValidateValue

\* A test with a guard passes when the first attribute is as recorded and the
\* others are too, or the first says that the resource is not there.
LEMMA GuardedPasses ==
    ASSUME NEW x, NEW g, NEW first, NEW rest,
           first \in DOMAIN x, ~g[first].err, x[first] = g[first].val,
           \A a \in DOMAIN x \cap rest : g[first].val # FALSE => ~g[a].err /\ x[a] = g[a].val
    PROVE  Passes(Guarded(x, g, FALSE, first, rest))
<1> DEFINE r1 == ValidateValue(x, g, first, FALSE)
           skipRest == FALSE \/ shouldSkip(r1, g, first)
           D == {first} \cup (DOMAIN x \cap rest)
<1>1. r1 = "SUCCESS"
  BY DEF ValidateValue
<1>2. skipRest \in BOOLEAN /\ (~skipRest => g[first].val # FALSE)
  BY DEF shouldSkip
<1>3. Guarded(x, g, FALSE, first, rest) = [a \in D |-> IF a = first THEN r1 ELSE ValidateValue(x, g, a, skipRest)]
  BY DEF Guarded
<1> HIDE DEF r1, skipRest
<1>4. ASSUME NEW a \in D, a # first PROVE ValidateValue(x, g, a, skipRest) # "FAIL"
  BY <1>2, <1>4, ValuePasses
<1> QED
  BY <1>1, <1>3, <1>4 DEF Passes

\* A test without one passes when every attribute is as recorded.
LEMMA PlainPasses ==
    ASSUME NEW x, NEW g, NEW always, NEW optional, always \subseteq DOMAIN x,
           \A a \in always \cup (DOMAIN x \cap optional) : ~g[a].err /\ x[a] = g[a].val
    PROVE  Passes(Plain(x, g, FALSE, always, optional))
BY ValuePasses DEF Plain, Passes

\* What Expect records with its first attribute passes.
LEMMA ExpectedPasses ==
    ASSUME NEW g, NEW first, NEW S, NEW rest, ~g[first].err,
           \A a \in S : g[first].val # FALSE => ~g[a].err
    PROVE  Passes(Guarded(Expect(g, {first} \cup S), g, FALSE, first, rest))
<1> DEFINE x == Expect(g, {first} \cup S)
<1>1. DOMAIN x = {first} \cup S /\ \A a \in {first} \cup S : x[a] = g[a].val
  BY DEF Expect
<1> HIDE DEF x
<1>2. Passes(Guarded(x, g, FALSE, first, rest))
  BY <1>1, GuardedPasses
<1> QED
  BY <1>2 DEF x

\* No attribute is recorded that could not be read.
LEMMA ReadablePasses ==
    ASSUME NEW g, NEW first, NEW ignore, NEW key, NEW rest, ~g[first].err
    PROVE  Passes(Guarded(Expect(g, {first} \cup Readable(g, ignore, key)), g, FALSE, first, rest))
<1>1. \A a \in Readable(g, ignore, key) : ~g[a].err
  BY DEF Readable
<1> QED
  BY <1>1, ExpectedPasses

\* A test that records its attributes without a guard passes.
LEMMA ExpectedPlainPasses ==
    ASSUME NEW g, NEW S, NEW always, NEW optional, always \subseteq S, \A a \in S : ~g[a].err
    PROVE  Passes(Plain(Expect(g, S), g, FALSE, always, optional))
<1> DEFINE x == Expect(g, S)
<1>1. DOMAIN x = S /\ \A a \in S : x[a] = g[a].val
  BY DEF Expect
<1> HIDE DEF x
<1>2. Passes(Plain(x, g, FALSE, always, optional))
  BY <1>1, PlainPasses
<1> QED
  BY <1>2 DEF x

\* Types whose first attribute always can be read: what could not be read of
\* the others is not recorded.
LEMMA AlwaysReadPass ==
    ASSUME NEW h, NEW ignore
    PROVE  /\ Passes(GroupValidate(NewGroup(DefGroup(h), ignore).attrs, DefGroup(h), FALSE))
           /\ Passes(InterfaceValidate(NewInterface(DefInterface(h), ignore).attrs, DefInterface(h), FALSE))
           /\ Passes(PackageValidate(NewPackage(detectPackage(h), ignore).attrs, detectPackage(h), FALSE))
           /\ Passes(UserValidate(NewUser(DefUser(h), ignore).attrs, DefUser(h), FALSE))
<1>1. ~DefGroup(h).exists.err /\ ~DefInterface(h).exists.err /\ ~DefUser(h).exists.err
  BY DEF DefGroup, DefInterface, DefUser, Ok
<1>2. ~detectPackage(h).installed.err
  <2>1. \A i, v : ~Package(i, v).installed.err
    BY DEF Package, Ok
  <2>2. \E i, v : detectPackage(h) = Package(i, v)
    BY DEF detectPackage, DebPackage, AlpinePackage, PacmanPackage, RpmPackage
  <2> QED
    BY <2>1, <2>2
<1>3. Passes(GroupValidate(NewGroup(DefGroup(h), ignore).attrs, DefGroup(h), FALSE))
  BY <1>1, ReadablePasses DEF NewGroup, New, GroupValidate
<1>4. Passes(InterfaceValidate(NewInterface(DefInterface(h), ignore).attrs, DefInterface(h), FALSE))
  BY <1>1, ReadablePasses DEF NewInterface, New, InterfaceValidate
<1>5. Passes(PackageValidate(NewPackage(detectPackage(h), ignore).attrs, detectPackage(h), FALSE))
  BY <1>2, ReadablePasses DEF NewPackage, New, PackageValidate
<1>6. Passes(UserValidate(NewUser(DefUser(h), ignore).attrs, DefUser(h), FALSE))
  BY <1>1, ReadablePasses DEF NewUser, New, UserValidate
<1> QED
  BY <1>3, <1>4, <1>5, <1>6

\* Types that are not recorded when their first attribute could not be read.
LEMMA RefusedPass ==
    ASSUME NEW h, NEW ignore
    PROVE  /\ ~NewFile(DefFile(h), ignore).err =>
                 Passes(FileValidate(NewFile(DefFile(h), ignore).attrs, DefFile(h), FALSE))
           /\ ~NewProcess(DefProcess(h), ignore).err =>
                 Passes(ProcessValidate(NewProcess(DefProcess(h), ignore).attrs, DefProcess(h), FALSE))
           /\ ~NewHTTP(DefHTTP(h), ignore).err =>
                 Passes(HTTPValidate(NewHTTP(DefHTTP(h), ignore).attrs, DefHTTP(h), FALSE))
<1>1. ASSUME ~NewFile(DefFile(h), ignore).err
      PROVE  Passes(FileValidate(NewFile(DefFile(h), ignore).attrs, DefFile(h), FALSE))
  BY <1>1, ReadablePasses DEF NewFile, New, FileValidate
<1>2. ASSUME ~NewProcess(DefProcess(h), ignore).err
      PROVE  Passes(ProcessValidate(NewProcess(DefProcess(h), ignore).attrs, DefProcess(h), FALSE))
  BY <1>2, ReadablePasses DEF NewProcess, New, ProcessValidate
<1>3. ASSUME ~NewHTTP(DefHTTP(h), ignore).err
      PROVE  Passes(HTTPValidate(NewHTTP(DefHTTP(h), ignore).attrs, DefHTTP(h), FALSE))
  <2>1. {"status"} = {"status"} \cup {}
    OBVIOUS
  <2> QED
    BY <1>3, <2>1, ExpectedPasses DEF NewHTTP, New, HTTPValidate
<1> QED
  BY <1>1, <1>2, <1>3

\* Types whose first attribute is recorded though it could not be read: a mount
\* or a port passes if it could.
LEMMA ReadPass ==
    ASSUME NEW h, NEW ignore
    PROVE  /\ ~DefMount(h).exists.err =>
                 Passes(MountValidate(NewMount(DefMount(h), ignore).attrs, DefMount(h), FALSE))
           /\ h.read => Passes(PortValidate(NewPort(DefPort(h), ignore).attrs, DefPort(h), FALSE))
<1>1. ASSUME ~DefMount(h).exists.err
      PROVE  Passes(MountValidate(NewMount(DefMount(h), ignore).attrs, DefMount(h), FALSE))
  BY <1>1, ReadablePasses DEF NewMount, New, MountValidate
<1>2. ASSUME h.read
      PROVE  Passes(PortValidate(NewPort(DefPort(h), ignore).attrs, DefPort(h), FALSE))
  <2>1. ~DefPort(h).listening.err
    BY <1>2 DEF DefPort
  <2> QED
    BY <2>1, ReadablePasses DEF NewPort, New, PortValidate
<1> QED
  BY <1>1, <1>2

\* Types without a guard.
LEMMA UnguardedPass ==
    ASSUME NEW h, NEW ignore
    PROVE  /\ Passes(AddrValidate(NewAddr(DefAddr(h), ignore).attrs, DefAddr(h), FALSE))
           /\ ~NewKernelParam(DefKernelParam(h), ignore).err =>
                 Passes(KernelParamValidate(NewKernelParam(DefKernelParam(h), ignore).attrs, DefKernelParam(h), FALSE))
           /\ ~NewService(detectService(h), ignore).err =>
                 Passes(ServiceValidate(NewService(detectService(h), ignore).attrs, detectService(h), FALSE))
<1>1. Passes(AddrValidate(NewAddr(DefAddr(h), ignore).attrs, DefAddr(h), FALSE))
  <2>1. ~DefAddr(h).reachable.err
    BY DEF DefAddr, Ok
  <2> QED
    BY <2>1, ExpectedPlainPasses DEF NewAddr, New, AddrValidate
<1>2. ASSUME ~NewKernelParam(DefKernelParam(h), ignore).err
      PROVE  Passes(KernelParamValidate(NewKernelParam(DefKernelParam(h), ignore).attrs, DefKernelParam(h), FALSE))
  BY <1>2, ExpectedPlainPasses DEF NewKernelParam, New, KernelParamValidate
<1>3. ASSUME ~NewService(detectService(h), ignore).err
      PROVE  Passes(ServiceValidate(NewService(detectService(h), ignore).attrs, detectService(h), FALSE))
  <2>1. ~detectService(h).enabled.err /\ ~detectService(h).running.err
    BY <1>3 DEF NewService, New
  <2>2. \A a \in {"enabled", "running"} : ~detectService(h)[a].err
    BY <2>1
  <2> QED
    BY <2>2, ExpectedPlainPasses DEF NewService, New, ServiceValidate
<1> QED
  BY <1>1, <1>2, <1>3

\* Whether its error goes missing or not, a lookup gives the same addresses, and
\* the resolver of the host has an error only for a name without any.
LEMMA LookupLost ==
    ASSUME NEW h, NEW lost \in BOOLEAN
    PROVE  /\ DNSlookup(h, lost).addrs = DNSlookup(h, FALSE).addrs
           /\ DNSlookup(h, lost).err => DNSlookup(h, FALSE).err
           /\ h.slow = "all" => DNSlookup(h, lost).err
           /\ ~h.server /\ DNSlookup(h, lost).err => DNSlookup(h, lost).addrs = <<>>
<1>1. CASE h.slow = "all"
  BY <1>1 DEF DNSlookup, Reply
<1>2. CASE h.slow # "all" /\ ~h.server
  <2>1. \A l : /\ DNSlookup(h, l).addrs = LookupHost(h).addrs
              /\ DNSlookup(h, l).err = (LookupHost(h).addrs = <<>> /\ ~l)
    BY <1>2 DEF DNSlookup, Reply
  <2> QED
    BY <1>2, <2>1
<1>3. CASE h.slow # "all" /\ h.server
  <2>1. PICK answer : \A l : DNSlookup(h, l) = Reply(answer.addrs, answer.err /\ ~l, answer.panic)
    BY <1>3 DEF DNSlookup
  <2>2. \A l : DNSlookup(h, l).addrs = answer.addrs /\ DNSlookup(h, l).err = (answer.err /\ ~l)
    BY <2>1 DEF Reply
  <2> QED
    BY <1>3, <2>2
<1> QED
  BY <1>1, <1>2, <1>3

\* The addresses of a name are recorded even when the lookup left an error
\* behind, but then the name does not resolve and they are not looked at.  It
\* passes whichever of the two lookups lost its error.
LEMMA DNSPass ==
    ASSUME NEW h, NEW ignore, NEW before \in BOOLEAN, NEW now \in BOOLEAN, ~DefDNS(h, FALSE).resolvable.err
    PROVE  Passes(DNSValidate(NewDNS(DefDNS(h, before), ignore).attrs, DefDNS(h, now), FALSE))
<1> DEFINE S == {a \in {"addrs"} : ~contains(ignore, a)}
           x == NewDNS(DefDNS(h, before), ignore).attrs
           g == DefDNS(h, now)
           r == DNSlookup(h, now)
           first == DNSlookup(h, FALSE)
<1>1. /\ DOMAIN x = {"resolvable"} \cup S
      /\ \A a \in {"resolvable"} \cup S : x[a] = DefDNS(h, before)[a].val
  BY DEF NewDNS, New, Expect
<1>2. DNSlookup(h, before).addrs = first.addrs /\ r.addrs = first.addrs
  BY LookupLost
<1>3. DefDNS(h, before).resolvable.val = g.resolvable.val /\ DefDNS(h, before).addrs.val = g.addrs.val
  BY <1>2 DEF DefDNS
<1>4. first.err => ~h.server /\ h.slow # "all"
  BY DEF DefDNS
<1>5. /\ g.resolvable.err = (r.err /\ ~(r.err /\ ~h.server /\ h.slow # "all"))
      /\ g.resolvable.val = (r.addrs # <<>>)
      /\ g.addrs.err => r.err
  BY DEF DefDNS
<1>6. (r.err => first.err) /\ (~h.server /\ r.err => r.addrs = <<>>)
  BY LookupLost
<1> HIDE DEF g, r, first, x
<1>7. ~g.resolvable.err /\ (g.addrs.err => g.resolvable.val = FALSE)
  BY <1>4, <1>5, <1>6
<1>8. x["resolvable"] = g.resolvable.val
  BY <1>1, <1>3
<1>9. \A a \in DOMAIN x \cap {"addrs"} : g.resolvable.val # FALSE => ~g[a].err /\ x[a] = g[a].val
  BY <1>1, <1>3, <1>7
<1>10. Passes(Guarded(x, g, FALSE, "resolvable", {"addrs"}))
  BY <1>1, <1>7, <1>8, <1>9, GuardedPasses
<1> QED
  BY <1>10 DEF DNSValidate, x, g

\* A registry key in a known hive is recorded as absent, or with a value that
\* could be read.
LEMMA RegistryPass ==
    ASSUME NEW h, NEW ignore, ~NewRegistry(DefRegistry(h), ignore).err, ~DefRegistry(h).exists.err
    PROVE  Passes(RegistryValidate(NewRegistry(DefRegistry(h), ignore).attrs, DefRegistry(h), FALSE))
<1> DEFINE g == DefRegistry(h)
<1>1. CASE ~g.exists.val
  <2>1. NewRegistry(g, ignore).attrs = Expect(g, {"exists"} \cup {})
    BY <1>1 DEF NewRegistry, New
  <2> QED
    BY <2>1, ExpectedPasses DEF RegistryValidate
<1>2. CASE g.exists.val
  <2>1. NewRegistry(g, ignore).attrs = Expect(g, {"exists"} \cup {"value", "type"})
    <3>1. {"exists", "value", "type"} = {"exists"} \cup {"value", "type"}
      OBVIOUS
    <3> QED
      BY <1>2, <3>1 DEF NewRegistry, New
  <2>2. ~g.value.err /\ ~g.type.err
    BY <1>2 DEF NewRegistry, New
  <2>3. \A a \in {"value", "type"} : ~g[a].err
    BY <2>2
  <2> QED
    BY <2>1, <2>3, ExpectedPasses DEF RegistryValidate
<1> QED
  BY <1>1, <1>2

\* The output of a command is recorded as it is unless it is blank or was
\* excluded, and the error of one that started is never lost.
LEMMA CommandPass ==
    ASSUME NEW h, NEW ignore, NEW before \in BOOLEAN, NEW now \in BOOLEAN,
           ~NewCommand(DefCommand(h, before), ignore).err, h.out \in {"", "blank", "lines"},
           ~(h.out = "blank" \/ (h.out = "lines" /\ contains(ignore, "stdout"))), h.run # "nostart"
    PROVE  Passes(CommandValidate(NewCommand(DefCommand(h, before), ignore).attrs, DefCommand(h, now), FALSE))
<1> DEFINE g == DefCommand(h, now)
           x == NewCommand(g, ignore).attrs
<1>0. DefCommand(h, before) = g
  BY DEF DefCommand
<1>1. /\ g.stdout.val = h.out /\ g.stderr.val = ""
      /\ g.stdout.err = g.exit_status.err /\ g.stderr.err = g.exit_status.err
  BY DEF DefCommand
<1>2. /\ DOMAIN x = {"exit_status", "stdout", "stderr"} /\ x["exit_status"] = g.exit_status.val
      /\ x["stdout"] = IF contains(ignore, "stdout") THEN "" ELSE readerToSlice(g.stdout.val)
      /\ x["stderr"] = IF contains(ignore, "stderr") THEN "" ELSE readerToSlice(g.stderr.val)
  BY DEF NewCommand, New
<1>3. ~g.exit_status.err
  BY <1>0 DEF NewCommand, New
<1> HIDE DEF g, x
<1>4. x["stdout"] = g.stdout.val /\ x["stderr"] = g.stderr.val
  BY <1>1, <1>2 DEF readerToSlice
<1>5. \A a \in {"exit_status", "stdout", "stderr"} : ~g[a].err /\ x[a] = g[a].val
  BY <1>1, <1>2, <1>3, <1>4
<1>6. Passes(Plain(x, g, FALSE, {"exit_status"}, {"stdout", "stderr"}))
  BY <1>2, <1>5, PlainPasses
<1> QED
  BY <1>0, <1>6 DEF CommandValidate, x, g

\* What is made of a resource passes on the host it was made on.
LEMMA MadePasses ==
    ASSUME NEW id, id[1] \in Types, NEW ignore, NEW before \in BOOLEAN, NEW now \in BOOLEAN,
           ~Made(id, ignore, before).err,
           id[1] = "command" => run.host[id].out \in {"", "blank", "lines"},
           ~Unstable(id[1], run.host[id], ignore)
    PROVE  Passes(Validate(id[1], Made(id, ignore, before).attrs, run.host[id], FALSE, now))
<1> USE DEF Validate, Made
<1>1. CASE id[1] = "addr"
  BY <1>1, UnguardedPass
<1>2. CASE id[1] = "command"
  BY <1>2, CommandPass DEF Unstable
<1>3. CASE id[1] = "dns"
  BY <1>3, DNSPass DEF Unstable
<1>4. CASE id[1] = "file"
  BY <1>4, RefusedPass
<1>5. CASE id[1] = "group"
  BY <1>5, AlwaysReadPass
<1>6. CASE id[1] = "package"
  BY <1>6, AlwaysReadPass
<1>7. CASE id[1] = "port"
  BY <1>7, ReadPass DEF Unstable
<1>8. CASE id[1] = "process"
  BY <1>8, RefusedPass
<1>9. CASE id[1] = "service"
  BY <1>9, UnguardedPass
<1>10. CASE id[1] = "user"
  BY <1>10, AlwaysReadPass
<1>11. CASE id[1] = "gossfile"
  BY <1>11 DEF GossfileValidate, Passes
<1>12. CASE id[1] = "kernel-param"
  BY <1>12, UnguardedPass
<1>13. CASE id[1] = "mount"
  BY <1>13, ReadPass DEF Unstable
<1>14. CASE id[1] = "interface"
  BY <1>14, AlwaysReadPass
<1>15. CASE id[1] = "http"
  BY <1>15, RefusedPass
<1>16. CASE id[1] = "registry"
  BY <1>16, RegistryPass DEF Unstable
<1> QED
  BY <1>1, <1>2, <1>3, <1>4, <1>5, <1>6, <1>7, <1>8, <1>9, <1>10, <1>11, <1>12, <1>13, <1>14,
     <1>15, <1>16 DEF Types

\* The service manager said that the service runs.
Said(h) == h.service = "zero" \/ ("systemctl" \in h.path /\ h.isActive = "zero")

\* A command's status says yes only if it ran, or the fallback did.
LEMMA OnStatusSays ==
    ASSUME NEW cmd, NEW otherwise, OnStatus(cmd, otherwise).val, ~OnStatus(cmd, otherwise).err
    PROVE  cmd = "zero" \/ otherwise
<1>1. CASE Status(cmd) = 0
  <2>1. OnStatus(cmd, otherwise).err = Err(cmd)
    BY <1>1 DEF OnStatus
  <2> QED
    BY <2>1 DEF Err
<1>2. CASE Status(cmd) # 0
  <2>1. OnStatus(cmd, otherwise).val = otherwise
    BY <1>2 DEF OnStatus, Ok
  <2> QED
    BY <2>1
<1> QED
  BY <1>1, <1>2

\* A service runs, without an error, only if its manager was there and said so.
LEMMA RunningSaid ==
    ASSUME NEW h, detectService(h).running.val, ~detectService(h).running.err
    PROVE  Said(h)
<1>1. ASSUME ServiceInit(h).running.val, ~ServiceInit(h).running.err PROVE h.service = "zero"
  <2>1. CASE h.slash
    BY <1>1, <2>1 DEF ServiceInit, Ok
  <2>2. CASE ~h.slash
    <3>1. ServiceInit(h).running = OnStatus(h.service, FALSE)
      BY <2>2 DEF ServiceInit
    <3> QED
      BY <1>1, <3>1, OnStatusSays
  <2> QED
    BY <2>1, <2>2
<1>2. ASSUME NEW legacy \in BOOLEAN, ServiceSystemd(h, legacy).running.val,
             ~ServiceSystemd(h, legacy).running.err
      PROVE  Said(h)
  <2> DEFINE cmd == IF "systemctl" \in h.path THEN h.isActive ELSE "absent"
             fallback == legacy /\ Says(ServiceInit(h)["running"])
  <2>1. CASE h.slash
    BY <1>2, <2>1 DEF ServiceSystemd, Ok
  <2>2. CASE ~h.slash
    <3>1. ServiceSystemd(h, legacy).running = OnStatus(cmd, fallback)
      BY <2>2 DEF ServiceSystemd
    <3>2. fallback => h.service = "zero"
      BY <1>1 DEF Says
    <3>3. cmd = "zero" \/ fallback
      <4> HIDE DEF cmd, fallback
      <4> QED
        BY <1>2, <3>1, OnStatusSays
    <3> QED
      BY <3>2, <3>3 DEF Said
  <2> QED
    BY <2>1, <2>2
<1>3. ASSUME ServiceUpstart(h).running.val PROVE Said(h)
  BY <1>3 DEF ServiceUpstart, Ok, Said
<1>4. ASSUME ~ServiceWindows(h).running.err PROVE Said(h)
  BY <1>4 DEF ServiceWindows, Err, Said
<1>5. \/ detectService(h) = ServiceInit(h) \/ detectService(h) = ServiceUpstart(h)
      \/ detectService(h) = ServiceWindows(h)
      \/ \E legacy \in BOOLEAN : detectService(h) = ServiceSystemd(h, legacy)
  BY DEF detectService
<1> QED
  BY <1>1, <1>2, <1>3, <1>4, <1>5 DEF Said

\* A test that a service is running succeeds only if its manager said so.
LEMMA RunningSucceeds ==
    ASSUME NEW h, "SUCCESS" \in Outcomes("service", [running |-> TRUE], h)
    PROVE  Said(h)
<1> DEFINE g == detectService(h)
           x == [running |-> TRUE]
<1>1. \A lost : Validate("service", x, h, FALSE, lost) = [a \in {"running"} |-> ValidateValue(x, g, a, FALSE)]
  BY DEF Validate, ServiceValidate, Plain
<1>2. "SUCCESS" = ValidateValue(x, g, "running", FALSE)
  <2>1. PICK lost \in BOOLEAN : "SUCCESS" \in Results(Validate("service", x, h, FALSE, lost))
    BY DEF Outcomes
  <2>2. "SUCCESS" \in Results([a \in {"running"} |-> ValidateValue(x, g, a, FALSE)])
    BY <1>1, <2>1
  <2> HIDE DEF g, x
  <2> QED
    BY <2>2 DEF Results
<1>3. ~g.running.err /\ g.running.val = TRUE
  <2>1. x["running"] = TRUE /\ "running" \in DOMAIN x
    OBVIOUS
  <2> HIDE DEF g, x
  <2> QED
    BY <1>2, <2>1 DEF ValidateValue
<1> QED
  BY <1>3, RunningSaid

-----------------------------------------------------------------------------
(* The maps of resource_list.go.                                           *)

\* Nothing lost is transitive.
LEMMA KeptTransitive == ASSUME NEW c, NEW d, NEW e, Kept(c, d), Kept(d, e) PROVE Kept(c, e)
BY DEF Kept

\* r is what comes of recording ids in c: unless it failed, these and nothing
\* else have been added, and in any case nothing is lost.
Records(c, r, ids) == Kept(c, r.c) /\ (~r.err => DOMAIN r.c = DOMAIN c \cup ids)

\* Adding records the resource if it can be built, and its title stays.
LEMMA AppendRecords ==
    ASSUME NEW res, NEW c, NEW id
    PROVE  /\ Records(c, AppendSysResource(res, c, id), {id})
           /\ AppendSysResource(res, c, id).err <=> res.err
           /\ AppendSysResource(res, c, id).found = TRUE
<1> DEFINE title == IF id \in DOMAIN c THEN c[id].title ELSE "none"
           e == Entry(res.attrs, title)
           d == Put(c, id, e)
<1>1. e.title = title
  BY DEF Entry
<1> HIDE DEF e
<1>2. /\ DOMAIN d = DOMAIN c \cup {id} /\ d[id] = e
      /\ \A x \in DOMAIN c : x # id => d[x] = c[x]
  BY DEF Put, Over
<1>3. Kept(c, d) /\ Kept(c, c)
  BY <1>1, <1>2 DEF Kept
<1>4. CASE res.err
  <2>1. AppendSysResource(res, c, id) = [err |-> TRUE, c |-> c, found |-> TRUE]
    BY <1>4 DEF AppendSysResource, Result
  <2> QED
    BY <1>3, <1>4, <2>1 DEF Records
<1>5. CASE ~res.err
  <2>1. AppendSysResource(res, c, id) = [err |-> FALSE, c |-> d, found |-> TRUE]
    BY <1>5 DEF AppendSysResource, Result, e
  <2> HIDE DEF d
  <2> QED
    BY <1>2, <1>3, <1>5, <2>1 DEF Records
<1> QED
  BY <1>4, <1>5

\* Adding records what the host gives, and touches no other test.
LEMMA AppendTruthful ==
    ASSUME NEW c, NEW id, NEW ignore, NEW lost \in BOOLEAN, NEW res, res = Made(id, ignore, lost)
    PROVE  Truthful(c, AppendSysResource(res, c, id), {id}, ignore)
<1> DEFINE title == IF id \in DOMAIN c THEN c[id].title ELSE "none"
           e == Entry(res.attrs, title)
           d == Put(c, id, e)
<1>1. e.attrs = Made(id, ignore, lost).attrs
  BY DEF Entry
<1> HIDE DEF e
<1>2. d[id] = e /\ \A x \in DOMAIN c : x # id => d[x] = c[x]
  BY DEF Put, Over
<1>3. CASE res.err
  <2>1. AppendSysResource(res, c, id) = [err |-> TRUE, c |-> c, found |-> TRUE]
    BY <1>3 DEF AppendSysResource, Result
  <2> QED
    BY <2>1 DEF Truthful
<1>4. CASE ~res.err
  <2>1. AppendSysResource(res, c, id) = [err |-> FALSE, c |-> d, found |-> TRUE]
    BY <1>4 DEF AppendSysResource, Result, e
  <2> HIDE DEF d
  <2>2. Honest(d, id, ignore)
    BY <1>1, <1>2, <1>4 DEF Honest
  <2>3. \A x \in DOMAIN c : Honest(c, x, ignore) => Honest(d, x, ignore)
    BY <1>2, <2>2 DEF Honest
  <2> QED
    BY <2>1, <2>2, <2>3 DEF Truthful
<1> QED
  BY <1>3, <1>4

\* Adding if it exists records the resource or nothing, and says which.
LEMMA AppendIfExistsRecords ==
    ASSUME NEW res, NEW exists, NEW c, NEW id
    PROVE  /\ Records(c, AppendSysResourceIfExists(res, exists, c, id), {x \in {id} : exists.val})
           /\ AppendSysResourceIfExists(res, exists, c, id).err <=> res.err
           /\ ~res.err => (AppendSysResourceIfExists(res, exists, c, id).found <=> exists.val)
<1>1. Kept(c, c)
  BY DEF Kept
<1>2. CASE ~res.err /\ ~exists.val
  BY <1>1, <1>2 DEF AppendSysResourceIfExists, Records
<1>3. CASE res.err \/ exists.val
  <2> DEFINE r == AppendSysResource(res, c, id)
  <2>1. AppendSysResourceIfExists(res, exists, c, id) = r
    BY <1>3 DEF AppendSysResourceIfExists
  <2>2. Records(c, r, {id}) /\ (r.err <=> res.err) /\ r.found = TRUE
    BY AppendRecords
  <2> HIDE DEF r
  <2>3. CASE exists.val
    <3>1. {x \in {id} : exists.val} = {id}
      BY <2>3
    <3> QED
      BY <2>1, <2>2, <2>3, <3>1
  <2>4. CASE res.err
    <3>1. r.err
      BY <2>2, <2>4
    <3>2. Records(c, r, {x \in {id} : exists.val})
      BY <2>2, <3>1 DEF Records
    <3> QED
      BY <2>1, <2>2, <2>4, <3>2
  <2> QED
    BY <1>3, <2>3, <2>4
<1> QED
  BY <1>2, <1>3

\* What is added because it exists is what the host gives.
LEMMA AppendIfExistsTruthful ==
    ASSUME NEW c, NEW id, NEW exists, NEW res, res = Made(id, {}, FALSE)
    PROVE  Truthful(c, AppendSysResourceIfExists(res, exists, c, id), {x \in {id} : exists.val}, {})
<1>1. CASE ~res.err /\ ~exists.val
  BY <1>1 DEF AppendSysResourceIfExists, Truthful
<1>2. CASE res.err \/ exists.val
  <2> DEFINE r == AppendSysResource(res, c, id)
  <2>1. AppendSysResourceIfExists(res, exists, c, id) = r
    BY <1>2 DEF AppendSysResourceIfExists
  <2>2. Truthful(c, r, {id}, {})
    BY AppendTruthful
  <2> HIDE DEF r
  <2> QED
    BY <2>1, <2>2 DEF Truthful
<1> QED
  BY <1>1, <1>2

\* One recording after another, up to the first error.
LEMMA RecordsThen ==
    ASSUME NEW c, NEW r, NEW q, NEW s, NEW A, NEW B,
           Records(c, r, A), Records(r.c, q, B), s = IF r.err THEN r ELSE q
    PROVE  Records(c, s, A \cup B)
<1>1. CASE r.err
  BY <1>1 DEF Records
<1>2. CASE ~r.err
  BY <1>2, KeptTransitive DEF Records
<1> QED
  BY <1>1, <1>2

\* And what it recorded first is still there.
LEMMA TruthfulThen ==
    ASSUME NEW c, NEW r, NEW q, NEW s, NEW A, NEW B, NEW ignore,
           Records(c, r, A), Truthful(c, r, A, ignore), Truthful(r.c, q, B, ignore),
           s = IF r.err THEN r ELSE q
    PROVE  Truthful(c, s, A \cup B, ignore)
<1>1. CASE r.err
  BY <1>1 DEF Truthful
<1>2. CASE ~r.err
  <2>1. DOMAIN r.c = DOMAIN c \cup A
    BY <1>2 DEF Records
  <2>2. /\ \A id \in A : Honest(r.c, id, ignore)
        /\ \A id \in DOMAIN c : Honest(c, id, ignore) => Honest(r.c, id, ignore)
    BY <1>2 DEF Truthful
  <2>3. s = q
    BY <1>2
  <2> QED
    BY <2>1, <2>2, <2>3 DEF Truthful
<1> QED
  BY <1>1, <1>2

\* goss add records the key it was given, with what the host gives of it.
LEMMA AddRecords ==
    ASSUME NEW c, NEW type \in Types, NEW k, NEW ignore, NEW lost \in BOOLEAN
    PROVE  /\ Records(c, AddResource(c, type, k, ignore, lost), {ID(type, k)})
           /\ Truthful(c, AddResource(c, type, k, ignore, lost), {ID(type, k)}, ignore)
<1> DEFINE R == AddResource(c, type, k, ignore, lost)
<1>1. R = AppendSysResource(Made(ID(type, k), ignore, lost), c, ID(type, k))
  <2>1. CASE type = "addr"
    BY <2>1, IDType DEF AddResource, AddrMap, Made, Host
  <2>2. CASE type = "command"
    BY <2>2, IDType DEF AddResource, CommandMap, Made, Host
  <2>3. CASE type = "dns"
    BY <2>3, IDType DEF AddResource, DNSMap, Made, Host
  <2>4. CASE type = "file"
    BY <2>4, IDType DEF AddResource, FileMap, Made, Host
  <2>5. CASE type = "group"
    BY <2>5, IDType DEF AddResource, GroupMap, Made, Host
  <2>6. CASE type = "package"
    BY <2>6, IDType DEF AddResource, PackageMap, Made, Host
  <2>7. CASE type = "port"
    BY <2>7, IDType DEF AddResource, PortMap, Made, Host
  <2>8. CASE type = "process"
    BY <2>8, IDType DEF AddResource, ProcessMap, Made, Host
  <2>9. CASE type = "service"
    BY <2>9, IDType DEF AddResource, ServiceMap, Made, Host
  <2>10. CASE type = "user"
    BY <2>10, IDType DEF AddResource, UserMap, Made, Host
  <2>11. CASE type = "gossfile"
    BY <2>11, IDType DEF AddResource, GossfileMap, Made, Host
  <2>12. CASE type = "kernel-param"
    BY <2>12, IDType DEF AddResource, KernelParamMap, Made, Host
  <2>13. CASE type = "mount"
    BY <2>13, IDType DEF AddResource, MountMap, Made, Host
  <2>14. CASE type = "interface"
    BY <2>14, IDType DEF AddResource, InterfaceMap, Made, Host
  <2>15. CASE type = "http"
    BY <2>15, IDType DEF AddResource, HTTPMap, Made, Host
  <2>16. CASE type = "registry"
    BY <2>16, IDType DEF AddResource, RegistryMap, Made, Host
  <2> QED
    BY <2>1, <2>2, <2>3, <2>4, <2>5, <2>6, <2>7, <2>8, <2>9, <2>10, <2>11, <2>12, <2>13, <2>14,
       <2>15, <2>16 DEF Types
<1> QED
  BY <1>1, AppendRecords, AppendTruthful

-----------------------------------------------------------------------------
(* autoadd.                                                                *)

\* The resources by the name of a key that there are, type by type.
FileOf(k) == {x \in {ID("file", k)} : Host("service", k).slash /\ Host("file", k).lstat = "ok"}
GroupOf(k) == {x \in {ID("group", k)} : Host("group", k).known}
PackageOf(k) == {x \in {ID("package", k)} : detectPackage(Host("package", k)).installed.val}
PortOf(k) == {x \in {ID("port", k)} : Host("port", k).read /\ Host("port", k).open}
ProcessOf(k) == {x \in {ID("process", k)} : Host("process", k).running}
ServiceOf(k) == {x \in {ID("service", k)} : detectService(Host("service", k)).exists.val}
UserOf(k) == {x \in {ID("user", k)} : Host("user", k).known}

\* The listening ports of the processes by that name.
OwnPortsOf(k) ==
    {ID("port", o) : o \in {x \in Host("process", k).ports :
        Host("process", k).running /\ Host("port", x).read /\ Host("port", x).open}}

\* A group is recorded if there is one.
LEMMA GroupRecords ==
    ASSUME NEW c, NEW k
    PROVE  /\ Records(c, GroupIfExists(c, k, Host("group", k)), GroupOf(k))
           /\ Truthful(c, GroupIfExists(c, k, Host("group", k)), GroupOf(k), {})
<1> DEFINE h == Host("group", k)
<1>1. /\ Records(c, GroupIfExists(c, k, h), {x \in {ID("group", k)} : DefGroup(h).exists.val})
      /\ Truthful(c, GroupIfExists(c, k, h), {x \in {ID("group", k)} : DefGroup(h).exists.val}, {})
  BY MadeByType, AppendIfExistsRecords, AppendIfExistsTruthful DEF GroupIfExists
<1>2. DefGroup(h).exists.val = h.known
  BY DEF DefGroup, Ok
<1> QED
  BY <1>1, <1>2 DEF GroupOf

\* A package is recorded if its manager says that it is installed.
LEMMA PackageRecords ==
    ASSUME NEW c, NEW k
    PROVE  /\ Records(c, PackageIfExists(c, k, Host("package", k)), PackageOf(k))
           /\ Truthful(c, PackageIfExists(c, k, Host("package", k)), PackageOf(k), {})
BY MadeByType, AppendIfExistsRecords, AppendIfExistsTruthful DEF PackageIfExists, PackageOf

\* A port is recorded if it is listening.
LEMMA PortRecords ==
    ASSUME NEW c, NEW k
    PROVE  /\ Records(c, PortIfExists(c, k, Host("port", k)), PortOf(k))
           /\ Truthful(c, PortIfExists(c, k, Host("port", k)), PortOf(k), {})
<1> DEFINE h == Host("port", k)
<1>1. /\ Records(c, PortIfExists(c, k, h), {x \in {ID("port", k)} : DefPort(h).listening.val})
      /\ Truthful(c, PortIfExists(c, k, h), {x \in {ID("port", k)} : DefPort(h).listening.val}, {})
  BY MadeByType, AppendIfExistsRecords, AppendIfExistsTruthful DEF PortIfExists
<1>2. DefPort(h).listening.val = (h.read /\ h.open)
  BY DEF DefPort
<1> QED
  BY <1>1, <1>2 DEF PortOf

\* A service is recorded if its manager knows it.
LEMMA ServiceRecords ==
    ASSUME NEW c, NEW k
    PROVE  /\ Records(c, ServiceIfExists(c, k, Host("service", k)), ServiceOf(k))
           /\ Truthful(c, ServiceIfExists(c, k, Host("service", k)), ServiceOf(k), {})
BY MadeByType, AppendIfExistsRecords, AppendIfExistsTruthful DEF ServiceIfExists, ServiceOf

\* A user is recorded if there is one.
LEMMA UserRecords ==
    ASSUME NEW c, NEW k
    PROVE  /\ Records(c, UserIfExists(c, k, Host("user", k)), UserOf(k))
           /\ Truthful(c, UserIfExists(c, k, Host("user", k)), UserOf(k), {})
<1> DEFINE h == Host("user", k)
<1>1. /\ Records(c, UserIfExists(c, k, h), {x \in {ID("user", k)} : DefUser(h).exists.val})
      /\ Truthful(c, UserIfExists(c, k, h), {x \in {ID("user", k)} : DefUser(h).exists.val}, {})
  BY MadeByType, AppendIfExistsRecords, AppendIfExistsTruthful DEF UserIfExists
<1>2. DefUser(h).exists.val = h.known
  BY DEF DefUser, Ok
<1> QED
  BY <1>1, <1>2 DEF UserOf

\* A port is always built, and found when it is listening.
LEMMA PortFound == ASSUME NEW c, NEW k, NEW h
                   PROVE  /\ ~PortIfExists(c, k, h).err
                          /\ PortIfExists(c, k, h).found <=> h.read /\ h.open
<1>1. ~NewPort(DefPort(h), {}).err
  BY DEF NewPort, New
<1>2. DefPort(h).listening.val = (h.read /\ h.open)
  BY DEF DefPort
<1> QED
  BY <1>1, <1>2, AppendIfExistsRecords DEF PortIfExists

\* A file is recorded when it can be looked at and is there.
LEMMA FileRecords ==
    ASSUME NEW c, NEW k, Host("file", k).lstat \in {"ok", "notexist", "denied"},
           Host("service", k).slash
    PROVE  /\ Records(c, FileIfExists(c, k, Host("file", k)), FileOf(k))
           /\ Truthful(c, FileIfExists(c, k, Host("file", k)), FileOf(k), {})
<1> DEFINE h == Host("file", k)
           r == FileIfExists(c, k, h)
           exists == DefFile(h).exists
<1>1. /\ Records(c, r, {x \in {ID("file", k)} : exists.val})
      /\ Truthful(c, r, {x \in {ID("file", k)} : exists.val}, {})
      /\ r.err <=> NewFile(DefFile(h), {}).err
  BY MadeByType, AppendIfExistsRecords, AppendIfExistsTruthful DEF FileIfExists
<1>2. NewFile(DefFile(h), {}).err = exists.err
  BY DEF NewFile, New
<1>3. ~exists.err => (exists.val <=> h.lstat = "ok")
  BY DEF DefFile, realPath, Bad
<1> HIDE DEF exists, r
<1>4. CASE r.err
  BY <1>1, <1>4 DEF Records, Truthful, r
<1>5. CASE ~r.err
  <2>1. exists.val <=> h.lstat = "ok"
    BY <1>1, <1>2, <1>3, <1>5
  <2>2. {x \in {ID("file", k)} : exists.val} = FileOf(k)
    BY <2>1 DEF FileOf
  <2> QED
    BY <1>1, <2>2 DEF r
<1> QED
  BY <1>4, <1>5

\* A process is recorded when it runs, and found says so.
LEMMA ProcessRecords ==
    ASSUME NEW c, NEW k, Host("process", k).list \in {"ok", "error"}
    PROVE  /\ Records(c, ProcessIfExists(c, k, Host("process", k)), ProcessOf(k))
           /\ Truthful(c, ProcessIfExists(c, k, Host("process", k)), ProcessOf(k), {})
           /\ ~ProcessIfExists(c, k, Host("process", k)).err =>
                 (ProcessIfExists(c, k, Host("process", k)).found <=> Host("process", k).running)
<1> DEFINE h == Host("process", k)
           r == ProcessIfExists(c, k, h)
           running == DefProcess(h).running
<1>1. /\ Records(c, r, {x \in {ID("process", k)} : running.val})
      /\ Truthful(c, r, {x \in {ID("process", k)} : running.val}, {})
      /\ r.err <=> NewProcess(DefProcess(h), {}).err
      /\ ~NewProcess(DefProcess(h), {}).err => (r.found <=> running.val)
  BY MadeByType, AppendIfExistsRecords, AppendIfExistsTruthful DEF ProcessIfExists
<1>2. NewProcess(DefProcess(h), {}).err = running.err
  BY DEF NewProcess, New
<1>3. ~running.err => (running.val <=> h.running)
  BY DEF DefProcess
<1> HIDE DEF running, r
<1>4. CASE r.err
  BY <1>1, <1>4 DEF Records, Truthful, r
<1>5. CASE ~r.err
  <2>1. (running.val <=> h.running) /\ (r.found <=> h.running)
    BY <1>1, <1>2, <1>3, <1>5
  <2>2. {x \in {ID("process", k)} : running.val} = ProcessOf(k)
    BY <2>1 DEF ProcessOf
  <2> QED
    BY <1>1, <2>1, <2>2 DEF r
<1> QED
  BY <1>4, <1>5

\* The listening ports of a process that runs are recorded with it.
LEMMA OwnPortsRecord ==
    ASSUME NEW c, NEW k, run \in Scenarios, Host("process", k).list \in {"ok", "error"}
    PROVE  /\ Records(c, OwnPorts(ProcessIfExists(c, k, Host("process", k)), k),
                      ProcessOf(k) \cup OwnPortsOf(k))
           /\ Truthful(c, OwnPorts(ProcessIfExists(c, k, Host("process", k)), k),
                       ProcessOf(k) \cup OwnPortsOf(k), {})
<1> DEFINE h == Host("process", k)
           r == ProcessIfExists(c, k, h)
           P == ProcessOf(k)
           Q == OwnPortsOf(k)
           listening == {x \in h.ports : Host("port", x).read /\ Host("port", x).open}
           ids == {ID("port", o) : o \in listening}
           f == [id \in ids |-> PortIfExists(r.c, id[2], Host("port", id[2])).c[id]]
           s == OwnPorts(r, k)
<1>1. Records(c, r, P) /\ Truthful(c, r, P, {}) /\ (~r.err => (r.found <=> h.running))
  BY ProcessRecords
<1> HIDE DEF r, h
<1>2. CASE r.err
  <2>1. s = r
    BY <1>2 DEF OwnPorts
  <2> QED
    BY <1>1, <1>2, <2>1 DEF Records, Truthful, r, h
<1>3. CASE ~r.err /\ ~r.found
  <2>1. s = r
    BY <1>3 DEF OwnPorts
  <2>2. ~h.running
    BY <1>1, <1>3
  <2>3. P \cup Q = P
    BY <2>2 DEF OwnPortsOf, h
  <2> QED
    BY <1>1, <2>1, <2>3 DEF r, h
<1>4. CASE ~r.err /\ r.found /\ ~h.portsRead
  <2>1. s = [err |-> TRUE, c |-> r.c, found |-> TRUE]
    BY <1>4, PortFound DEF OwnPorts, Result, h
  <2> QED
    BY <1>1, <2>1 DEF Records, Truthful, r, h
<1>5. CASE ~r.err /\ r.found /\ h.portsRead
  <2>1. {x \in h.ports : PortIfExists(r.c, x, Host("port", x)).found} = listening
    BY PortFound
  <2>2. s = [err |-> FALSE, c |-> Over(f, r.c), found |-> TRUE]
    BY <1>5, <2>1, PortFound DEF OwnPorts, Result, h
  <2>3. DOMAIN Over(f, r.c) = ids \cup DOMAIN r.c
    BY DEF Over
  <2>4. h.running
    BY <1>1, <1>5
  <2>5. Q = ids
    BY <2>4 DEF OwnPortsOf, h
  <2>6. Kept(r.c, Over(f, r.c))
    <3>1. ASSUME NEW id \in DOMAIN r.c PROVE Over(f, r.c)[id].title = r.c[id].title
      <4>1. CASE id \in ids
        <5>1. Over(f, r.c)[id] = PortIfExists(r.c, id[2], Host("port", id[2])).c[id]
          BY <4>1 DEF Over
        <5>2. Kept(r.c, PortIfExists(r.c, id[2], Host("port", id[2])).c)
          BY PortRecords DEF Records
        <5> QED
          BY <5>1, <5>2, <3>1 DEF Kept
      <4>2. CASE id \notin ids
        BY <3>1, <4>2 DEF Over
      <4> QED
        BY <4>1, <4>2
    <3> QED
      BY <2>3, <3>1 DEF Kept
  <2>7. Kept(c, Over(f, r.c))
    BY <1>1, <2>6, KeptTransitive DEF Records
  <2>8. DOMAIN r.c = DOMAIN c \cup P
    BY <1>1, <1>5 DEF Records
  <2>9. Records(c, s, P \cup Q)
    <3> DEFINE d == Over(f, r.c)
    <3>1. DOMAIN d = DOMAIN c \cup (P \cup Q) /\ Kept(c, d) /\ s = [err |-> FALSE, c |-> d, found |-> TRUE]
      BY <2>2, <2>3, <2>5, <2>7, <2>8
    <3> HIDE DEF d, s
    <3> QED
      BY <3>1 DEF Records
  <2>10. \A id \in ids : Honest(Over(f, r.c), id, {})
    <3> SUFFICES ASSUME NEW o \in listening PROVE Honest(Over(f, r.c), ID("port", o), {})
      OBVIOUS
    <3> DEFINE q == PortIfExists(r.c, o, Host("port", o))
    <3>1. Over(f, r.c)[ID("port", o)] = q.c[ID("port", o)]
      <4>1. Host("port", ID("port", o)[2]) = Host("port", o)
        BY PortSpelledOnce DEF Host
      <4>2. PortIfExists(r.c, ID("port", o)[2], Host("port", o)) = q
        BY PortSpelledOnce DEF PortIfExists
      <4> HIDE DEF q
      <4> QED
        BY <4>1, <4>2 DEF Over
    <3>2. Truthful(r.c, q, PortOf(o), {}) /\ ~q.err
      BY PortRecords, PortFound
    <3>3. ID("port", o) \in PortOf(o)
      BY DEF PortOf
    <3> HIDE DEF q
    <3>4. Honest(q.c, ID("port", o), {})
      BY <3>2, <3>3 DEF Truthful
    <3> HIDE DEF f
    <3> QED
      BY <3>1, <3>4 DEF Honest
  <2>11. \A id \in DOMAIN r.c : Honest(r.c, id, {}) => Honest(Over(f, r.c), id, {})
    <3>1. \A id \in DOMAIN r.c : id \notin ids => Over(f, r.c)[id] = r.c[id]
      BY DEF Over
    <3> HIDE DEF ids, f
    <3> QED
      BY <2>10, <3>1 DEF Honest
  <2>12. Truthful(c, s, P \cup Q, {})
    <3> DEFINE d == Over(f, r.c)
    <3>1. s = [err |-> FALSE, c |-> d, found |-> TRUE]
      BY <2>2
    <3>2. /\ \A id \in P : Honest(r.c, id, {})
          /\ \A id \in DOMAIN c : Honest(c, id, {}) => Honest(r.c, id, {})
      BY <1>1, <1>5 DEF Truthful
    <3> HIDE DEF d, s, P, Q, ids, f
    <3>3. \A id \in P \cup Q : Honest(d, id, {})
      BY <2>5, <2>8, <2>10, <2>11, <3>2 DEF d
    <3>4. \A id \in DOMAIN c : Honest(c, id, {}) => Honest(d, id, {})
      BY <2>8, <2>11, <3>2 DEF d
    <3> QED
      BY <3>1, <3>3, <3>4 DEF Truthful
  <2> QED
    BY <2>9, <2>12 DEF r, h
<1> QED
  BY <1>2, <1>3, <1>4, <1>5

\* What there is by the name of a key, type by type.
LEMMA ThereByType ==
    ASSUME NEW k
    PROVE  There(k) = (((((FileOf(k) \cup GroupOf(k)) \cup PackageOf(k)) \cup PortOf(k))
                          \cup (ProcessOf(k) \cup OwnPortsOf(k))) \cup ServiceOf(k)) \cup UserOf(k)
<1>1. /\ {ID("file", x) : x \in {y \in {k} : Host("service", y).slash /\ Host("file", y).lstat = "ok"}} = FileOf(k)
      /\ {ID("group", x) : x \in {y \in {k} : Host("group", y).known}} = GroupOf(k)
      /\ {ID("package", x) : x \in {y \in {k} : detectPackage(Host("package", y)).installed.val}} = PackageOf(k)
      /\ {ID("process", x) : x \in {y \in {k} : Host("process", y).running}} = ProcessOf(k)
      /\ {ID("service", x) : x \in {y \in {k} : detectService(Host("service", y)).exists.val}} = ServiceOf(k)
      /\ {ID("user", x) : x \in {y \in {k} : Host("user", y).known}} = UserOf(k)
  BY DEF FileOf, GroupOf, PackageOf, ProcessOf, ServiceOf, UserOf
<1>2. {ID("port", x) : x \in {y \in {k} \cup (IF Host("process", k).running THEN Host("process", k).ports ELSE {}) :
                                Host("port", y).read /\ Host("port", y).open}}
        = PortOf(k) \cup OwnPortsOf(k)
  BY DEF PortOf, OwnPortsOf
<1> QED
  BY <1>1, <1>2 DEF There

\* goss autoadd records exactly what there is by the name of its key, and
\* what the host gives of it.
LEMMA AutoAddRecords ==
    ASSUME NEW c, NEW k, run \in Scenarios, Host("file", k).lstat \in {"ok", "notexist", "denied"},
           Host("process", k).list \in {"ok", "error"}
    PROVE  Records(c, AutoAddResource(c, k), There(k)) /\ Truthful(c, AutoAddResource(c, k), There(k), {})
<1> DEFINE s1 == IF Host("service", k).slash THEN FileIfExists(c, k, Host("file", k)) ELSE Result(FALSE, c)
           q2 == GroupIfExists(s1.c, k, Host("group", k))
           s2 == IF s1.err THEN s1 ELSE q2
           q3 == PackageIfExists(s2.c, k, Host("package", k))
           s3 == IF s2.err THEN s2 ELSE q3
           q4 == PortIfExists(s3.c, k, Host("port", k))
           s4 == IF s3.err THEN s3 ELSE q4
           q5 == OwnPorts(ProcessIfExists(s4.c, k, Host("process", k)), k)
           s5 == IF s4.err THEN s4 ELSE q5
           q6 == ServiceIfExists(s5.c, k, Host("service", k))
           s6 == IF s5.err THEN s5 ELSE q6
           q7 == UserIfExists(s6.c, k, Host("user", k))
           s7 == IF s6.err THEN s6 ELSE q7
           A2 == FileOf(k) \cup GroupOf(k)
           A3 == A2 \cup PackageOf(k)
           A4 == A3 \cup PortOf(k)
           A5 == A4 \cup (ProcessOf(k) \cup OwnPortsOf(k))
           A6 == A5 \cup ServiceOf(k)
           A7 == A6 \cup UserOf(k)
<1>1. AutoAddResource(c, k) = s7
  BY DEF AutoAddResource, Then
<1>2. Records(c, s1, FileOf(k)) /\ Truthful(c, s1, FileOf(k), {})
  <2>1. CASE Host("service", k).slash
    BY <2>1, FileRecords
  <2>2. CASE ~Host("service", k).slash
    <3>1. s1 = [err |-> FALSE, c |-> c, found |-> TRUE]
      BY <2>2 DEF Result
    <3>2. FileOf(k) = {}
      BY <2>2 DEF FileOf
    <3> HIDE DEF s1
    <3> QED
      BY <3>1, <3>2 DEF Records, Kept, Truthful
  <2> QED
    BY <2>1, <2>2
<1> HIDE DEF s1
<1>3. Records(c, s2, A2) /\ Truthful(c, s2, A2, {})
  BY <1>2, GroupRecords, RecordsThen, TruthfulThen
<1> HIDE DEF s2, A2
<1>4. Records(c, s3, A3) /\ Truthful(c, s3, A3, {})
  BY <1>3, PackageRecords, RecordsThen, TruthfulThen
<1> HIDE DEF s3, A3
<1>5. Records(c, s4, A4) /\ Truthful(c, s4, A4, {})
  BY <1>4, PortRecords, RecordsThen, TruthfulThen
<1> HIDE DEF s4, A4
<1>6. Records(c, s5, A5) /\ Truthful(c, s5, A5, {})
  <2>1. /\ Records(s4.c, q5, ProcessOf(k) \cup OwnPortsOf(k))
        /\ Truthful(s4.c, q5, ProcessOf(k) \cup OwnPortsOf(k), {})
    BY OwnPortsRecord
  <2> HIDE DEF q5
  <2> QED
    BY <1>5, <2>1, RecordsThen, TruthfulThen
<1> HIDE DEF s5, A5
<1>7. Records(c, s6, A6) /\ Truthful(c, s6, A6, {})
  BY <1>6, ServiceRecords, RecordsThen, TruthfulThen
<1> HIDE DEF s6, A6
<1>8. Records(c, s7, A7) /\ Truthful(c, s7, A7, {})
  BY <1>7, UserRecords, RecordsThen, TruthfulThen
<1> HIDE DEF s7
<1>9. There(k) = A7
  BY ThereByType DEF A2, A3, A4, A5, A6
<1> QED
  BY <1>1, <1>8, <1>9

-----------------------------------------------------------------------------
(* The commands.                                                           *)

\* What a key makes a command record.
Wants(p, k) == IF run.cmds[p].op = "add" THEN {ID(run.cmds[p].type, k)} ELSE There(k)

\* The types of the variables: a function for each command.
Shapes ==
    /\ run \in Scenarios
    /\ DOMAIN pc = Procs /\ DOMAIN todo = Procs /\ DOMAIN mem = Procs /\ DOMAIN read = Procs
    /\ DOMAIN base = Procs /\ DOMAIN wrote = Procs /\ by \subseteq Procs

\* Whenever the gossfile is whole it is the last one that was committed; one
\* that is missing has never been written.
FileSays ==
    /\ file.state \in {"whole", "missing"} => committed = file.text
    /\ file.state = "missing" => file.text = None
    /\ file.state \in {"whole", "missing", "torn"}

\* A command that read the file as it was keeps every test and title of it.
MemKeeps ==
    \A p \in Procs : pc[p] \in {"adding", "writing"} => p \in tornRead \/ Kept(base[p], mem[p])

\* Only YAML lets a command read a torn file.
TornIsYAML == \A p \in tornRead : Format = "YAML"

\* A command that finds a whole file where it had truncated it has been
\* overtaken, and a torn one has been left by a write that was cut or met another.
Damage ==
    /\ \A p \in Procs : pc[p] = "writing" /\ file.state = "whole" => wrote[p] # {}
    /\ DamagedOnlyByCut

\* What the first n keys make a command record.
WantsUpTo(p, n) == UNION {Wants(p, run.cmds[p].keys[i]) : i \in 1..n}

\* The attributes a command leaves out: autoadd takes them all.
Ignored(p) == IF run.cmds[p].op = "add" THEN run.cmds[p].ignore ELSE {}

\* The first n keys have been recorded on top of what was read, as the host is.
Recorded(p, n) ==
    LET keys == run.cmds[p].keys
    IN  /\ Len(todo[p]) = Len(keys) - n
        /\ \A i \in 1..Len(todo[p]) : todo[p][i] = keys[n + i]
        /\ DOMAIN mem[p] = DOMAIN read[p] \cup WantsUpTo(p, n)
        /\ \A id \in WantsUpTo(p, n) : Honest(mem[p], id, Ignored(p))

\* Every command has recorded its keys up to the one it is at, and writes, or
\* ends well, when it has none left.
Progress ==
    \A p \in Procs :
        /\ todo[p] \in Seq(STRING)
        /\ \E n \in 0..Len(run.cmds[p].keys) : Recorded(p, n)
        /\ pc[p] = "start" => Recorded(p, 0)
        /\ pc[p] \in {"writing", "done"} => todo[p] = <<>>

\* The inductive invariant of the commands on one gossfile.
AddInv == Shapes /\ FileSays /\ MemKeeps /\ TornIsYAML /\ Damage /\ Progress

\* The keys of a command.
LEMMA KeysOf ==
    ASSUME run \in Scenarios, NEW p \in Procs
    PROVE  /\ run.cmds[p].keys \in Seq(STRING)
           /\ Len(run.cmds[p].keys) \in Nat /\ DOMAIN run.cmds[p].keys = 1..Len(run.cmds[p].keys)
<1>1. run.cmds[p].keys \in Seq(STRING)
  BY ScenariosAssumption DEF Procs
<1> QED
  BY <1>1

\* What there is, and what a key makes a command record, are the host's and the
\* command line's and never change.
LEMMA WantsStay == ASSUME run' = run PROVE \A p, k : Wants(p, k)' = Wants(p, k)
<1> SUFFICES ASSUME NEW p, NEW k PROVE Wants(p, k)' = Wants(p, k)
  OBVIOUS
<1>1. There(k)' = There(k)
  BY DEF There, Host, ID, normalizeAddress, normalizePort, Abs
<1>2. \A type : ID(type, k)' = ID(type, k)
  BY DEF ID, normalizeAddress, normalizePort, Abs
<1> QED
  BY <1>1, <1>2 DEF Wants

\* Neither does what is made of a resource.
LEMMA MadeStays == ASSUME run' = run PROVE \A id, ignore, lost : Made(id, ignore, lost)' = Made(id, ignore, lost)
BY DEF Made

\* A command that does nothing has recorded what it had.
LEMMA RecordedStays ==
    ASSUME NEW p, NEW n, run' = run, todo'[p] = todo[p], mem'[p] = mem[p], read'[p] = read[p]
    PROVE  Recorded(p, n)' <=> Recorded(p, n)
<1>1. WantsUpTo(p, n)' = WantsUpTo(p, n) /\ Ignored(p)' = Ignored(p)
  BY WantsStay DEF WantsUpTo, Ignored
<1>2. \A id : Honest(mem[p], id, Ignored(p))' <=> Honest(mem[p], id, Ignored(p))
  BY <1>1, MadeStays DEF Honest
<1> QED
  BY <1>1, <1>2 DEF Recorded

\* One key more.
LEMMA WantsGrow ==
    ASSUME NEW p
    PROVE  /\ WantsUpTo(p, 0) = {}
           /\ \A n \in Nat : WantsUpTo(p, n + 1) = WantsUpTo(p, n) \cup Wants(p, run.cmds[p].keys[n + 1])
<1>1. 1..0 = {}
  OBVIOUS
<1>2. \A n \in Nat : 1..(n + 1) = (1..n) \cup {n + 1}
  OBVIOUS
<1> QED
  BY <1>1, <1>2 DEF WantsUpTo

\* Commands that only move on make the same progress.
LEMMA ProgressStays ==
    ASSUME Progress, run' = run, todo' = todo, mem' = mem, read' = read,
           \A p \in Procs : /\ pc'[p] = "start" => pc[p] = "start"
                            /\ pc'[p] \in {"writing", "done"} => todo[p] = <<>>
    PROVE  Progress'
<1>1. Procs' = Procs
  BY DEF Procs
<1>2. ASSUME NEW p, NEW n PROVE Recorded(p, n)' <=> Recorded(p, n)
  BY RecordedStays
<1> QED
  BY <1>1, <1>2 DEF Progress

\* Commands that only move on keep what they had read.
LEMMA MemStays ==
    ASSUME MemKeeps, TornIsYAML, run' = run, mem' = mem, base' = base, tornRead' = tornRead,
           \A p \in Procs : pc'[p] \in {"adding", "writing"} => pc[p] \in {"adding", "writing"}
    PROVE  MemKeeps' /\ TornIsYAML'
<1>1. Procs' = Procs /\ Format' = Format
  BY DEF Procs, Format
<1> QED
  BY <1>1 DEF MemKeeps, TornIsYAML

\* Commands that do not come near the file leave it as whole as it was.
LEMMA DamageStays ==
    ASSUME Shapes, Damage, run' = run, file' = file, wrote' = wrote, by' = by,
           \A p \in Procs : pc'[p] = pc[p] \/ (pc[p] \in {"start", "adding"} /\ pc'[p] # "writing")
    PROVE  Damage'
<1>1. Procs' = Procs
  BY DEF Procs
<1>2. \A p \in Procs : pc'[p] = "writing" /\ file'.state = "whole" => wrote'[p] # {}
  BY DEF Damage
<1>3. DamagedOnlyByCut'
  BY DEF Damage, DamagedOnlyByCut, Shapes
<1> QED
  BY <1>1, <1>2, <1>3 DEF Damage

\* At first no command has read anything.
LEMMA AddInitial == Init => AddInv
<1> SUFFICES ASSUME Init PROVE AddInv
  OBVIOUS
<1>1. Shapes
  BY DEF Init, Shapes
<1>2. FileSays
  BY ScenariosAssumption DEF Init, FileSays
<1>3. MemKeeps /\ TornIsYAML
  BY DEF Init, MemKeeps, TornIsYAML
<1>4. Damage
  BY ScenariosAssumption DEF Init, Damage, DamagedOnlyByCut
<1>5. Progress
  <2> SUFFICES ASSUME NEW p \in Procs
               PROVE  /\ todo[p] \in Seq(STRING) /\ pc[p] = "start"
                      /\ Len(run.cmds[p].keys) \in Nat /\ Recorded(p, 0)
    BY DEF Progress
  <2>1. run.cmds[p].keys \in Seq(STRING) /\ todo[p] = run.cmds[p].keys
    BY KeysOf DEF Init
  <2>2. mem[p] = None /\ read[p] = None /\ pc[p] = "start"
    BY DEF Init
  <2>3. WantsUpTo(p, 0) = {}
    BY WantsGrow
  <2>4. Recorded(p, 0)
    <3>1. Len(todo[p]) \in Nat /\ \A i \in 1..Len(todo[p]) : 0 + i = i
      BY <2>1
    <3>2. Len(todo[p]) = Len(run.cmds[p].keys) - 0
      BY <2>1, <3>1
    <3> QED
      BY <2>1, <2>2, <2>3, <3>1, <3>2 DEF Recorded
  <2> QED
    BY <2>1, <2>2, <2>4
<1> QED
  BY <1>1, <1>2, <1>3, <1>4, <1>5 DEF AddInv

\* A command that reads the gossfile as it is keeps all of it.
LEMMA BeginKeeps == ASSUME AddInv, NEW p \in Procs, Begin(p) PROVE AddInv'
<1>1. /\ pc[p] = "start" /\ run' = run /\ file' = file /\ todo' = todo /\ committed' = committed
      /\ wrote' = wrote /\ by' = by
  BY DEF Begin
<1>2. Procs' = Procs /\ Format' = Format
  BY <1>1 DEF Procs, Format
<1>3. FileSays'
  BY <1>1 DEF AddInv, FileSays
<1>4. CASE pc' = [pc EXCEPT ![p] = "failed"] /\ UNCHANGED <<mem, read, base, tornRead>>
  <2>1. pc'[p] = "failed" /\ \A q \in Procs : q # p => pc'[q] = pc[q]
    BY <1>4 DEF AddInv, Shapes
  <2>2. Shapes'
    BY <1>1, <1>2, <1>4 DEF AddInv, Shapes
  <2>3. MemKeeps' /\ TornIsYAML'
    BY <1>1, <1>4, <2>1, MemStays DEF AddInv
  <2>4. Progress'
    BY <1>1, <1>4, <2>1, ProgressStays DEF AddInv, Progress
  <2>5. Damage'
    BY <1>1, <2>1, DamageStays DEF AddInv
  <2> QED
    BY <1>3, <2>2, <2>3, <2>4, <2>5 DEF AddInv
<1>5. ASSUME Format # "unknown", pc' = [pc EXCEPT ![p] = "adding"],
             NEW c \in IF file.state = "missing" THEN {None} ELSE ReadJSON(file),
             mem' = [mem EXCEPT ![p] = c], read' = [read EXCEPT ![p] = c],
             base' = [base EXCEPT ![p] = committed],
             tornRead' = IF file.state = "torn" THEN tornRead \cup {p} ELSE tornRead
      PROVE  AddInv'
  <2>1. /\ pc'[p] = "adding" /\ mem'[p] = c /\ read'[p] = c /\ base'[p] = committed
        /\ \A q \in Procs : q # p => /\ pc'[q] = pc[q] /\ mem'[q] = mem[q]
                                     /\ read'[q] = read[q] /\ base'[q] = base[q]
    BY <1>5 DEF AddInv, Shapes
  <2>2. Shapes'
    BY <1>1, <1>2, <1>5 DEF AddInv, Shapes
  <2>3. MemKeeps' /\ TornIsYAML'
    <3>1. CASE file.state = "torn"
      <4>1. tornRead' = tornRead \cup {p} /\ c \in ReadJSON(file)
        BY <1>5, <3>1
      <4>2. Format # "JSON"
        BY <3>1, <4>1 DEF ReadJSON
      <4>3. Format = "YAML"
        BY <1>5, <4>2, ScenariosAssumption DEF Format, getStoreFormatFromFileName, AddInv, Shapes
      <4>4. MemKeeps' /\ TornIsYAML'
        BY <1>2, <2>1, <4>1, <4>3 DEF AddInv, MemKeeps, TornIsYAML
      <4> QED
        BY <4>4
    <3>2. CASE file.state # "torn"
      <4>1. file.state \in {"whole", "missing"} /\ tornRead' = tornRead /\ committed = file.text
        BY <1>5, <3>2 DEF AddInv, FileSays
      <4>2. c = committed
        <5>1. CASE file.state = "missing"
          BY <1>5, <4>1, <5>1 DEF AddInv, FileSays
        <5>2. CASE file.state = "whole"
          <6>1. ReadJSON(file) \subseteq {file.text}
            BY <5>2 DEF ReadJSON, UnmarshalJSON, UnmarshalYAML
          <6> QED
            BY <1>5, <4>1, <5>2, <6>1
        <5> QED
          BY <4>1, <5>1, <5>2
      <4>3. Kept(base'[p], mem'[p])
        BY <2>1, <4>2 DEF Kept
      <4> QED
        BY <1>2, <2>1, <4>1, <4>3 DEF AddInv, MemKeeps, TornIsYAML
    <3> QED
      BY <3>1, <3>2
  <2>4. Progress'
    <3>1. \A q \in Procs : q # p => \A n : Recorded(q, n)' <=> Recorded(q, n)
      BY <1>1, <2>1, RecordedStays
    <3>2. WantsUpTo(p, 0)' = WantsUpTo(p, 0)
      BY <1>1, WantsStay DEF WantsUpTo
    <3>3. Recorded(p, 0)
      BY <1>1 DEF AddInv, Progress
    <3>4. Recorded(p, 0)'
      BY <1>1, <2>1, <3>2, <3>3, WantsGrow DEF Recorded
    <3>5. 0 \in 0..Len(run.cmds[p].keys)
      <4>1. run.cmds[p].keys \in Seq(STRING)
        BY KeysOf DEF AddInv, Shapes
      <4> QED
        BY <4>1
    <3> QED
      BY <1>1, <1>2, <2>1, <3>1, <3>4, <3>5 DEF AddInv, Progress
  <2>5. Damage'
    BY <1>1, <2>1, DamageStays DEF AddInv
  <2> QED
    BY <1>3, <2>2, <2>3, <2>4, <2>5 DEF AddInv
<1> QED
  BY <1>4, <1>5 DEF Begin

\* What a command makes of its next key.
KeyResult(p, lost) ==
    IF run.cmds[p].op = "add"
    THEN AddResource(mem[p], run.cmds[p].type, Head(todo[p]), run.cmds[p].ignore, lost)
    ELSE AutoAddResource(mem[p], Head(todo[p]))

\* It records what the key makes it record.
LEMMA KeyRecords ==
    ASSUME NEW p \in Procs, NEW lost \in BOOLEAN, run \in Scenarios, NEW i \in DOMAIN run.cmds[p].keys,
           Head(todo[p]) = run.cmds[p].keys[i]
    PROVE  /\ Records(mem[p], KeyResult(p, lost), Wants(p, Head(todo[p])))
           /\ Truthful(mem[p], KeyResult(p, lost), Wants(p, Head(todo[p])), Ignored(p))
<1>1. CASE run.cmds[p].op = "add"
  <2>1. run.cmds[p].type \in Types
    BY <1>1, ScenariosAssumption DEF Procs
  <2>2. Wants(p, Head(todo[p])) = {ID(run.cmds[p].type, Head(todo[p]))}
    BY <1>1 DEF Wants
  <2>3. KeyResult(p, lost) = AddResource(mem[p], run.cmds[p].type, Head(todo[p]), run.cmds[p].ignore, lost)
    BY <1>1 DEF KeyResult
  <2> QED
    BY <1>1, <2>1, <2>2, <2>3, AddRecords DEF Ignored
<1>2. CASE run.cmds[p].op # "add"
  <2>1. /\ Host("file", Head(todo[p])).lstat \in {"ok", "notexist", "denied"}
        /\ Host("process", Head(todo[p])).list \in {"ok", "error"}
    BY <1>2, ScenariosAssumption DEF Procs, Host, ID, Abs
  <2>2. Wants(p, Head(todo[p])) = There(Head(todo[p]))
    BY <1>2 DEF Wants
  <2>3. KeyResult(p, lost) = AutoAddResource(mem[p], Head(todo[p]))
    BY <1>2 DEF KeyResult
  <2> QED
    BY <1>2, <2>1, <2>2, <2>3, AutoAddRecords DEF Ignored
<1> QED
  BY <1>1, <1>2

\* The keys that are left after the next one.
LEMMA TailOf ==
    ASSUME NEW s \in Seq(STRING), Len(s) > 0
    PROVE  /\ Tail(s) \in Seq(STRING) /\ Len(Tail(s)) = Len(s) - 1
           /\ \A i \in 1..Len(Tail(s)) : Tail(s)[i] = s[i + 1]
OBVIOUS

\* The next key is recorded, or the command ends without having written.
LEMMA AddKeyKeeps == ASSUME AddInv, NEW p \in Procs, NEW lost \in BOOLEAN, AddKey(p, lost) PROVE AddInv'
<1>1. /\ pc[p] = "adding" /\ todo[p] # <<>>
      /\ run' = run /\ file' = file /\ read' = read /\ committed' = committed /\ base' = base
      /\ tornRead' = tornRead /\ wrote' = wrote /\ by' = by
  BY DEF AddKey
<1>2. Procs' = Procs /\ Format' = Format
  BY <1>1 DEF Procs, Format
<1>3. FileSays'
  BY <1>1 DEF AddInv, FileSays
<1>4. \/ /\ \E how \in {"killed", "failed"} : pc' = [pc EXCEPT ![p] = how]
         /\ mem' = mem /\ todo' = todo
      \/ /\ ~KeyResult(p, lost).err /\ mem' = [mem EXCEPT ![p] = KeyResult(p, lost).c]
         /\ todo' = [todo EXCEPT ![p] = Tail(todo[p])] /\ pc' = pc
  BY DEF AddKey, KeyResult
<1>5. ASSUME NEW how \in {"killed", "failed"}, pc' = [pc EXCEPT ![p] = how], mem' = mem, todo' = todo
      PROVE  AddInv'
  <2>1. pc'[p] = how /\ \A q \in Procs : q # p => pc'[q] = pc[q]
    BY <1>5 DEF AddInv, Shapes
  <2>2. Shapes'
    BY <1>1, <1>2, <1>5 DEF AddInv, Shapes
  <2>3. MemKeeps' /\ TornIsYAML'
    BY <1>1, <1>5, <2>1, MemStays DEF AddInv
  <2>4. Progress'
    BY <1>1, <1>5, <2>1, ProgressStays DEF AddInv, Progress
  <2>5. Damage'
    BY <1>1, <2>1, DamageStays DEF AddInv
  <2> QED
    BY <1>3, <2>2, <2>3, <2>4, <2>5 DEF AddInv
<1>6. ASSUME ~KeyResult(p, lost).err, mem' = [mem EXCEPT ![p] = KeyResult(p, lost).c],
             todo' = [todo EXCEPT ![p] = Tail(todo[p])], pc' = pc
      PROVE  AddInv'
  <2> DEFINE keys == run.cmds[p].keys
             k == Head(todo[p])
  <2>1. /\ mem'[p] = KeyResult(p, lost).c /\ todo'[p] = Tail(todo[p])
        /\ \A q \in Procs : q # p => mem'[q] = mem[q] /\ todo'[q] = todo[q]
    BY <1>6 DEF AddInv, Shapes
  <2>2. Shapes'
    BY <1>1, <1>2, <1>6 DEF AddInv, Shapes
  <2>3. PICK n \in 0..Len(keys) : Recorded(p, n)
    BY DEF AddInv, Progress
  <2>4. keys \in Seq(STRING) /\ Len(keys) \in Nat /\ DOMAIN keys = 1..Len(keys)
    BY KeysOf DEF AddInv, Shapes
  <2>5. todo[p] \in Seq(STRING) /\ Len(todo[p]) \in Nat /\ Len(todo[p]) > 0
    BY <1>1 DEF AddInv, Progress
  <2>6. /\ Len(todo[p]) = Len(keys) - n /\ \A i \in 1..Len(todo[p]) : todo[p][i] = keys[n + i]
        /\ DOMAIN mem[p] = DOMAIN read[p] \cup WantsUpTo(p, n)
        /\ \A id \in WantsUpTo(p, n) : Honest(mem[p], id, Ignored(p))
    BY <2>3 DEF Recorded
  <2>7. n + 1 \in 1..Len(keys) /\ k = keys[n + 1]
    BY <2>4, <2>5, <2>6
  <2>8. /\ Records(mem[p], KeyResult(p, lost), Wants(p, k))
        /\ Truthful(mem[p], KeyResult(p, lost), Wants(p, k), Ignored(p))
    BY <2>4, <2>7, KeyRecords DEF AddInv, Shapes
  <2>9. Kept(mem[p], mem'[p]) /\ DOMAIN mem'[p] = DOMAIN mem[p] \cup Wants(p, k)
    BY <1>6, <2>1, <2>8 DEF Records
  <2>10. MemKeeps' /\ TornIsYAML'
    BY <1>1, <1>2, <1>6, <2>1, <2>9, KeptTransitive DEF AddInv, MemKeeps, TornIsYAML
  <2>11. Progress'
    <3>1. \A q \in Procs : q # p => \A m : Recorded(q, m)' <=> Recorded(q, m)
      BY <1>1, <2>1, RecordedStays
    <3>2. WantsUpTo(p, n + 1)' = WantsUpTo(p, n + 1)
      BY <1>1, WantsStay DEF WantsUpTo
    <3>3. WantsUpTo(p, n + 1) = WantsUpTo(p, n) \cup Wants(p, k)
      <4>1. n \in Nat
        BY <2>4
      <4> QED
        BY <2>7, <4>1, WantsGrow
    <3>4. /\ todo'[p] \in Seq(STRING) /\ Len(todo'[p]) = Len(keys) - (n + 1)
          /\ \A i \in 1..Len(todo'[p]) : todo'[p][i] = todo[p][i + 1]
      <4>1. /\ Tail(todo[p]) \in Seq(STRING) /\ Len(Tail(todo[p])) = Len(todo[p]) - 1
            /\ \A i \in 1..Len(Tail(todo[p])) : Tail(todo[p])[i] = todo[p][i + 1]
        BY <2>5, TailOf
      <4>2. Len(todo[p]) - 1 = Len(keys) - (n + 1)
        BY <2>4, <2>6
      <4> QED
        BY <2>1, <4>1, <4>2
    <3>5. \A i \in 1..Len(todo'[p]) : todo'[p][i] = keys[(n + 1) + i]
      <4> SUFFICES ASSUME NEW i \in 1..Len(todo'[p]) PROVE todo'[p][i] = keys[(n + 1) + i]
        OBVIOUS
      <4>1. i + 1 \in 1..Len(todo[p]) /\ n + (i + 1) = (n + 1) + i
        BY <2>4, <2>5, <2>6, <3>4
      <4> QED
        BY <2>6, <3>4, <4>1
    <3>6. DOMAIN mem'[p] = DOMAIN read'[p] \cup WantsUpTo(p, n + 1)
      BY <1>1, <2>6, <2>9, <3>3
    <3>7. Recorded(p, n + 1)'
      <4>1. \A id \in WantsUpTo(p, n + 1) : Honest(KeyResult(p, lost).c, id, Ignored(p))
        BY <1>6, <2>6, <2>8, <3>3 DEF Truthful
      <4>2. \A id \in WantsUpTo(p, n + 1) : Honest(mem[p], id, Ignored(p))'
        BY <1>1, <2>1, <4>1, MadeStays DEF Honest, Ignored
      <4> QED
        BY <1>1, <3>2, <3>4, <3>5, <3>6, <4>2 DEF Recorded
    <3>8. n + 1 \in 0..Len(keys)
      BY <2>4, <2>7
    <3> QED
      BY <1>1, <1>2, <1>6, <2>1, <3>1, <3>4, <3>7, <3>8 DEF AddInv, Progress
  <2>12. Damage'
    BY <1>1, <1>6, DamageStays DEF AddInv
  <2> QED
    BY <1>3, <2>2, <2>10, <2>11, <2>12 DEF AddInv
<1> QED
  BY <1>4, <1>5, <1>6

\* A command moves on without having read or recorded anything more.
LEMMA MovesOn ==
    ASSUME AddInv, NEW p \in Procs, NEW where \in {"writing", "done", "failed", "killed", "cut"},
           pc' = [pc EXCEPT ![p] = where],
           where = "writing" => pc[p] = "adding", where \in {"writing", "done"} => todo[p] = <<>>,
           run' = run, todo' = todo, mem' = mem, read' = read, base' = base, tornRead' = tornRead,
           DOMAIN wrote' = Procs, by' \subseteq Procs
    PROVE  /\ Shapes' /\ MemKeeps' /\ TornIsYAML' /\ Progress'
           /\ pc'[p] = where /\ \A q \in Procs : q # p => pc'[q] = pc[q]
<1>1. pc'[p] = where /\ \A q \in Procs : q # p => pc'[q] = pc[q]
  BY DEF AddInv, Shapes
<1>2. Procs' = Procs
  BY DEF Procs
<1>3. Shapes'
  BY <1>2 DEF AddInv, Shapes
<1>4. MemKeeps' /\ TornIsYAML'
  BY <1>1, MemStays DEF AddInv
<1>5. Progress'
  BY <1>1, ProgressStays DEF AddInv, Progress
<1> QED
  BY <1>1, <1>3, <1>4, <1>5

\* Truncating leaves no whole file to speak of, and a command that is writing.
LEMMA TruncateKeeps == ASSUME AddInv, NEW p \in Procs, Truncate(p) PROVE AddInv'
<1>1. DOMAIN wrote' = Procs /\ by' = {p} /\ file'.state = "torn"
  BY DEF Truncate, AddInv, Shapes
<1>2. Shapes' /\ MemKeeps' /\ TornIsYAML' /\ Progress' /\ pc'[p] = "writing"
  BY <1>1, MovesOn DEF Truncate
<1>3. FileSays'
  BY DEF Truncate, FileSays
<1>4. Damage'
  BY <1>1, <1>2 DEF Damage, DamagedOnlyByCut
<1> QED
  BY <1>2, <1>3, <1>4 DEF AddInv

\* Neither does a command that ends without writing change what the file says.
LEMMA NotWrittenKeeps ==
    ASSUME AddInv, NEW p \in Procs, NothingToWrite(p) \/ OpenFails(p) \/ Kill(p) PROVE AddInv'
<1>1. /\ DOMAIN wrote' = Procs /\ by' \subseteq Procs /\ run' = run /\ file' = file
      /\ committed' = committed /\ wrote' = wrote /\ by' = by /\ pc[p] \in {"start", "adding"}
  BY DEF NothingToWrite, OpenFails, Kill, AddInv, Shapes
<1>2. PICK where \in {"done", "failed", "killed"} :
         /\ Shapes' /\ MemKeeps' /\ TornIsYAML' /\ Progress'
         /\ pc'[p] = where /\ \A q \in Procs : q # p => pc'[q] = pc[q]
  BY <1>1, MovesOn DEF NothingToWrite, OpenFails, Kill
<1>3. FileSays'
  BY <1>1 DEF AddInv, FileSays
<1>4. Damage'
  BY <1>1, <1>2, DamageStays DEF AddInv
<1> QED
  BY <1>2, <1>3, <1>4 DEF AddInv

\* A write leaves a whole file that says what was committed, or a torn one; the
\* commands that are still writing have been overtaken.
LEMMA WriteKeeps ==
    ASSUME AddInv, NEW p \in Procs, Write(p) \/ WriteStops(p) PROVE AddInv'
<1>1. /\ DOMAIN wrote' = Procs /\ by' = {p} /\ run' = run /\ wrote'[p] = wrote[p]
      /\ \A q \in Procs : q # p /\ pc[q] = "writing" => p \in wrote'[q]
  BY DEF Write, WriteStops, Overlapping
<1>2. pc[p] = "writing" /\ todo[p] = <<>>
  BY DEF Write, WriteStops, AddInv, Progress
<1>3. PICK where \in {"done", "cut"} :
         /\ Shapes' /\ MemKeeps' /\ TornIsYAML' /\ Progress' /\ where = pc'[p]
         /\ \A q \in Procs : q # p => pc'[q] = pc[q]
  BY <1>1, <1>2, MovesOn DEF Write, WriteStops
<1>4. FileSays'
  BY DEF Write, WriteStops, FileSays
<1>5. file'.state = "torn" => pc'[p] = "cut" \/ wrote'[p] # {}
  <2>1. CASE WriteStops(p)
    BY <2>1 DEF WriteStops, AddInv, Shapes
  <2>2. CASE Write(p)
    BY <1>1, <2>2 DEF Write
  <2> QED
    BY <2>1, <2>2
<1>6. Damage'
  <2>1. Procs' = Procs
    BY <1>1 DEF Procs
  <2>2. DamagedOnlyByCut'
    BY <1>1, <1>5 DEF DamagedOnlyByCut
  <2>3. \A q \in Procs : pc'[q] = "writing" => wrote'[q] # {}
    BY <1>1, <1>3
  <2> QED
    BY <2>1, <2>2, <2>3 DEF Damage
<1> QED
  BY <1>3, <1>4, <1>6 DEF AddInv

\* An edit is what the file says from then on.
LEMMA EditKeeps == ASSUME AddInv, NEW id, NEW e, Edit(id, e) PROVE AddInv'
<1>1. /\ file.state = "whole" /\ file' = [file EXCEPT !.text[id] = e] /\ committed' = file'.text
      /\ run' = run /\ pc' = pc /\ todo' = todo /\ mem' = mem /\ read' = read /\ base' = base
      /\ tornRead' = tornRead /\ wrote' = wrote /\ by' = {}
  BY DEF Edit
<1>2. Procs' = Procs
  BY <1>1 DEF Procs
<1>3. Shapes'
  BY <1>1, <1>2 DEF AddInv, Shapes
<1>4. MemKeeps' /\ TornIsYAML'
  BY <1>1, MemStays DEF AddInv
<1>5. Progress'
  BY <1>1, ProgressStays DEF AddInv, Progress
<1>6. file'.state = "whole"
  BY <1>1
<1>7. FileSays'
  BY <1>1, <1>6 DEF FileSays
<1>8. Damage'
  BY <1>1, <1>2, <1>6 DEF AddInv, Damage, DamagedOnlyByCut
<1> QED
  BY <1>3, <1>4, <1>5, <1>7, <1>8 DEF AddInv

\* Every step keeps the invariant.
LEMMA AddInductive == AddInv /\ [Next]_vars => AddInv'
<1> SUFFICES ASSUME AddInv, [Next]_vars PROVE AddInv'
  OBVIOUS
<1>1. CASE \E p \in Procs :
              \/ Begin(p) \/ Truncate(p) \/ NothingToWrite(p) \/ OpenFails(p)
              \/ Write(p) \/ WriteStops(p) \/ Kill(p) \/ \E lost \in BOOLEAN : AddKey(p, lost)
  BY <1>1, BeginKeeps, AddKeyKeeps, TruncateKeeps, NotWrittenKeeps, WriteKeeps
<1>2. CASE \E id \in DOMAIN file.text :
              \/ Edit(id, [file.text[id] EXCEPT !.title = "mine"])
              \/ Edit(id, [file.text[id] EXCEPT !.bad = "attr"])
  BY <1>2, EditKeeps
<1>3. CASE UNCHANGED vars
  <2>1. /\ run' = run /\ file' = file /\ pc' = pc /\ todo' = todo /\ mem' = mem /\ read' = read
        /\ committed' = committed /\ base' = base /\ tornRead' = tornRead /\ wrote' = wrote /\ by' = by
    BY <1>3 DEF vars
  <2>2. Procs' = Procs
    BY <2>1 DEF Procs
  <2>3. Shapes' /\ FileSays'
    BY <2>1, <2>2 DEF AddInv, Shapes, FileSays
  <2>4. MemKeeps' /\ TornIsYAML'
    BY <2>1, MemStays DEF AddInv
  <2>5. Progress'
    BY <2>1, ProgressStays DEF AddInv, Progress
  <2>6. Damage'
    BY <2>1, DamageStays DEF AddInv
  <2> QED
    BY <2>3, <2>4, <2>5, <2>6 DEF AddInv
<1> QED
  BY <1>1, <1>2, <1>3 DEF Next, Stopped

\* A step that changes what is committed is an edit or a whole write.
LEMMA Commits ==
    ASSUME AddInv, [Next]_vars
    PROVE  \/ committed' = committed
           \/ \E p \in Procs : pc[p] = "writing" /\ pc'[p] # pc[p] /\ committed' = mem[p]
           \/ \E id \in DOMAIN committed : \E e :
                 /\ committed[id].title = "none"
                 /\ committed' = [committed EXCEPT ![id] = e]
<1>1. CASE \E p \in Procs :
              \/ Begin(p) \/ Truncate(p) \/ NothingToWrite(p) \/ OpenFails(p)
              \/ WriteStops(p) \/ Kill(p) \/ \E lost \in BOOLEAN : AddKey(p, lost)
  BY <1>1 DEF Begin, AddKey, Truncate, NothingToWrite, OpenFails, Kill, WriteStops
<1>2. ASSUME NEW id \in DOMAIN file.text, NEW e, Edit(id, e)
      PROVE  /\ id \in DOMAIN committed /\ committed[id].title = "none"
             /\ committed' = [committed EXCEPT ![id] = e]
  <2>1. committed = file.text
    BY <1>2 DEF Edit, AddInv, FileSays
  <2>2. committed' = [file.text EXCEPT ![id] = e]
    BY <1>2 DEF Edit
  <2> QED
    BY <1>2, <2>1, <2>2 DEF Edit
<1>3. CASE UNCHANGED vars
  BY <1>3 DEF vars
<1>4. CASE \E p \in Procs : Write(p)
  BY <1>4 DEF Write, AddInv, Shapes
<1> QED
  BY <1>1, <1>2, <1>3, <1>4 DEF Next, Stopped

\* A command that has read the file writes back every test that was there.
LEMMA MemHasBase ==
    ASSUME AddInv, NEW p \in Procs, pc[p] \in {"adding", "writing"}, NEW id, id \notin DOMAIN mem[p]
    PROVE  id \notin DOMAIN base[p] \/ (p \in tornRead /\ Format = "YAML")
BY DEF AddInv, MemKeeps, TornIsYAML, Kept

\* The commands on one gossfile keep the inductive invariant, whatever they are
\* asked to add and wherever they are killed.
THEOREM AddInvariance == Spec => []AddInv
BY AddInitial, AddInductive, PTL DEF Spec

\* A test leaves the gossfile on disk only by the command that takes the step:
\* for the time of its write, because it had not seen the test, because it had
\* read the remains of an interrupted write, or because two wrote at once:
\* add.go writes back all it read, and os.WriteFile truncates first.
THEOREM AddLosesOnlyByOverlap == Spec => LostOnlyByOverlap
<1> DEFINE Loses(p, id) == /\ pc'[p] # pc[p]
                           /\ \/ pc'[p] = "writing" /\ id \in DOMAIN mem[p]
                              \/ id \notin DOMAIN base[p]
                              \/ p \in tornRead /\ Format = "YAML"
                              \/ wrote[p] # {}
<1>1. AddInv /\ [Next]_vars => [\A id \in OnDisk \ OnDisk' : \E p \in Procs : Loses(p, id)]_vars
  <2> SUFFICES ASSUME AddInv, [Next]_vars, NEW id \in OnDisk \ OnDisk'
               PROVE  \E p \in Procs : Loses(p, id)
    OBVIOUS
  <2>1. file.state = "whole" /\ id \in DOMAIN file.text
    BY DEF OnDisk
  <2>2. ASSUME file' = file PROVE FALSE
    BY <2>2 DEF OnDisk
  <2>3. ASSUME NEW e, NEW d \in DOMAIN file.text, Edit(d, e) PROVE FALSE
    <3>1. file' = [file EXCEPT !.text[d] = e]
      BY <2>3 DEF Edit
    <3>2. file'.state = "whole" /\ DOMAIN file'.text = DOMAIN file.text
      BY <2>1, <3>1
    <3> QED
      BY <2>1, <3>2 DEF OnDisk
  <2>4. ASSUME NEW p \in Procs, Truncate(p) PROVE Loses(p, id)
    <3>1. pc[p] = "adding" /\ pc'[p] = "writing"
      BY <2>4 DEF Truncate, AddInv, Shapes
    <3> QED
      BY <3>1, MemHasBase
  <2>5. ASSUME NEW p \in Procs, Write(p) \/ WriteStops(p) PROVE Loses(p, id)
    <3>1. pc[p] = "writing" /\ pc'[p] # pc[p]
      BY <2>5 DEF Write, WriteStops, AddInv, Shapes
    <3>2. wrote[p] # {}
      BY <2>1, <3>1 DEF AddInv, Damage
    <3> QED
      BY <3>1, <3>2
  <2>6. PICK p \in Procs : Truncate(p) \/ Write(p) \/ WriteStops(p)
    BY <2>2, <2>3 DEF Next, Stopped, vars, Begin, AddKey, NothingToWrite, OpenFails, Kill
  <2> QED
    BY <2>4, <2>5, <2>6
<1> QED
  BY <1>1, AddInvariance, PTL DEF Spec, LostOnlyByOverlap

\* The gossfile is torn only while its last writer is at it, or after that
\* writer was cut off or met another: nothing else that goes wrong in add.go or
\* autoadd reaches WriteJSON.
THEOREM AddDamagesOnlyByCut == Spec => []DamagedOnlyByCut
<1>1. AddInv => DamagedOnlyByCut
  BY DEF AddInv, Damage
<1> QED
  BY <1>1, AddInvariance, PTL

\* A title is lost only by a command that had not seen it or had read the
\* remains of an interrupted write: AppendSysResource carries titles over.
THEOREM AddKeepsTitles == Spec => TitleKept
<1>1. AddInv /\ [Next]_vars =>
        [\A id \in DOMAIN committed \cap DOMAIN committed' :
            committed[id].title # "none" /\ committed'[id].title = "none" =>
                \E p \in Procs : /\ pc[p] = "writing" /\ pc'[p] # pc[p]
                                 /\ p \in tornRead \/ id \notin DOMAIN base[p] \/ base[p][id].title = "none"]_vars
  <2> SUFFICES ASSUME AddInv, [Next]_vars, NEW id \in DOMAIN committed \cap DOMAIN committed',
                      committed[id].title # "none", committed'[id].title = "none"
               PROVE  \E p \in Procs : /\ pc[p] = "writing" /\ pc'[p] # pc[p]
                                       /\ p \in tornRead \/ id \notin DOMAIN base[p] \/ base[p][id].title = "none"
    OBVIOUS
  <2>1. PICK p \in Procs : pc[p] = "writing" /\ pc'[p] # pc[p] /\ committed' = mem[p]
    BY Commits
  <2>2. p \in tornRead \/ Kept(base[p], mem[p])
    BY <2>1 DEF AddInv, MemKeeps
  <2> QED
    BY <2>1, <2>2 DEF Kept
<1> QED
  BY <1>1, AddInvariance, PTL DEF Spec, TitleKept

\* A command that writes or ended well holds what it had read and what it was
\* asked for, as the host gave it.
LEMMA DoneRecorded ==
    ASSUME AddInv, NEW p \in Procs, pc[p] \in {"writing", "done"}
    PROVE  /\ DOMAIN mem[p] = DOMAIN read[p] \cup Wanted(p)
           /\ \A id \in Wanted(p) : Honest(mem[p], id, Ignored(p))
<1> DEFINE keys == run.cmds[p].keys
<1>1. PICK n \in 0..Len(keys) : Recorded(p, n)
  BY DEF AddInv, Progress
<1>2. keys \in Seq(STRING) /\ Len(keys) \in Nat /\ DOMAIN keys = 1..Len(keys)
  BY KeysOf DEF AddInv, Shapes
<1>3. todo[p] = <<>> /\ Len(todo[p]) = 0
  BY DEF AddInv, Progress
<1>4. /\ Len(todo[p]) = Len(keys) - n /\ DOMAIN mem[p] = DOMAIN read[p] \cup WantsUpTo(p, n)
      /\ \A id \in WantsUpTo(p, n) : Honest(mem[p], id, Ignored(p))
  BY <1>1 DEF Recorded
<1>5. n = Len(keys)
  BY <1>2, <1>3, <1>4
<1>6. WantsUpTo(p, n) = Wanted(p)
  BY <1>2, <1>5 DEF WantsUpTo, Wants, Wanted
<1> QED
  BY <1>4, <1>6

\* A command that writes, or ends well, has recorded its keys, or for autoadd
\* what there is by their names, and nothing else.
THEOREM AddRecordsExactly == Spec => []RecordsExactly
<1>1. AddInv => RecordsExactly
  BY DoneRecorded DEF RecordsExactly
<1> QED
  BY <1>1, AddInvariance, PTL

\* What a command may be asked to record has one of the types of goss, and the
\* output of a command is one of those told apart.
LEMMA WantedTypes ==
    ASSUME AddInv, NEW p \in Procs, NEW id \in Wanted(p)
    PROVE  /\ id[1] \in Types
           /\ id[1] = "command" => run.cmds[p].op = "add" /\ run.host[id].out \in {"", "blank", "lines"}
<1>1. run \in Scenarios
  BY DEF AddInv, Shapes
<1>2. CASE run.cmds[p].op = "add"
  <2>1. PICK i \in DOMAIN run.cmds[p].keys : id = ID(run.cmds[p].type, run.cmds[p].keys[i])
    BY <1>2 DEF Wanted
  <2> QED
    BY <1>1, <1>2, <2>1, IDType, ScenariosAssumption DEF Procs, ID
<1>3. CASE run.cmds[p].op # "add"
  <2>1. PICK k : id \in There(k)
    BY <1>3 DEF Wanted
  <2>2. id[1] \in {"file", "group", "package", "port", "process", "service", "user"}
    BY <2>1, IDType DEF There
  <2> QED
    BY <2>2 DEF Types
<1> QED
  BY <1>2, <1>3

\* What add and autoadd record passes or is skipped on the host it was recorded
\* on, for every type, whatever is excluded and whether or not the errors of the
\* getters get lost in their selects, the tests named by Unstable apart: New...
\* records no attribute that its getter could not read.
THEOREM AddRoundTrip == Spec => []RoundTrip
<1>1. AddInv => RoundTrip
  <2> SUFFICES ASSUME AddInv, NEW p \in Procs, pc[p] = "done", NEW id \in Wanted(p),
                      ~Unstable(id[1], run.host[id], run.cmds[p].ignore)
               PROVE  "FAIL" \notin Outcomes(id[1], mem[p][id].attrs, run.host[id])
    BY DEF RoundTrip
  <2>1. PICK before \in BOOLEAN :
           ~Made(id, Ignored(p), before).err /\ mem[p][id].attrs = Made(id, Ignored(p), before).attrs
    BY DoneRecorded DEF Honest
  <2>2. ~Unstable(id[1], run.host[id], Ignored(p))
    <3>1. CASE run.cmds[p].op = "add"
      BY <3>1 DEF Ignored
    <3>2. CASE run.cmds[p].op # "add"
      BY <3>2, WantedTypes DEF Unstable
    <3> QED
      BY <3>1, <3>2
  <2>3. \A now \in BOOLEAN : Passes(Validate(id[1], mem[p][id].attrs, run.host[id], FALSE, now))
    BY <2>1, <2>2, WantedTypes, MadePasses
  <2> QED
    BY <2>3 DEF Outcomes, Results, Passes
<1> QED
  BY <1>1, AddInvariance, PTL

\* A service is recorded as running, or passes as running, only if its manager
\* was there and said so: an absent manager leaves a status of 0 behind, and the
\* error that goes with it is never dropped on the way.
THEOREM AddRunningWasAnswered == Spec => []RunningWasAnswered
<1>1. AddInv => RunningWasAnswered
  <2> SUFFICES ASSUME AddInv, NEW id \in DOMAIN run.host, id[1] = "service"
               PROVE  /\ "SUCCESS" \in Outcomes("service", [running |-> TRUE], run.host[id]) => Said(run.host[id])
                      /\ \A p \in Procs : (pc[p] = "done" /\ id \in Wanted(p) /\ mem[p][id].attrs["running"])
                                              => Said(run.host[id])
    BY DEF RunningWasAnswered, Said
  <2>1. ASSUME NEW p \in Procs, pc[p] = "done", id \in Wanted(p), mem[p][id].attrs["running"]
        PROVE  Said(run.host[id])
    <3> DEFINE g == detectService(run.host[id])
    <3>1. ~NewService(g, Ignored(p)).err /\ mem[p][id].attrs = NewService(g, Ignored(p)).attrs
      BY <2>1, DoneRecorded DEF Honest, Made
    <3>2. ~g.running.err /\ mem[p][id].attrs["running"] = g.running.val
      BY <3>1 DEF NewService, New, Expect
    <3> QED
      BY <2>1, <3>2, RunningSaid
  <2> QED
    BY <2>1, RunningSucceeds
<1> QED
  BY <1>1, AddInvariance, PTL
=============================================================================
