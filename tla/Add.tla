-------------------------------- MODULE Add --------------------------------
(***************************************************************************)
(* `goss add' and `goss autoadd' on one gossfile: every command reads the  *)
(* file, asks the system for its keys, and writes the whole file back.     *)
(* Commands may overlap, be killed at any point or fail to write, and the  *)
(* user edits the file in between.  A gossfile maps a resource, which is a *)
(* type and a key, to its recorded test and the title the user gave it.    *)
(***************************************************************************)
EXTENDS Resources, FiniteSets

CONSTANT Scenarios   \* what is run, on which file, and on which host

None == [id \in {} |-> NoValue]
Types == {"addr", "command", "dns", "file", "group", "package", "port", "process", "service", "user",
          "gossfile", "kernel-param", "mount", "interface", "http", "registry"}

\* A key as it is recorded, of those that have more than one spelling.
Spelled(s, type, k) == IF <<type, k>> \in DOMAIN s.canon THEN s.canon[<<type, k>>] ELSE k

\* A scenario: the extension of the gossfile, the gossfile at first, the commands
\* by process, the host's state by resource, and the keys with another spelling,
\* which is the last word on them.
ASSUME ScenariosAssumption ==
    \A s \in Scenarios : /\ s.ext \in {".json", ".yaml", ".yml", ".txt"}
                         /\ s.start.state = "whole" \/ (s.start.state = "missing" /\ s.start.text = None)
                         /\ \A x \in DOMAIN s.canon : <<x[1], s.canon[x]>> \notin DOMAIN s.canon
                         /\ \A p \in DOMAIN s.cmds :
                               /\ s.cmds[p].keys \in Seq(STRING)
                               /\ \/ /\ s.cmds[p].op = "add" /\ s.cmds[p].type \in Types
                                     /\ s.cmds[p].type = "command" =>
                                           \A i \in DOMAIN s.cmds[p].keys :
                                              s.host[<<"command", s.cmds[p].keys[i]>>].out \in {"", "blank", "lines"}
                                  \/ /\ s.cmds[p].op = "autoadd"
                                     /\ \A i \in DOMAIN s.cmds[p].keys :
                                           /\ s.host[<<"file", Spelled(s, "file", s.cmds[p].keys[i])>>].lstat \in {"ok", "notexist", "denied"}
                                           /\ s.host[<<"process", s.cmds[p].keys[i]>>].list \in {"ok", "error"}

VARIABLES
    run,        \* the scenario
    file,       \* the gossfile on disk
    pc, todo,   \* where each command is, and the keys it still has to add
    mem,        \* the GossConfig of each command
    read,       \* history: what each command had read
    committed,  \* history: the text of the last whole gossfile
    base,       \* history: committed when each command read the file
    tornRead,   \* history: the commands that read a torn file
    wrote,      \* history: the commands that wrote while each was writing
    by          \* history: the command that changed the file last, if any

vars == <<run, file, pc, todo, mem, read, committed, base, tornRead, wrote, by>>

Procs == DOMAIN run.cmds
Entry(attrs, title) == [attrs |-> attrs, title |-> title, bad |-> "no"]

\* An address without a network is TCP, and so is a port; a path is absolute.
normalizeAddress(k) == Spelled(run, "addr", k)
normalizePort(k) == Spelled(run, "port", k)
Abs(k) == Spelled(run, "file", k)

\* What a resource is recorded under; a name to look up is split from its record
\* type and joined to it again.
ID(type, k) ==
    CASE type = "addr" -> <<type, normalizeAddress(k)>>
      [] type = "port" -> <<type, normalizePort(k)>>
      [] type = "file" -> <<type, Abs(k)>>
      [] OTHER -> <<type, k>>

-----------------------------------------------------------------------------
(* The maps of resource_list.go, one for each type, made from one template *)

Over(f, g) == [x \in DOMAIN f \cup DOMAIN g |-> IF x \in DOMAIN f THEN f[x] ELSE g[x]]
Put(c, id, e) == Over([x \in {id} |-> e], c)
Result(err, c) == [err |-> err, c |-> c, found |-> TRUE]

\* Mutant: a resource that is added again starts afresh.
AppendSysResource_DropsTitle(res, c, id) ==
    IF res.err THEN Result(TRUE, c) ELSE Result(FALSE, Put(c, id, Entry(res.attrs, "none")))

\* A resource that is added again keeps the title (and meta) it had.
AppendSysResource(res, c, id) ==
    LET title == IF id \in DOMAIN c THEN c[id].title ELSE "none"
    IN  IF res.err THEN Result(TRUE, c) ELSE Result(FALSE, Put(c, id, Entry(res.attrs, title)))

\* The resource is built, and may fail, before Exists is asked.
AppendSysResourceIfExists(res, exists, c, id) ==
    IF ~res.err /\ ~exists.val THEN [err |-> FALSE, c |-> c, found |-> FALSE]
    ELSE AppendSysResource(res, c, id)

AddrMap(c, k, h, ignore) == AppendSysResource(NewAddr(DefAddr(h), ignore), c, ID("addr", k))
CommandMap(c, k, h, ignore, lost) == AppendSysResource(NewCommand(DefCommand(h, lost), ignore), c, ID("command", k))
DNSMap(c, k, h, ignore, lost) == AppendSysResource(NewDNS(DefDNS(h, lost), ignore), c, ID("dns", k))
FileMap(c, k, h, ignore) == AppendSysResource(NewFile(DefFile(h), ignore), c, ID("file", k))
GossfileMap(c, k, h, ignore) == AppendSysResource(NewGossfile(<<>>, ignore), c, ID("gossfile", k))
GroupMap(c, k, h, ignore) == AppendSysResource(NewGroup(DefGroup(h), ignore), c, ID("group", k))
PackageMap(c, k, h, ignore) == AppendSysResource(NewPackage(detectPackage(h), ignore), c, ID("package", k))
PortMap(c, k, h, ignore) == AppendSysResource(NewPort(DefPort(h), ignore), c, ID("port", k))
ProcessMap(c, k, h, ignore) == AppendSysResource(NewProcess(DefProcess(h), ignore), c, ID("process", k))
ServiceMap(c, k, h, ignore) == AppendSysResource(NewService(detectService(h), ignore), c, ID("service", k))
UserMap(c, k, h, ignore) == AppendSysResource(NewUser(DefUser(h), ignore), c, ID("user", k))
KernelParamMap(c, k, h, ignore) == AppendSysResource(NewKernelParam(DefKernelParam(h), ignore), c, ID("kernel-param", k))
MountMap(c, k, h, ignore) == AppendSysResource(NewMount(DefMount(h), ignore), c, ID("mount", k))
InterfaceMap(c, k, h, ignore) == AppendSysResource(NewInterface(DefInterface(h), ignore), c, ID("interface", k))
HTTPMap(c, k, h, ignore) == AppendSysResource(NewHTTP(DefHTTP(h), ignore), c, ID("http", k))
RegistryMap(c, k, h, ignore) == AppendSysResource(NewRegistry(DefRegistry(h), ignore), c, ID("registry", k))

FileIfExists(c, k, h) ==
    AppendSysResourceIfExists(NewFile(DefFile(h), {}), DefFile(h).exists, c, ID("file", k))
GroupIfExists(c, k, h) ==
    AppendSysResourceIfExists(NewGroup(DefGroup(h), {}), DefGroup(h).exists, c, ID("group", k))
PackageIfExists(c, k, h) ==
    AppendSysResourceIfExists(NewPackage(detectPackage(h), {}), detectPackage(h).installed, c, ID("package", k))
PortIfExists(c, k, h) ==
    AppendSysResourceIfExists(NewPort(DefPort(h), {}), DefPort(h).listening, c, ID("port", k))
ProcessIfExists(c, k, h) ==
    AppendSysResourceIfExists(NewProcess(DefProcess(h), {}), DefProcess(h).running, c, ID("process", k))
ServiceIfExists(c, k, h) ==
    AppendSysResourceIfExists(NewService(detectService(h), {}), detectService(h).exists, c, ID("service", k))
UserIfExists(c, k, h) ==
    AppendSysResourceIfExists(NewUser(DefUser(h), {}), DefUser(h).exists, c, ID("user", k))

-----------------------------------------------------------------------------
(* add.go                                                                  *)

Host(type, k) == run.host[ID(type, k)]

\* lost: the error of a command or a lookup goes missing in the select.
AddResource(c, type, k, ignore, lost) ==
    CASE type = "addr" -> AddrMap(c, k, Host(type, k), ignore)
      [] type = "command" -> CommandMap(c, k, Host(type, k), ignore, lost)
      [] type = "dns" -> DNSMap(c, k, Host(type, k), ignore, lost)
      [] type = "file" -> FileMap(c, k, Host(type, k), ignore)
      [] type = "group" -> GroupMap(c, k, Host(type, k), ignore)
      [] type = "package" -> PackageMap(c, k, Host(type, k), ignore)
      [] type = "port" -> PortMap(c, k, Host(type, k), ignore)
      [] type = "process" -> ProcessMap(c, k, Host(type, k), ignore)
      [] type = "service" -> ServiceMap(c, k, Host(type, k), ignore)
      [] type = "user" -> UserMap(c, k, Host(type, k), ignore)
      [] type = "gossfile" -> GossfileMap(c, k, Host(type, k), ignore)
      [] type = "kernel-param" -> KernelParamMap(c, k, Host(type, k), ignore)
      [] type = "mount" -> MountMap(c, k, Host(type, k), ignore)
      [] type = "interface" -> InterfaceMap(c, k, Host(type, k), ignore)
      [] type = "http" -> HTTPMap(c, k, Host(type, k), ignore)
      [] type = "registry" -> RegistryMap(c, k, Host(type, k), ignore)

\* One step of AutoAddResource after another, up to the first error.
Then(r, Step(_)) == IF r.err THEN r ELSE Step(r.c)

\* The listening ports of the processes that were found, whose table is read
\* once more for the purpose.
OwnPorts(r, k) ==
    LET owned == Host("process", k).ports
    IN  IF ~r.found \/ r.err THEN r
        ELSE IF ~Host("process", k).portsRead \/ \E o \in owned : PortIfExists(r.c, o, Host("port", o)).err
        THEN Result(TRUE, r.c)
        ELSE Result(FALSE, Over([id \in {ID("port", o) : o \in {x \in owned : PortIfExists(r.c, x, Host("port", x)).found}} |->
                                PortIfExists(r.c, id[2], Host("port", id[2])).c[id]], r.c))

\* Mutant: the ports of a process are not looked at.
AutoAddResource_NoOwnPorts(c, k) ==
    LET s1 == IF Host("service", k).slash THEN FileIfExists(c, k, Host("file", k)) ELSE Result(FALSE, c)
        s2 == Then(s1, LAMBDA x : GroupIfExists(x, k, Host("group", k)))
        s3 == Then(s2, LAMBDA x : PackageIfExists(x, k, Host("package", k)))
        s4 == Then(s3, LAMBDA x : PortIfExists(x, k, Host("port", k)))
        s5 == Then(s4, LAMBDA x : ProcessIfExists(x, k, Host("process", k)))
        s6 == Then(s5, LAMBDA x : ServiceIfExists(x, k, Host("service", k)))
    IN  Then(s6, LAMBDA x : UserIfExists(x, k, Host("user", k)))

AutoAddResource(c, k) ==
    LET s1 == IF Host("service", k).slash THEN FileIfExists(c, k, Host("file", k)) ELSE Result(FALSE, c)
        s2 == Then(s1, LAMBDA x : GroupIfExists(x, k, Host("group", k)))
        s3 == Then(s2, LAMBDA x : PackageIfExists(x, k, Host("package", k)))
        s4 == Then(s3, LAMBDA x : PortIfExists(x, k, Host("port", k)))
        s5 == Then(s4, LAMBDA x : OwnPorts(ProcessIfExists(x, k, Host("process", k)), k))
        s6 == Then(s5, LAMBDA x : ServiceIfExists(x, k, Host("service", k)))
    IN  Then(s6, LAMBDA x : UserIfExists(x, k, Host("user", k)))

-----------------------------------------------------------------------------
(* store.go                                                                *)

getStoreFormatFromFileName(ext) ==
    CASE ext = ".json" -> "JSON"
      [] ext \in {".yaml", ".yml"} -> "YAML"
      [] OTHER -> "unknown"

Format == getStoreFormatFromFileName(run.ext)

\* An attribute outside the whitelist of the type is refused, and so is a
\* resource without a body.
UnmarshalJSON(c) == IF \E id \in DOMAIN c : c[id].bad # "no" THEN {} ELSE {c}
UnmarshalYAML(c) == IF \E id \in DOMAIN c : c[id].bad # "no" THEN {} ELSE {c}

\* Mutant: a file that does not parse is taken for an empty one.
ReadJSON_TornIsEmpty(f) ==
    LET part == {[id \in D |-> f.text[id]] : D \in SUBSET DOMAIN f.text}
    IN  CASE f.state = "whole" -> IF Format = "JSON" THEN UnmarshalJSON(f.text) ELSE UnmarshalYAML(f.text)
          [] f.state = "torn" -> IF Format = "JSON" THEN {None} ELSE UNION {UnmarshalYAML(c) : c \in part}

\* The configs that reading may give, none when it fails.  Torn JSON does not
\* parse; torn YAML may, as some of what was being written or as nothing.
ReadJSON(f) ==
    LET part == {[id \in D |-> f.text[id]] : D \in SUBSET DOMAIN f.text}
    IN  CASE f.state = "whole" -> IF Format = "JSON" THEN UnmarshalJSON(f.text) ELSE UnmarshalYAML(f.text)
          [] f.state = "torn" -> IF Format = "JSON" THEN {} ELSE UNION {UnmarshalYAML(c) : c \in part}

Init ==
    /\ run \in Scenarios
    /\ file = run.start
    /\ pc = [p \in Procs |-> "start"]
    /\ todo = [p \in Procs |-> run.cmds[p].keys]
    /\ mem = [p \in Procs |-> None]
    /\ read = [p \in Procs |-> None]
    /\ committed = file.text
    /\ base = [p \in Procs |-> None]
    /\ tornRead = {}
    /\ wrote = [p \in Procs |-> {}]
    /\ by = {}

\* AddResources and AutoAddResources up to the loop over the keys.
Begin(p) ==
    /\ pc[p] = "start"
    /\ \/ /\ Format # "unknown"
          /\ \E c \in IF file.state = "missing" THEN {None} ELSE ReadJSON(file) :
                /\ mem' = [mem EXCEPT ![p] = c]
                /\ read' = [read EXCEPT ![p] = c]
          /\ base' = [base EXCEPT ![p] = committed]
          /\ tornRead' = IF file.state = "torn" THEN tornRead \cup {p} ELSE tornRead
          /\ pc' = [pc EXCEPT ![p] = "adding"]
       \/ /\ Format = "unknown" \/ (file.state # "missing" /\ ReadJSON(file) = {}) \/ file.state = "torn"
          /\ pc' = [pc EXCEPT ![p] = "failed"]
          /\ UNCHANGED <<mem, read, base, tornRead>>
    /\ UNCHANGED <<run, file, todo, committed, wrote, by>>

\* The next key.  A PTR record that is none panics in the goroutine of the
\* lookup and takes the command with it.
AddKey(p, lost) ==
    LET k == Head(todo[p])
        cmd == run.cmds[p]
        r == IF cmd.op = "add" THEN AddResource(mem[p], cmd.type, k, cmd.ignore, lost) ELSE AutoAddResource(mem[p], k)
        panics == cmd.op = "add" /\ cmd.type = "dns" /\ DNSlookup(Host("dns", k), lost).panic
    IN  /\ pc[p] = "adding" /\ todo[p] # <<>>
        /\ IF panics \/ r.err
           THEN pc' = [pc EXCEPT ![p] = IF panics THEN "killed" ELSE "failed"] /\ UNCHANGED <<mem, todo>>
           ELSE /\ mem' = [mem EXCEPT ![p] = r.c]
                /\ todo' = [todo EXCEPT ![p] = Tail(todo[p])]
                /\ UNCHANGED pc
        /\ UNCHANGED <<run, file, read, committed, base, tornRead, wrote, by>>

\* WriteJSON: an empty config is not written; os.WriteFile truncates first.
Truncate(p) ==
    /\ pc[p] = "adding" /\ todo[p] = <<>> /\ mem[p] # None
    /\ file' = [state |-> "torn", text |-> None]
    /\ by' = {p}
    /\ wrote' = [wrote EXCEPT ![p] = {}]
    /\ pc' = [pc EXCEPT ![p] = "writing"]
    /\ UNCHANGED <<run, todo, mem, read, committed, base, tornRead>>

NothingToWrite(p) ==
    /\ pc[p] = "adding" /\ todo[p] = <<>> /\ mem[p] = None
    /\ pc' = [pc EXCEPT ![p] = "done"]
    /\ UNCHANGED <<run, file, todo, mem, read, committed, base, tornRead, wrote, by>>

\* Mutant: the old file is removed before the new one is opened.
OpenFails_Removed(p) ==
    /\ pc[p] = "adding" /\ todo[p] = <<>> /\ mem[p] # None
    /\ file' = [state |-> "torn", text |-> None]
    /\ by' = {p}
    /\ pc' = [pc EXCEPT ![p] = "failed"]
    /\ UNCHANGED <<run, todo, mem, read, committed, base, tornRead, wrote>>

\* A file that cannot be opened for writing is left as it was.
OpenFails(p) ==
    /\ pc[p] = "adding" /\ todo[p] = <<>> /\ mem[p] # None
    /\ pc' = [pc EXCEPT ![p] = "failed"]
    /\ UNCHANGED <<run, file, todo, mem, read, committed, base, tornRead, wrote, by>>

\* The commands that are writing see that p wrote.
Overlapping(p) == [q \in Procs |-> IF q # p /\ pc[q] = "writing" THEN wrote[q] \cup {p} ELSE wrote[q]]

\* The text goes to the start of the file.  Where another command has written
\* since this one truncated it, the end of a longer text stays behind.
Write(p) ==
    /\ pc[p] = "writing"
    /\ \/ file' = [state |-> "whole", text |-> mem[p]] /\ committed' = mem[p]
       \/ /\ wrote[p] # {}
          /\ file' = [state |-> "torn", text |-> Over(mem[p], file.text)] /\ UNCHANGED committed
    /\ by' = {p}
    /\ wrote' = Overlapping(p)
    /\ pc' = [pc EXCEPT ![p] = "done"]
    /\ UNCHANGED <<run, todo, mem, read, base, tornRead>>

\* The disk is full, or the command is killed: part of the text is written.
WriteStops(p) ==
    /\ pc[p] = "writing"
    /\ file' = [state |-> "torn", text |-> Over(mem[p], file.text)]
    /\ by' = {p}
    /\ wrote' = Overlapping(p)
    /\ pc' = [pc EXCEPT ![p] = "cut"]
    /\ UNCHANGED <<run, todo, mem, read, committed, base, tornRead>>

Kill(p) ==
    /\ pc[p] \in {"start", "adding"}
    /\ pc' = [pc EXCEPT ![p] = "killed"]
    /\ UNCHANGED <<run, file, todo, mem, read, committed, base, tornRead, wrote, by>>

\* The user gives a test a title, or misspells one of its attributes.
Edit(id, e) ==
    /\ file.state = "whole" /\ id \in DOMAIN file.text /\ file.text[id] # e
    /\ file.text[id].title = "none" /\ file.text[id].bad = "no"
    /\ file' = [file EXCEPT !.text[id] = e]
    /\ by' = {}
    /\ committed' = file'.text
    /\ UNCHANGED <<run, pc, todo, mem, read, base, tornRead, wrote>>

Stopped ==
    /\ \A p \in Procs : pc[p] \in {"done", "failed", "killed", "cut"}
    /\ UNCHANGED vars

Next ==
    \/ \E p \in Procs :
          \/ Begin(p) \/ Truncate(p) \/ NothingToWrite(p) \/ OpenFails(p)
          \/ Write(p) \/ WriteStops(p) \/ Kill(p) \/ \E lost \in BOOLEAN : AddKey(p, lost)
    \/ \E id \in DOMAIN file.text :
          Edit(id, [file.text[id] EXCEPT !.title = "mine"]) \/ Edit(id, [file.text[id] EXCEPT !.bad = "attr"])
    \/ Stopped

Spec == Init /\ [][Next]_vars

-----------------------------------------------------------------------------
(* What validating the recorded tests on this host gives.                  *)

Validate(type, x, h, skip, lost) ==
    CASE type = "addr" -> AddrValidate(x, DefAddr(h), skip)
      [] type = "command" -> CommandValidate(x, DefCommand(h, lost), skip)
      [] type = "dns" -> DNSValidate(x, DefDNS(h, lost), skip)
      [] type = "file" -> FileValidate(x, DefFile(h), skip)
      [] type = "group" -> GroupValidate(x, DefGroup(h), skip)
      [] type = "package" -> PackageValidate(x, detectPackage(h), skip)
      [] type = "port" -> PortValidate(x, DefPort(h), skip)
      [] type = "process" -> ProcessValidate(x, DefProcess(h), skip)
      [] type = "service" -> ServiceValidate(x, detectService(h), skip)
      [] type = "user" -> UserValidate(x, DefUser(h), skip)
      [] type = "gossfile" -> GossfileValidate(x, <<>>, skip)
      [] type = "kernel-param" -> KernelParamValidate(x, DefKernelParam(h), skip)
      [] type = "mount" -> MountValidate(x, DefMount(h), skip)
      [] type = "interface" -> InterfaceValidate(x, DefInterface(h), skip)
      [] type = "http" -> HTTPValidate(x, DefHTTP(h), skip)
      [] type = "registry" -> RegistryValidate(x, DefRegistry(h), skip)

Results(r) == {r[a] : a \in DOMAIN r}
Outcomes(type, x, h) == UNION {Results(Validate(type, x, h, FALSE, lost)) : lost \in BOOLEAN}

-----------------------------------------------------------------------------
(* Properties.                                                             *)

\* The tests the gossfile on disk is sure to have: none while it is torn.
OnDisk == IF file.state = "whole" THEN DOMAIN file.text ELSE {}

\* A test leaves the gossfile only at the hand of the command that takes the
\* step: one that is about to write it back, whose file is empty until it does;
\* one that had read the file before the test was there, or had read the remains
\* of an interrupted write, which only YAML lets it do; or one whose write met
\* another's.
LostOnlyByOverlap ==
    [][\A id \in OnDisk \ OnDisk' :
          \E p \in Procs : /\ pc'[p] # pc[p]
                           /\ \/ pc'[p] = "writing" /\ id \in DOMAIN mem[p]
                              \/ id \notin DOMAIN base[p]
                              \/ p \in tornRead /\ Format = "YAML"
                              \/ wrote[p] # {}]_vars

\* The gossfile is damaged only while the last command to touch it is writing,
\* or for good when that one was cut off in the middle or another wrote at the
\* same time: a query that fails or panics, a kill before the write, or a file
\* that cannot be opened leaves it whole.
DamagedOnlyByCut ==
    file.state = "torn" => \E p \in by : pc[p] \in {"writing", "cut"} \/ wrote[p] # {}

\* Adding a resource again keeps the title the user gave it, unless the title
\* came after the command that writes had read the file, or the file it had
\* read was torn.
TitleKept ==
    [][\A id \in DOMAIN committed \cap DOMAIN committed' :
          committed[id].title # "none" /\ committed'[id].title = "none" =>
              \E p \in Procs : /\ pc[p] = "writing" /\ pc'[p] # pc[p]
                               /\ p \in tornRead \/ id \notin DOMAIN base[p] \/ base[p][id].title = "none"]_vars

\* The resources by the name of a key, with the ports of its processes.
There(k) ==
    {ID("file", x) : x \in {y \in {k} : Host("service", y).slash /\ Host("file", y).lstat = "ok"}} \cup
    {ID("group", x) : x \in {y \in {k} : Host("group", y).known}} \cup
    {ID("package", x) : x \in {y \in {k} : detectPackage(Host("package", y)).installed.val}} \cup
    {ID("port", x) : x \in {y \in {k} \cup (IF Host("process", k).running THEN Host("process", k).ports ELSE {}) :
                                Host("port", y).read /\ Host("port", y).open}} \cup
    {ID("process", x) : x \in {y \in {k} : Host("process", y).running}} \cup
    {ID("service", x) : x \in {y \in {k} : detectService(Host("service", y)).exists.val}} \cup
    {ID("user", x) : x \in {y \in {k} : Host("user", y).known}}

\* The resources a command is asked to record.
Wanted(p) ==
    LET cmd == run.cmds[p]
        keys == {cmd.keys[i] : i \in DOMAIN cmd.keys}
    IN  IF cmd.op = "add" THEN {ID(cmd.type, k) : k \in keys} ELSE UNION {There(k) : k \in keys}

\* What a command writes, or ends well with, is what it had read and what it
\* was asked for, and nothing else: every key of add under its usual spelling,
\* and for autoadd every resource by the key's name that exists, with the
\* listening ports of its processes; after one failing query nothing at all is
\* written.
RecordsExactly ==
    \A p \in Procs : pc[p] \in {"writing", "done"} => DOMAIN mem[p] = DOMAIN read[p] \cup Wanted(p)

\* The tests that may not hold on the very host they were recorded on: an absent
\* or unreadable mount, a port while the sockets cannot be read (recorded as not
\* listening), a registry that is not there or a key in no hive, the output of a
\* command that is blank or was excluded, and a command that never started or a
\* server that refused, whose error went missing once.
Unstable(type, h, ignore) ==
    \/ type = "mount" /\ DefMount(h).exists.err
    \/ type = "port" /\ ~h.read
    \/ type = "registry" /\ DefRegistry(h).exists.err
    \/ type = "command" /\ (h.out = "blank" \/ (h.out = "lines" /\ contains(ignore, "stdout")))
    \/ type = "command" /\ h.run = "nostart"
    \/ type = "dns" /\ DefDNS(h, FALSE).resolvable.err

\* What add records passes, or is skipped, when it is validated on the same
\* unchanged host: no attribute is recorded that could not be read.
RoundTrip ==
    \A p \in Procs : pc[p] = "done" =>
        \A id \in Wanted(p) :
            ~Unstable(id[1], run.host[id], run.cmds[p].ignore) => "FAIL" \notin Outcomes(id[1], mem[p][id].attrs, run.host[id])

\* A service passes as running, or is recorded as running, only if a service
\* manager was there and said so: a manager that is not installed leaves a
\* status of 0 behind and must not look like one that answered.
RunningWasAnswered ==
    \A id \in DOMAIN run.host :
        LET h == run.host[id]
            said == h.service = "zero" \/ ("systemctl" \in h.path /\ h.isActive = "zero")
        IN  id[1] = "service" =>
                /\ "SUCCESS" \in Outcomes("service", [running |-> TRUE], h) => said
                /\ \A p \in Procs : (pc[p] = "done" /\ id \in Wanted(p) /\ mem[p][id].attrs["running"]) => said

\* The resources that do not exist on the host.
Absent(type, h) ==
    \/ type = "file" /\ h.home /\ h.lstat = "notexist"
    \/ type \in {"group", "user"} /\ ~h.known
    \/ type = "interface" /\ ~h.found
    \/ type = "mount" /\ h.entry = "notfound"
    \/ type = "port" /\ h.read /\ ~h.open
    \/ type = "process" /\ h.list = "ok" /\ ~h.running

\* docs/cli.md on add: a resource that does not exist gives a test that ensures
\* it does not, which therefore does not fail.
AbsentTestPasses ==
    \A p \in Procs : pc[p] = "done" =>
        \A id \in Wanted(p) :
            Absent(id[1], run.host[id]) => "FAIL" \notin Outcomes(id[1], mem[p][id].attrs, run.host[id])
=============================================================================
