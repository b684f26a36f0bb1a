-------------------------------- MODULE Load --------------------------------
(***************************************************************************)
(* How a validation gets its gossfile: loadGossConfigWithDiscover          *)
(* (discovery_load.go) with the loads of loadGossConfig (validate.go), the *)
(* discovery pool of validateDiscovery (discovery_validate.go) and the     *)
(* template variables of store.go.                                         *)
(*                                                                         *)
(* A gossfile is what loading it depends on: the registers of its          *)
(* discovery section ("" when the attribute is missing), the registers     *)
(* that gate a test in its templates ({{ if .Discovered.g }}), and whether *)
(* it has a test that no template gates.  A gossfile on STDIN and a        *)
(* variables file that is a pipe give their content to the first reader    *)
(* only.                                                                   *)
(***************************************************************************)
EXTENDS Integers, Sequences

CONSTANTS
    Registers,       \* names under which discovery results are registered
    Inputs,          \* the configurations, see the fields below
    NumCPU,          \* runtime.NumCPU()
    MaxConcurrent    \* --max-concurrent, any int

Missing == ""        \* no register attribute
Always == "always"   \* the test no template gates

Gossfiles == [discovery : Seq(Registers \cup {Missing}), gates : SUBSET Registers, always : BOOLEAN]

\* Partial functions from registers to truth: the Discovered of a template.
Tables == UNION {[S -> BOOLEAN] : S \in SUBSET Registers}

ASSUME LoadAssumption ==
    /\ NumCPU \in Nat \ {0} /\ MaxConcurrent \in Int
    /\ Missing \notin Registers /\ Always \notin Registers
    /\ Inputs \subseteq [format : STRING, hasDiscover : BOOLEAN, discover : Gossfiles,
                         main : Gossfiles, piped : BOOLEAN, vars : Tables, varsPiped : BOOLEAN,
                         hasInline : BOOLEAN, inline : Tables]

NoFile == [discovery |-> <<>>, gates |-> {}, always |-> FALSE]
NoTable == [g \in {} |-> TRUE]

Outcomes == {"pass", "fail", "skipped"}

WorkerCount ==
    LET limited == IF NumCPU * 5 > MaxConcurrent THEN MaxConcurrent ELSE NumCPU * 5
    IN  IF limited < 1 THEN 1 ELSE limited

Workers == 1..WorkerCount

VARIABLES
    input,         \* format, discover (with hasDiscover), main, piped, vars, varsPiped,
                   \* inline (with hasInline)
    pc,            \* "discover", "peek", "entries", "pool", "main", "done"
    drained,       \* pipes already read: a subset of {"STDIN", "vars"}
    entries,       \* registers of the discovery section in use
    fed,           \* entries 1..fed have been received from work
    wpc,           \* worker: "recv", "validate", "exit"
    item,          \* the entry a worker holds
    out,           \* the buffered channel of [register, passed]
    closed,        \* out is closed
    outcome,       \* history: what Validate returned for an entry
    discovered,    \* the map the collector fills
    loaded,        \* tests of the configuration that is returned
    error          \* "none", or the stage that failed

poolVars == <<fed, wpc, item, out, closed, outcome, discovered>>
vars == <<input, pc, drained, entries, poolVars, loaded, error>>

Init ==
    /\ input \in Inputs
    /\ pc = CASE input.format = "discovery"                       -> "main"
              [] input.format # "discovery" /\ input.hasDiscover  -> "discover"
              [] OTHER                                            -> "peek"
    /\ drained = {}
    /\ entries = <<>>
    /\ fed = 0
    /\ wpc = [w \in Workers |-> "recv"]
    /\ item = [w \in Workers |-> 0]
    /\ out = <<>>
    /\ closed = FALSE
    /\ outcome = <<>>
    /\ discovered = NoTable
    /\ loaded = {}
    /\ error = "none"

-----------------------------------------------------------------------------
(* One load of a gossfile.                                                 *)

Over(f, g) == [x \in DOMAIN f \cup DOMAIN g |-> IF x \in DOMAIN f THEN f[x] ELSE g[x]]

\* Mutant: the files' Discovered overrides the discovery results.
Discovered_VarsWin(d) ==
    IF input.hasInline THEN input.inline
    ELSE Over(IF "vars" \in drained THEN NoTable ELSE input.vars, d)

\* loadVarsForTemplates: discovery results override the files' Discovered, and
\* a Discovered of --vars-inline replaces the whole of it.
Discovered(d) ==
    IF input.hasInline THEN input.inline
    ELSE Over(d, IF "vars" \in drained THEN NoTable ELSE input.vars)

Tests(file, d) ==
    {g \in file.gates : g \in DOMAIN Discovered(d) /\ Discovered(d)[g]}
        \cup (IF file.always THEN {Always} ELSE {})

\* Mutant: every load has the option of the peek.
LoadFails_Lenient(file, d, peek) == Tests(file, d) = {} /\ file.discovery = <<>>

\* missingkey=error, and "found 0 tests".
LoadFails(file, d, peek) ==
    \/ ~peek /\ \E g \in file.gates : g \notin DOMAIN Discovered(d)
    \/ Tests(file, d) = {} /\ file.discovery = <<>>

\* What the main gossfile reads as now.
Main == IF input.piped /\ "STDIN" \in drained THEN NoFile ELSE input.main

Drain(stdin) ==
    drained' = drained \cup (IF input.varsPiped THEN {"vars"} ELSE {})
                       \cup (IF stdin /\ input.piped THEN {"STDIN"} ELSE {})

Fail(stage) == pc' = "done" /\ error' = stage

\* The --discover gossfile is loaded.
LoadDiscover ==
    /\ pc = "discover"
    /\ Drain(FALSE)
    /\ IF LoadFails(input.discover, NoTable, FALSE) \/ input.discover.discovery = <<>>
       THEN Fail("discover") /\ UNCHANGED entries
       ELSE entries' = input.discover.discovery /\ pc' = "entries" /\ UNCHANGED error
    /\ UNCHANGED <<input, poolVars, loaded>>

\* The main gossfile is rendered without discovery results.  After --discover
\* this only decides about a log line.
PeekMain ==
    /\ pc = "peek"
    /\ Drain(TRUE)
    /\ \/ /\ input.hasDiscover
          /\ pc' = "main" /\ UNCHANGED <<entries, error>>
       \/ /\ ~input.hasDiscover /\ LoadFails(Main, NoTable, TRUE)
          /\ Fail("peek") /\ UNCHANGED entries
       \/ /\ ~input.hasDiscover /\ ~LoadFails(Main, NoTable, TRUE)
          /\ pc' = IF Main.discovery = <<>> THEN "main" ELSE "entries"
          /\ entries' = Main.discovery
          /\ UNCHANGED error
    /\ UNCHANGED <<input, poolVars, loaded>>

\* The main gossfile is loaded; with --format discovery its discovery section
\* is run and nothing else.
LoadMain ==
    /\ pc = "main"
    /\ Drain(TRUE)
    /\ \/ LoadFails(Main, discovered, FALSE) /\ Fail("main") /\ UNCHANGED <<entries, loaded>>
       \/ /\ ~LoadFails(Main, discovered, FALSE)
          /\ IF input.format = "discovery"
             THEN entries' = Main.discovery /\ pc' = "entries" /\ UNCHANGED loaded
             ELSE loaded' = Tests(Main, discovered) /\ pc' = "done" /\ UNCHANGED entries
          /\ UNCHANGED error
    /\ UNCHANGED <<input, poolVars>>

-----------------------------------------------------------------------------
(* validateDiscovery.                                                      *)

BadEntries ==
    \/ \E i \in DOMAIN entries : entries[i] = Missing
    \/ \E i, j \in DOMAIN entries : i # j /\ entries[i] = entries[j]

CheckEntries ==
    /\ pc = "entries"
    /\ \/ (BadEntries \/ entries = <<>>) /\ Fail("entries") /\ UNCHANGED outcome
       \/ /\ ~BadEntries /\ entries # <<>>
          /\ pc' = "pool"
          /\ outcome' = [i \in DOMAIN entries |-> "none"]
          /\ UNCHANGED error
    /\ UNCHANGED <<input, drained, entries, fed, wpc, item, out, closed, discovered, loaded>>

\* work is unbuffered; the feeder closes it after the last entry.
Receive(w) ==
    /\ pc = "pool" /\ wpc[w] = "recv" /\ fed < Len(entries)
    /\ fed' = fed + 1
    /\ item' = [item EXCEPT ![w] = fed + 1]
    /\ wpc' = [wpc EXCEPT ![w] = "validate"]
    /\ UNCHANGED <<input, pc, drained, entries, out, closed, outcome, discovered, loaded, error>>

\* Mutant: only a result that passed makes the register true.
Validate_SkippedIsFalse(w, result) ==
    /\ wpc[w] = "validate"
    /\ out' = Append(out, [register |-> entries[item[w]], passed |-> result = "pass"])
    /\ outcome' = [outcome EXCEPT ![item[w]] = result]
    /\ wpc' = [wpc EXCEPT ![w] = "recv"]
    /\ UNCHANGED <<input, pc, drained, entries, fed, item, closed, discovered, loaded, error>>

\* out has room for every entry, so Validate and the send are one step.
Validate(w, result) ==
    /\ wpc[w] = "validate"
    /\ out' = Append(out, [register |-> entries[item[w]], passed |-> result # "fail"])
    /\ outcome' = [outcome EXCEPT ![item[w]] = result]
    /\ wpc' = [wpc EXCEPT ![w] = "recv"]
    /\ UNCHANGED <<input, pc, drained, entries, fed, item, closed, discovered, loaded, error>>

Exit(w) ==
    /\ pc = "pool" /\ wpc[w] = "recv" /\ fed = Len(entries)
    /\ wpc' = [wpc EXCEPT ![w] = "exit"]
    /\ UNCHANGED <<input, pc, drained, entries, fed, item, out, closed, outcome, discovered,
                   loaded, error>>

\* Mutant: nobody closes out, and the caller ranges over it for ever.
CloseOut_Never == pc = "pool" /\ ~closed /\ (\A w \in Workers : wpc[w] = "exit") /\ UNCHANGED vars

CloseOut ==
    /\ pc = "pool" /\ ~closed
    /\ \A w \in Workers : wpc[w] = "exit"
    /\ closed' = TRUE
    /\ UNCHANGED <<input, pc, drained, entries, fed, wpc, item, out, outcome, discovered,
                   loaded, error>>

\* The caller ranges over out.
Collect ==
    /\ pc = "pool" /\ out # <<>>
    /\ discovered' = Over([g \in {Head(out).register} |-> Head(out).passed], discovered)
    /\ out' = Tail(out)
    /\ UNCHANGED <<input, pc, drained, entries, fed, wpc, item, closed, outcome, loaded, error>>

PoolDone ==
    /\ pc = "pool" /\ out = <<>> /\ closed
    /\ pc' = CASE input.format = "discovery"                       -> "done"
               [] input.format # "discovery" /\ input.hasDiscover  -> "peek"
               [] OTHER                                            -> "main"
    /\ UNCHANGED <<input, drained, entries, poolVars, loaded, error>>

Done == pc = "done" /\ UNCHANGED vars

Caller == LoadDiscover \/ PeekMain \/ LoadMain \/ CheckEntries \/ Collect \/ PoolDone

Worker(w) == Receive(w) \/ Exit(w) \/ \E result \in Outcomes : Validate(w, result)

Next == Caller \/ CloseOut \/ Done \/ \E w \in Workers : Worker(w)

\* Every goroutine that can run is scheduled, and Validate returns.
Spec ==
    /\ Init /\ [][Next]_vars
    /\ WF_vars(Caller) /\ WF_vars(CloseOut)
    /\ \A w \in Workers : WF_vars(Worker(w))

-----------------------------------------------------------------------------
(* Properties.                                                             *)

PoolRan == closed /\ pc # "pool"

\* "boolean values reflect actual system state": when the pool has ended, the
\* map has exactly the registers of the discovery section, and each is true
\* unless the validation of its resource failed, whichever worker ran it and
\* in whatever order the results came.
DiscoveredIsTruth ==
    PoolRan =>
        /\ DOMAIN discovered = {entries[i] : i \in DOMAIN entries}
        /\ \A i \in DOMAIN entries :
              outcome[i] # "none" /\ (discovered[entries[i]] <=> outcome[i] # "fail")

\* The tests that are run are the ones discovery asked for: a test gated by a
\* register of the section in use (that of --discover before the inline one)
\* is there exactly when that discovery passed, unless --vars-inline brought
\* its own Discovered.
GatesFollowDiscovery ==
    (pc = "done" /\ error = "none" /\ PoolRan /\ input.format # "discovery" /\ ~input.hasInline) =>
        \A i \in DOMAIN entries : \A g \in input.main.gates :
            g = entries[i] => (g \in loaded <=> outcome[i] # "fail")

\* No discovery result comes from a section that is not in use: with --discover
\* the registers of the inline section stay undefined and a test gated by one
\* stops the load instead of being left out silently.
InlineSectionIgnored ==
    (pc = "done" /\ error = "none" /\ input.hasDiscover /\ input.format # "discovery") =>
        \A g \in input.main.gates : \/ \E i \in DOMAIN entries : entries[i] = g
                                    \/ input.hasInline \/ g \in DOMAIN input.vars

\* The caller gets its configuration or an error: neither the pool nor the
\* collector hangs.
Termination == <>(pc = "done")

\* cli.md: "goss render | ssh remote-host 'goss -g - validate'": a gossfile with
\* an ungated test and nothing to discover is loaded from STDIN.
StdinGossfileLoads ==
    (pc = "done" /\ input.piped /\ input.main.always /\ input.main.gates = {}
        /\ input.main.discovery = <<>> /\ ~input.hasDiscover /\ input.format # "discovery")
        => error = "none"
=============================================================================
