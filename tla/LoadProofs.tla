----------------------------- MODULE LoadProofs -----------------------------
(***************************************************************************)
(* Proofs about the discovery phase and the loads around it, for any       *)
(* gossfiles, registers and number of workers: what the templates see of a *)
(* discovery is what its resources came to.                                *)
(***************************************************************************)
EXTENDS Load, TLAPS

Names == Registers \cup {Missing}
Messages == [register : Names, passed : BOOLEAN]

\* The types of the variables.
LoadTypeOK ==
    /\ input \in Inputs
    /\ pc \in {"discover", "peek", "entries", "pool", "main", "done"}
    /\ entries \in Seq(Names)
    /\ fed \in Nat
    /\ wpc \in [Workers -> {"recv", "validate", "exit"}]
    /\ item \in [Workers -> Nat]
    /\ out \in Seq(Messages)
    /\ closed \in BOOLEAN

\* The pool has begun its work, or ended it.
Begun == pc = "pool" \/ closed

\* In which order the loads and the pool follow each other.
Stages ==
    /\ pc = "discover" => input.hasDiscover /\ input.format # "discovery"
    /\ pc \in {"discover", "entries"} => ~closed
    /\ pc = "peek" => input.format # "discovery" /\ (input.hasDiscover <=> closed)
    /\ pc = "main" => /\ closed => input.format # "discovery"
                      /\ (input.hasDiscover /\ input.format # "discovery") => closed
    /\ PoolRan => out = <<>>
    /\ closed => \A w \in Workers : wpc[w] = "exit"
    /\ \A w \in Workers : wpc[w] = "validate" => pc = "pool"
    /\ ~Begun => /\ fed = 0 /\ out = <<>> /\ DOMAIN discovered = {}
                 /\ \A w \in Workers : wpc[w] = "recv"

\* The registers of the section in use are there and distinct.
Sound ==
    Begun => /\ outcome \in [1..Len(entries) -> Outcomes \cup {"none"}]
             /\ \A i \in 1..Len(entries) : entries[i] \in Registers
             /\ \A i, j \in 1..Len(entries) : entries[i] = entries[j] => i = j

\* Every entry is still to be fed, is held by one worker, or has an outcome.
Held ==
    /\ \A w \in Workers : wpc[w] = "validate" =>
          item[w] \in 1..Len(entries) /\ item[w] <= fed /\ outcome[item[w]] = "none"
    /\ \A v, w \in Workers : (wpc[v] = "validate" /\ wpc[w] = "validate" /\ item[v] = item[w]) => v = w
    /\ Begun => \A i \in 1..Len(entries) :
          /\ i > fed => outcome[i] = "none"
          /\ (i <= fed /\ outcome[i] = "none") => \E w \in Workers : wpc[w] = "validate" /\ item[w] = i
    /\ Begun => fed <= Len(entries)
    /\ \A w \in Workers : wpc[w] = "exit" => fed = Len(entries)

\* A register says of its entry what the entry came to.
Says(register, passed) ==
    \E i \in 1..Len(entries) :
        /\ entries[i] = register /\ outcome[i] # "none"
        /\ passed <=> outcome[i] # "fail"

\* What is in the channel and in the map is true, and nothing is lost.
Reported ==
    /\ \A k \in 1..Len(out) : Says(out[k].register, out[k].passed)
    /\ \A g \in DOMAIN discovered : Says(g, discovered[g])
    /\ Begun => \A i \in 1..Len(entries) : outcome[i] # "none" =>
          \/ entries[i] \in DOMAIN discovered
          \/ \E k \in 1..Len(out) : out[k].register = entries[i]

\* The inductive invariant of the loads and the discovery phase.
LoadInv ==
    /\ LoadTypeOK /\ Stages /\ Sound /\ Held /\ Reported
    /\ GatesFollowDiscovery /\ InlineSectionIgnored

\* The pool has at least one worker, whatever --max-concurrent says.
LEMMA SomeWorker == 1 \in Workers
<1>1. WorkerCount \in Int /\ WorkerCount >= 1
  BY LoadAssumption DEF WorkerCount
<1> QED
  BY <1>1 DEF Workers

\* The fields of a configuration.
LEMMA InputTypes ==
    ASSUME input \in Inputs
    PROVE  /\ input.hasDiscover \in BOOLEAN /\ input.piped \in BOOLEAN /\ input.hasInline \in BOOLEAN
           /\ input.discover.discovery \in Seq(Names) /\ input.main.discovery \in Seq(Names)
           /\ input.main.gates \in SUBSET Registers
BY LoadAssumption DEF Gossfiles, Names

\* The sequence of entries and the channel.
LEMMA EntryTypes == ASSUME LoadTypeOK
                    PROVE  /\ Len(entries) \in Nat /\ DOMAIN entries = 1..Len(entries)
                           /\ Len(out) \in Nat
BY DEF LoadTypeOK

\* What is reported stays true when nothing is sent, collected or validated.
LEMMA ReportedStays ==
    ASSUME Reported, entries' = entries, out' = out, outcome' = outcome, discovered' = discovered,
           Begun' => Begun
    PROVE  Reported'
<1>1. \A k \in 1..Len(out) : Says(out[k].register, out[k].passed)'
  <2> SUFFICES ASSUME NEW k \in 1..Len(out) PROVE Says(out[k].register, out[k].passed)'
    OBVIOUS
  <2>1. Says(out[k].register, out[k].passed)
    BY DEF Reported
  <2> QED
    BY <2>1 DEF Says
<1>2. \A g \in DOMAIN discovered : Says(g, discovered[g])'
  <2> SUFFICES ASSUME NEW g \in DOMAIN discovered PROVE Says(g, discovered[g])'
    OBVIOUS
  <2>1. Says(g, discovered[g])
    BY DEF Reported
  <2> QED
    BY <2>1 DEF Says
<1>3. (Begun => \A i \in 1..Len(entries) : outcome[i] # "none" =>
          \/ entries[i] \in DOMAIN discovered
          \/ \E k \in 1..Len(out) : out[k].register = entries[i])'
  BY DEF Reported
<1> QED
  BY <1>1, <1>2, <1>3 DEF Reported

\* When the pool has ended, the map tells the truth.
LEMMA TruthWhenEnded == LoadInv => DiscoveredIsTruth
<1> SUFFICES ASSUME LoadInv, closed, pc # "pool"
             PROVE  /\ DOMAIN discovered = {entries[i] : i \in DOMAIN entries}
                    /\ \A i \in DOMAIN entries :
                          outcome[i] # "none" /\ (discovered[entries[i]] <=> outcome[i] # "fail")
  BY DEF DiscoveredIsTruth, PoolRan
<1>1. DOMAIN entries = 1..Len(entries) /\ Len(entries) \in Nat
  BY EntryTypes DEF LoadInv
<1>2. Begun /\ out = <<>> /\ Len(out) = 0
  BY DEF Begun, LoadInv, Stages, PoolRan
<1>3. fed = Len(entries) /\ \A w \in Workers : wpc[w] # "validate"
  BY SomeWorker DEF LoadInv, Stages, Held
<1>4. \A i \in 1..Len(entries) : outcome[i] # "none"
  BY <1>1, <1>2, <1>3 DEF LoadInv, Held
<1>5. \A i \in 1..Len(entries) : entries[i] \in DOMAIN discovered
  BY <1>2, <1>4 DEF LoadInv, Reported
<1>6. \A g \in DOMAIN discovered : Says(g, discovered[g])
  BY DEF LoadInv, Reported
<1>7. DOMAIN discovered = {entries[i] : i \in DOMAIN entries}
  BY <1>1, <1>5, <1>6 DEF Says
<1>8. \A i \in 1..Len(entries) : discovered[entries[i]] <=> outcome[i] # "fail"
  <2> SUFFICES ASSUME NEW i \in 1..Len(entries) PROVE discovered[entries[i]] <=> outcome[i] # "fail"
    OBVIOUS
  <2>1. PICK j \in 1..Len(entries) : /\ entries[j] = entries[i]
                                     /\ discovered[entries[i]] <=> outcome[j] # "fail"
    BY <1>5, <1>6 DEF Says
  <2>2. j = i
    BY <1>2, <2>1 DEF LoadInv, Sound
  <2> QED
    BY <2>1, <2>2
<1> QED
  BY <1>1, <1>4, <1>7, <1>8

\* Nothing has been loaded or discovered at first.
LEMMA LoadInitial == Init => LoadInv
<1> SUFFICES ASSUME Init PROVE LoadInv
  OBVIOUS
<1>1. /\ input \in Inputs /\ closed = FALSE /\ fed = 0 /\ out = <<>> /\ entries = <<>>
      /\ \A w \in Workers : wpc[w] = "recv"
      /\ DOMAIN discovered = {} /\ Len(out) = 0
  BY DEF Init, NoTable
<1>2. \/ pc = "main" /\ input.format = "discovery"
      \/ pc = "discover" /\ input.format # "discovery" /\ input.hasDiscover
      \/ pc = "peek" /\ input.format # "discovery" /\ ~input.hasDiscover
  <2>1. CASE input.format = "discovery"
    BY <2>1 DEF Init
  <2>2. CASE input.format # "discovery" /\ input.hasDiscover
    BY <2>2 DEF Init
  <2>3. CASE input.format # "discovery" /\ ~input.hasDiscover
    BY <2>3 DEF Init
  <2> QED
    BY <2>1, <2>2, <2>3
<1>3. LoadTypeOK
  <2>1. /\ <<>> \in Seq(Names) /\ <<>> \in Seq(Messages) /\ 0 \in Nat
    OBVIOUS
  <2>2. wpc \in [Workers -> {"recv", "validate", "exit"}] /\ item \in [Workers -> Nat]
    BY DEF Init
  <2>3. pc \in {"discover", "peek", "entries", "pool", "main", "done"}
    BY <1>2
  <2>4. entries \in Seq(Names) /\ out \in Seq(Messages) /\ fed \in Nat /\ closed \in BOOLEAN
    BY <1>1, <2>1
  <2> QED
    BY <1>1, <2>2, <2>3, <2>4 DEF LoadTypeOK
<1>4. ~Begun
  BY <1>1, <1>2 DEF Begun
<1>5. Stages
  BY <1>1, <1>2, <1>4 DEF Stages, PoolRan
<1>6. Sound /\ Held /\ Reported
  BY <1>1, <1>4 DEF Sound, Held, Reported
<1>7. GatesFollowDiscovery /\ InlineSectionIgnored
  BY <1>2 DEF GatesFollowDiscovery, InlineSectionIgnored
<1> QED
  BY <1>3, <1>5, <1>6, <1>7 DEF LoadInv

-----------------------------------------------------------------------------
(* The loads.                                                              *)

\* A load leaves the pool alone, and changes the entries only before the pool
\* has run.
LEMMA LoadsKeepPool ==
    ASSUME LoadInv, pc \in {"discover", "peek", "main"}, pc' \in {"main", "entries", "done"},
           UNCHANGED <<input, poolVars>>, entries' \in Seq(Names), closed => entries' = entries
    PROVE  LoadTypeOK' /\ Sound' /\ Held' /\ Reported'
<1>1. /\ fed' = fed /\ wpc' = wpc /\ item' = item /\ out' = out /\ closed' = closed
      /\ outcome' = outcome /\ discovered' = discovered /\ input' = input
  BY DEF poolVars
<1>2. LoadTypeOK'
  BY <1>1 DEF LoadInv, LoadTypeOK
<1>3. \A w \in Workers : wpc[w] # "validate"
  BY DEF LoadInv, Stages
<1>4. CASE closed
  <2>1. entries' = entries /\ (Begun' <=> closed) /\ Begun
    BY <1>1, <1>4 DEF Begun
  <2>2. Sound'
    BY <1>1, <2>1 DEF LoadInv, Sound
  <2>3. Held'
    BY <1>1, <2>1 DEF LoadInv, Held
  <2>4. Reported'
    BY <1>1, <2>1, ReportedStays DEF LoadInv
  <2> QED
    BY <1>2, <2>2, <2>3, <2>4
<1>5. CASE ~closed
  <2>1. ~Begun /\ ~Begun'
    BY <1>1, <1>5 DEF Begun
  <2>2. out = <<>> /\ DOMAIN discovered = {} /\ \A w \in Workers : wpc[w] = "recv"
    BY <2>1 DEF LoadInv, Stages
  <2>3. Sound'
    BY <2>1 DEF Sound
  <2>4. Held'
    BY <1>1, <2>1, <2>2 DEF Held
  <2>5. Len(out) = 0
    BY <2>2
  <2>6. Reported'
    BY <1>1, <2>1, <2>2, <2>5 DEF Reported
  <2> QED
    BY <1>2, <2>3, <2>4, <2>6
<1> QED
  BY <1>4, <1>5

\* The --discover gossfile gives the entries, or an error.
LEMMA LoadDiscoverKeeps == LoadInv /\ LoadDiscover => LoadInv'
<1> SUFFICES ASSUME LoadInv, LoadDiscover PROVE LoadInv'
  OBVIOUS
<1>1. /\ pc = "discover" /\ ~closed /\ input.hasDiscover /\ input.format # "discovery"
      /\ UNCHANGED <<input, poolVars>>
  BY DEF LoadInv, Stages, LoadDiscover
<1>2. \/ pc' = "done" /\ error' = "discover" /\ entries' = entries
      \/ pc' = "entries" /\ entries' = input.discover.discovery
  BY DEF LoadDiscover, Fail
<1>3. pc' \in {"main", "entries", "done"} /\ entries' \in Seq(Names)
  BY <1>2, InputTypes DEF LoadInv, LoadTypeOK
<1>4. LoadTypeOK' /\ Sound' /\ Held' /\ Reported'
  BY <1>1, <1>3, LoadsKeepPool
<1>5. /\ fed' = fed /\ wpc' = wpc /\ out' = out /\ closed' = closed
      /\ discovered' = discovered /\ input' = input
  BY <1>1 DEF poolVars
<1>6. Stages'
  BY <1>1, <1>2, <1>5 DEF LoadInv, Stages, PoolRan, Begun
<1>7. GatesFollowDiscovery' /\ InlineSectionIgnored'
  BY <1>2 DEF GatesFollowDiscovery, InlineSectionIgnored
<1> QED
  BY <1>4, <1>6, <1>7 DEF LoadInv

\* The peek gives the entries of the inline section only without --discover.
LEMMA PeekMainKeeps == LoadInv /\ PeekMain => LoadInv'
<1> SUFFICES ASSUME LoadInv, PeekMain PROVE LoadInv'
  OBVIOUS
<1>1. /\ pc = "peek" /\ input.format # "discovery" /\ (input.hasDiscover <=> closed)
      /\ UNCHANGED <<input, poolVars>>
  BY DEF LoadInv, Stages, PeekMain
<1>2. \/ input.hasDiscover /\ pc' = "main" /\ entries' = entries
      \/ ~input.hasDiscover /\ pc' = "done" /\ error' = "peek" /\ entries' = entries
      \/ ~input.hasDiscover /\ pc' \in {"main", "entries"} /\ entries' = Main.discovery
  BY DEF PeekMain, Fail
<1>3. Main.discovery \in Seq(Names)
  BY InputTypes DEF LoadInv, LoadTypeOK, Main, NoFile
<1>4. /\ pc' \in {"main", "entries", "done"} /\ entries' \in Seq(Names)
      /\ closed => entries' = entries
  BY <1>1, <1>2, <1>3 DEF LoadInv, LoadTypeOK
<1>5. LoadTypeOK' /\ Sound' /\ Held' /\ Reported'
  BY <1>1, <1>4, LoadsKeepPool
<1>6. /\ fed' = fed /\ wpc' = wpc /\ out' = out /\ closed' = closed
      /\ discovered' = discovered /\ input' = input
  BY <1>1 DEF poolVars
<1>7. Stages'
  BY <1>1, <1>2, <1>6 DEF LoadInv, Stages, PoolRan, Begun
<1>8. GatesFollowDiscovery' /\ InlineSectionIgnored'
  BY <1>2 DEF GatesFollowDiscovery, InlineSectionIgnored
<1> QED
  BY <1>5, <1>7, <1>8 DEF LoadInv

\* A load that succeeds has read the main gossfile, not an empty STDIN.
LEMMA LoadedIsMain == ASSUME NEW d, NEW peek, ~LoadFails(Main, d, peek) PROVE Main = input.main
<1>1. LoadFails(NoFile, d, peek)
  BY DEF LoadFails, NoFile, Tests
<1> QED
  BY <1>1 DEF Main

\* What a template sees of the discovery results and the variables files.
LEMMA TemplateSees ==
    ASSUME NEW d, ~input.hasInline
    PROVE  /\ \A g : g \in DOMAIN Discovered(d) => g \in DOMAIN d \/ g \in DOMAIN input.vars
           /\ \A g \in DOMAIN d : g \in DOMAIN Discovered(d) /\ Discovered(d)[g] = d[g]
<1>1. PICK t : t \in {NoTable, input.vars} /\ Discovered(d) = Over(d, t)
  BY DEF Discovered
<1>2. DOMAIN NoTable = {}
  BY DEF NoTable
<1> QED
  BY <1>1, <1>2 DEF Over

\* The main gossfile is loaded with the results of the section in use.
LEMMA LoadMainKeeps == LoadInv /\ LoadMain => LoadInv'
<1> SUFFICES ASSUME LoadInv, LoadMain PROVE LoadInv'
  OBVIOUS
<1>1. /\ pc = "main" /\ UNCHANGED <<input, poolVars>>
      /\ closed => input.format # "discovery"
      /\ (input.hasDiscover /\ input.format # "discovery") => closed
  BY DEF LoadInv, Stages, LoadMain
<1>2. \/ pc' = "done" /\ error' = "main" /\ entries' = entries
      \/ input.format = "discovery" /\ pc' = "entries" /\ entries' = Main.discovery
      \/ /\ ~LoadFails(Main, discovered, FALSE) /\ input.format # "discovery"
         /\ pc' = "done" /\ entries' = entries /\ loaded' = Tests(Main, discovered)
  BY DEF LoadMain, Fail
<1>3. Main.discovery \in Seq(Names)
  BY InputTypes DEF LoadInv, LoadTypeOK, Main, NoFile
<1>4. /\ pc' \in {"main", "entries", "done"} /\ entries' \in Seq(Names)
      /\ closed => entries' = entries
  BY <1>1, <1>2, <1>3 DEF LoadInv, LoadTypeOK
<1>5. LoadTypeOK' /\ Sound' /\ Held' /\ Reported'
  BY <1>1, <1>4, LoadsKeepPool
<1>6. /\ fed' = fed /\ wpc' = wpc /\ out' = out /\ closed' = closed
      /\ discovered' = discovered /\ input' = input /\ outcome' = outcome
  BY <1>1 DEF poolVars
<1>7. Stages'
  BY <1>1, <1>2, <1>6 DEF LoadInv, Stages, PoolRan, Begun
<1>8. DiscoveredIsTruth
  BY TruthWhenEnded
<1>9. GatesFollowDiscovery' /\ InlineSectionIgnored'
  <2>1. CASE pc' # "done" \/ error' # "none"
    BY <2>1 DEF GatesFollowDiscovery, InlineSectionIgnored
  <2>2. CASE pc' = "done" /\ error' = "none"
    <3>1. /\ ~LoadFails(Main, discovered, FALSE) /\ input.format # "discovery"
          /\ entries' = entries /\ loaded' = Tests(Main, discovered)
      BY <1>2, <2>2
    <3>2. Main = input.main
      BY <3>1, LoadedIsMain
    <3>3. \A g \in input.main.gates : g \in DOMAIN Discovered(discovered)
      BY <3>1, <3>2 DEF LoadFails
    <3>4. closed => /\ DOMAIN discovered = {entries[i] : i \in DOMAIN entries}
                    /\ \A i \in DOMAIN entries : discovered[entries[i]] <=> outcome[i] # "fail"
      BY <1>1, <1>8 DEF DiscoveredIsTruth, PoolRan
    <3>5. GatesFollowDiscovery'
      <4> SUFFICES ASSUME closed, ~input.hasInline, NEW i \in DOMAIN entries,
                          entries[i] \in input.main.gates
                   PROVE  entries[i] \in loaded' <=> outcome[i] # "fail"
        BY <1>6, <3>1 DEF GatesFollowDiscovery, PoolRan
      <4>1. entries[i] \in DOMAIN discovered
        BY <3>4
      <4>2. entries[i] \in DOMAIN Discovered(discovered)
            /\ Discovered(discovered)[entries[i]] = discovered[entries[i]]
        BY <4>1, TemplateSees
      <4>3. entries[i] # Always
        BY InputTypes, LoadAssumption DEF LoadInv, LoadTypeOK
      <4>4. entries[i] \in loaded' <=> Discovered(discovered)[entries[i]]
        BY <3>1, <3>2, <4>2, <4>3 DEF Tests
      <4> QED
        BY <3>4, <4>2, <4>4
    <3>6. InlineSectionIgnored'
      <4> SUFFICES ASSUME input.hasDiscover, ~input.hasInline, NEW g \in input.main.gates
                   PROVE  (\E i \in DOMAIN entries : entries[i] = g) \/ g \in DOMAIN input.vars
        BY <1>6, <3>1 DEF InlineSectionIgnored
      <4>1. closed
        BY <1>1, <3>1
      <4>2. g \in DOMAIN discovered \/ g \in DOMAIN input.vars
        BY <3>3, TemplateSees
      <4> QED
        BY <3>4, <4>1, <4>2
    <3> QED
      BY <3>5, <3>6
  <2> QED
    BY <2>1, <2>2
<1> QED
  BY <1>5, <1>7, <1>9 DEF LoadInv

-----------------------------------------------------------------------------
(* The pool.                                                               *)

\* While the pool is on its way nothing has been loaded.
LEMMA NotYetLoaded == ASSUME pc' # "done" PROVE GatesFollowDiscovery' /\ InlineSectionIgnored'
BY DEF GatesFollowDiscovery, InlineSectionIgnored

\* The pool starts on entries with distinct registers, none of which is missing.
LEMMA CheckEntriesKeeps == LoadInv /\ CheckEntries => LoadInv'
<1> SUFFICES ASSUME LoadInv, CheckEntries PROVE LoadInv'
  OBVIOUS
<1>1. /\ pc = "entries" /\ ~closed /\ ~Begun
      /\ input' = input /\ entries' = entries /\ fed' = fed /\ wpc' = wpc /\ item' = item
      /\ out' = out /\ closed' = closed /\ discovered' = discovered
  BY DEF CheckEntries, LoadInv, Stages, Begun
<1>2. /\ fed = 0 /\ out = <<>> /\ DOMAIN discovered = {} /\ Len(out) = 0
      /\ \A w \in Workers : wpc[w] = "recv"
  BY <1>1 DEF LoadInv, Stages
<1>3. DOMAIN entries = 1..Len(entries) /\ Len(entries) \in Nat
  BY EntryTypes DEF LoadInv
<1>4. CASE pc' = "done" /\ error' = "entries"
  <2>1. ~Begun'
    BY <1>1, <1>4 DEF Begun
  <2>2. LoadTypeOK'
    BY <1>1, <1>4 DEF LoadInv, LoadTypeOK
  <2>3. Stages'
    BY <1>1, <1>2, <1>4 DEF Stages, PoolRan, Begun
  <2>4. Sound' /\ Held' /\ Reported'
    BY <1>1, <1>2, <2>1 DEF Sound, Held, Reported
  <2>5. GatesFollowDiscovery' /\ InlineSectionIgnored'
    BY <1>4 DEF GatesFollowDiscovery, InlineSectionIgnored
  <2> QED
    BY <2>2, <2>3, <2>4, <2>5 DEF LoadInv
<1>5. CASE /\ ~BadEntries /\ pc' = "pool"
           /\ outcome' = [i \in DOMAIN entries |-> "none"]
  <2>1. LoadTypeOK'
    BY <1>1, <1>5 DEF LoadInv, LoadTypeOK
  <2>2. Stages'
    BY <1>1, <1>2, <1>5 DEF Stages, PoolRan, Begun
  <2>3. \A i \in 1..Len(entries) : entries[i] \in Registers
    BY <1>3, <1>5 DEF BadEntries, LoadInv, LoadTypeOK, Names
  <2>4. Sound'
    BY <1>1, <1>3, <1>5, <2>3 DEF BadEntries, Sound
  <2>5. Held'
    BY <1>1, <1>2, <1>3, <1>5 DEF Held
  <2>6. Reported'
    BY <1>1, <1>2, <1>3, <1>5 DEF Reported
  <2> QED
    BY <1>5, <2>1, <2>2, <2>4, <2>5, <2>6, NotYetLoaded DEF LoadInv
<1> QED
  BY <1>4, <1>5 DEF CheckEntries, Fail

\* A worker takes the next entry.
LEMMA ReceiveKeeps == ASSUME LoadInv, NEW w \in Workers, Receive(w) PROVE LoadInv'
<1>1. /\ pc = "pool" /\ pc' = "pool" /\ wpc[w] = "recv" /\ fed < Len(entries) /\ fed' = fed + 1
      /\ input' = input /\ entries' = entries /\ out' = out /\ closed' = closed
      /\ outcome' = outcome /\ discovered' = discovered
  BY DEF Receive
<1>2. /\ wpc' \in [Workers -> {"recv", "validate", "exit"}] /\ item' \in [Workers -> Nat]
      /\ wpc'[w] = "validate" /\ item'[w] = fed + 1
      /\ \A v \in Workers : v # w => wpc'[v] = wpc[v] /\ item'[v] = item[v]
  BY DEF Receive, LoadInv, LoadTypeOK
<1>3. ~closed /\ Begun /\ Begun'
  BY <1>1 DEF LoadInv, Stages, Begun
<1>4. Len(entries) \in Nat /\ fed \in Nat /\ fed + 1 \in 1..Len(entries)
  BY <1>1, EntryTypes DEF LoadInv, LoadTypeOK
<1>5. LoadTypeOK'
  BY <1>1, <1>2, <1>4 DEF LoadInv, LoadTypeOK
<1>6. Stages'
  BY <1>1, <1>3 DEF Stages, PoolRan
<1>7. Sound'
  BY <1>1, <1>3 DEF LoadInv, Sound
<1>8. Held'
  <2>1. outcome[fed + 1] = "none" /\ \A v \in Workers : wpc[v] = "validate" => item[v] # fed + 1
    BY <1>3, <1>4, <1>2 DEF LoadInv, Held, LoadTypeOK
  <2>2. \A v \in Workers : wpc'[v] = "validate" =>
           item'[v] \in 1..Len(entries) /\ item'[v] <= fed + 1 /\ outcome[item'[v]] = "none"
    BY <1>2, <1>4, <2>1 DEF LoadInv, Held, LoadTypeOK
  <2>3. \A v, u \in Workers :
           (wpc'[v] = "validate" /\ wpc'[u] = "validate" /\ item'[v] = item'[u]) => v = u
    BY <1>2, <2>1 DEF LoadInv, Held
  <2>4. \A i \in 1..Len(entries) :
           /\ i > fed + 1 => outcome[i] = "none"
           /\ (i <= fed + 1 /\ outcome[i] = "none") =>
                 \E v \in Workers : wpc'[v] = "validate" /\ item'[v] = i
    <3> SUFFICES ASSUME NEW i \in 1..Len(entries)
                 PROVE  /\ i > fed + 1 => outcome[i] = "none"
                        /\ (i <= fed + 1 /\ outcome[i] = "none") =>
                              \E v \in Workers : wpc'[v] = "validate" /\ item'[v] = i
      OBVIOUS
    <3>1. CASE i > fed
      BY <1>2, <1>3, <1>4, <3>1 DEF LoadInv, Held
    <3>2. CASE i <= fed
      <4>1. outcome[i] = "none" => \E v \in Workers : wpc[v] = "validate" /\ item[v] = i
        BY <1>3, <3>2 DEF LoadInv, Held
      <4>2. outcome[i] = "none" => \E v \in Workers : wpc'[v] = "validate" /\ item'[v] = i
        BY <1>1, <1>2, <4>1
      <4> QED
        BY <1>4, <3>2, <4>2
    <3> QED
      BY <1>4, <3>1, <3>2
  <2>5. \A v \in Workers : wpc'[v] # "exit"
    BY <1>1, <1>2 DEF LoadInv, Held, LoadTypeOK
  <2> QED
    BY <1>1, <1>4, <2>2, <2>3, <2>4, <2>5 DEF Held
<1>9. Reported'
  BY <1>1, <1>3, ReportedStays DEF LoadInv
<1> QED
  BY <1>1, <1>5, <1>6, <1>7, <1>8, <1>9, NotYetLoaded DEF LoadInv

\* A worker leaves when every entry has been fed.
LEMMA ExitKeeps == ASSUME LoadInv, NEW w \in Workers, Exit(w) PROVE LoadInv'
<1>1. /\ pc = "pool" /\ pc' = "pool" /\ wpc[w] = "recv" /\ fed = Len(entries) /\ fed' = fed
      /\ input' = input /\ entries' = entries /\ out' = out /\ closed' = closed /\ item' = item
      /\ outcome' = outcome /\ discovered' = discovered
  BY DEF Exit
<1>2. /\ wpc' \in [Workers -> {"recv", "validate", "exit"}]
      /\ wpc'[w] = "exit" /\ \A v \in Workers : v # w => wpc'[v] = wpc[v]
  BY DEF Exit, LoadInv, LoadTypeOK
<1>3. ~closed /\ Begun /\ Begun'
  BY <1>1 DEF LoadInv, Stages, Begun
<1>4. LoadTypeOK'
  BY <1>1, <1>2 DEF LoadInv, LoadTypeOK
<1>5. Stages'
  BY <1>1, <1>3 DEF Stages, PoolRan
<1>6. Sound'
  BY <1>1, <1>3 DEF LoadInv, Sound
<1>7. \A v \in Workers : wpc'[v] = "validate" <=> wpc[v] = "validate"
  BY <1>1, <1>2
<1>8. Held'
  BY <1>1, <1>3, <1>7 DEF LoadInv, Held
<1>9. Reported'
  BY <1>1, <1>3, ReportedStays DEF LoadInv
<1> QED
  BY <1>1, <1>4, <1>5, <1>6, <1>8, <1>9, NotYetLoaded DEF LoadInv

\* The channel is closed when every worker has left.
LEMMA CloseOutKeeps == ASSUME LoadInv, CloseOut PROVE LoadInv'
<1>1. /\ pc = "pool" /\ pc' = "pool" /\ closed' = TRUE /\ \A w \in Workers : wpc[w] = "exit"
      /\ input' = input /\ entries' = entries /\ out' = out /\ item' = item /\ fed' = fed
      /\ outcome' = outcome /\ discovered' = discovered /\ wpc' = wpc
  BY DEF CloseOut
<1>2. Begun /\ Begun'
  BY <1>1 DEF Begun
<1>3. LoadTypeOK'
  BY <1>1 DEF LoadInv, LoadTypeOK
<1>4. Stages'
  BY <1>1, <1>2 DEF Stages, PoolRan
<1>5. Sound' /\ Held'
  BY <1>1, <1>2 DEF LoadInv, Sound, Held
<1>6. Reported'
  BY <1>1, <1>2, ReportedStays DEF LoadInv
<1> QED
  BY <1>1, <1>3, <1>4, <1>5, <1>6, NotYetLoaded DEF LoadInv

\* The caller goes on to the load that is left.
LEMMA PoolDoneKeeps == ASSUME LoadInv, PoolDone PROVE LoadInv'
<1>1. /\ pc = "pool" /\ closed /\ out = <<>>
      /\ input' = input /\ entries' = entries /\ error' = error
      /\ fed' = fed /\ wpc' = wpc /\ item' = item /\ out' = out /\ closed' = closed
      /\ outcome' = outcome /\ discovered' = discovered
  BY DEF PoolDone, poolVars
<1>2. \/ pc' = "done" /\ input.format = "discovery"
      \/ pc' = "peek" /\ input.format # "discovery" /\ input.hasDiscover
      \/ pc' = "main" /\ input.format # "discovery" /\ ~input.hasDiscover
  <2>1. CASE input.format = "discovery"
    BY <2>1 DEF PoolDone
  <2>2. CASE input.format # "discovery" /\ input.hasDiscover
    BY <2>2 DEF PoolDone
  <2>3. CASE input.format # "discovery" /\ ~input.hasDiscover
    BY <2>3 DEF PoolDone
  <2> QED
    BY <2>1, <2>2, <2>3
<1>3. Begun /\ Begun'
  BY <1>1 DEF Begun
<1>4. LoadTypeOK'
  BY <1>1, <1>2 DEF LoadInv, LoadTypeOK
<1>5. \A w \in Workers : wpc[w] = "exit"
  BY <1>1 DEF LoadInv, Stages
<1>6. Stages'
  BY <1>1, <1>2, <1>3, <1>5 DEF Stages, PoolRan
<1>7. Sound' /\ Held'
  BY <1>1, <1>3 DEF LoadInv, Sound, Held
<1>8. Reported'
  BY <1>1, <1>3, ReportedStays DEF LoadInv
<1>9. GatesFollowDiscovery' /\ InlineSectionIgnored'
  BY <1>1, <1>2 DEF GatesFollowDiscovery, InlineSectionIgnored
<1> QED
  BY <1>4, <1>6, <1>7, <1>8, <1>9 DEF LoadInv

\* A worker sends what the validation of its entry came to.
LEMMA ValidateKeeps ==
    ASSUME LoadInv, NEW w \in Workers, NEW result \in Outcomes, Validate(w, result) PROVE LoadInv'
<1> DEFINE m == [register |-> entries[item[w]], passed |-> result # "fail"]
<1>1. /\ wpc[w] = "validate" /\ pc = "pool" /\ pc' = "pool" /\ out' = Append(out, m)
      /\ outcome' = [outcome EXCEPT ![item[w]] = result]
      /\ input' = input /\ entries' = entries /\ closed' = closed /\ item' = item /\ fed' = fed
      /\ discovered' = discovered
  BY DEF Validate, LoadInv, Stages
<1>2. /\ wpc' \in [Workers -> {"recv", "validate", "exit"}]
      /\ wpc'[w] = "recv" /\ \A v \in Workers : v # w => wpc'[v] = wpc[v]
  BY DEF Validate, LoadInv, LoadTypeOK
<1>3. ~closed /\ Begun /\ Begun'
  BY <1>1 DEF LoadInv, Stages, Begun
<1>4. Len(entries) \in Nat /\ Len(out) \in Nat
  BY EntryTypes DEF LoadInv
<1>5. item[w] \in 1..Len(entries) /\ item[w] <= fed /\ outcome[item[w]] = "none"
  BY <1>1 DEF LoadInv, Held
<1>6. outcome \in [1..Len(entries) -> Outcomes \cup {"none"}]
  BY <1>3 DEF LoadInv, Sound
<1>7. /\ outcome' \in [1..Len(entries) -> Outcomes \cup {"none"}]
      /\ outcome'[item[w]] = result /\ result # "none"
      /\ \A i \in 1..Len(entries) : i # item[w] => outcome'[i] = outcome[i]
  BY <1>1, <1>5, <1>6 DEF Outcomes
<1>8. m \in Messages
  BY <1>5 DEF LoadInv, LoadTypeOK, Messages
<1>9. m.register = entries[item[w]] /\ (m.passed <=> result # "fail")
  OBVIOUS
<1> HIDE DEF m
<1>10. out' \in Seq(Messages) /\ Len(out') = Len(out) + 1 /\ out'[Len(out) + 1] = m
       /\ \A k \in 1..Len(out) : out'[k] = out[k]
  BY <1>1, <1>4, <1>8 DEF LoadInv, LoadTypeOK
<1>11. LoadTypeOK'
  BY <1>1, <1>2, <1>10 DEF LoadInv, LoadTypeOK
<1>12. Stages'
  BY <1>1, <1>3 DEF Stages, PoolRan
<1>13. Sound'
  BY <1>1, <1>3, <1>7 DEF LoadInv, Sound
<1>14. Held'
  <2>1. \A v \in Workers : wpc'[v] = "validate" => v # w /\ wpc[v] = "validate" /\ item[v] # item[w]
    BY <1>1, <1>2 DEF LoadInv, Held
  <2>2. \A v \in Workers : wpc'[v] = "validate" =>
           item[v] \in 1..Len(entries) /\ item[v] <= fed /\ outcome'[item[v]] = "none"
    BY <1>7, <2>1 DEF LoadInv, Held
  <2>3. \A i \in 1..Len(entries) :
           /\ i > fed => outcome'[i] = "none"
           /\ (i <= fed /\ outcome'[i] = "none") =>
                 \E v \in Workers : wpc'[v] = "validate" /\ item[v] = i
    <3> SUFFICES ASSUME NEW i \in 1..Len(entries)
                 PROVE  /\ i > fed => outcome'[i] = "none"
                        /\ (i <= fed /\ outcome'[i] = "none") =>
                              \E v \in Workers : wpc'[v] = "validate" /\ item[v] = i
      OBVIOUS
    <3>1. CASE i = item[w]
      BY <1>5, <1>7, <3>1 DEF LoadInv, LoadTypeOK
    <3>2. CASE i # item[w]
      <4>1. outcome'[i] = outcome[i]
        BY <1>7, <3>2
      <4>2. i > fed => outcome[i] = "none"
        BY <1>3 DEF LoadInv, Held
      <4>3. ASSUME i <= fed, outcome[i] = "none"
            PROVE  \E v \in Workers : wpc'[v] = "validate" /\ item[v] = i
        <5>1. PICK v \in Workers : wpc[v] = "validate" /\ item[v] = i
          BY <1>3, <4>3 DEF LoadInv, Held
        <5> QED
          BY <1>2, <3>2, <5>1
      <4> QED
        BY <4>1, <4>2, <4>3
    <3> QED
      BY <3>1, <3>2
  <2>4. \A v \in Workers : wpc'[v] = "exit" => fed = Len(entries)
    BY <1>2 DEF LoadInv, Held
  <2>5. fed <= Len(entries)
    BY <1>3 DEF LoadInv, Held
  <2>6. \A v, u \in Workers :
           (wpc'[v] = "validate" /\ wpc'[u] = "validate" /\ item[v] = item[u]) => v = u
    BY <2>1 DEF LoadInv, Held
  <2> QED
    BY <1>1, <2>2, <2>3, <2>4, <2>5, <2>6 DEF Held
<1>15. Reported'
  <2> DEFINE Later(g, p) == \E i \in 1..Len(entries) :
                               /\ entries[i] = g /\ outcome'[i] # "none"
                               /\ p <=> outcome'[i] # "fail"
  <2>1. \A g, p : Says(g, p) => Later(g, p)
    <3> SUFFICES ASSUME NEW g, NEW p, Says(g, p) PROVE Later(g, p)
      OBVIOUS
    <3>1. PICK i \in 1..Len(entries) : /\ entries[i] = g /\ outcome[i] # "none"
                                       /\ p <=> outcome[i] # "fail"
      BY DEF Says
    <3>2. outcome'[i] = outcome[i]
      BY <1>5, <1>7, <3>1
    <3> QED
      BY <3>1, <3>2
  <2>2. Later(m.register, m.passed)
    BY <1>5, <1>7, <1>9
  <2> HIDE DEF Later
  <2>3. \A k \in 1..Len(out') : Later(out'[k].register, out'[k].passed)
    <3> SUFFICES ASSUME NEW k \in 1..Len(out') PROVE Later(out'[k].register, out'[k].passed)
      OBVIOUS
    <3>1. CASE k = Len(out) + 1
      BY <1>10, <2>2, <3>1
    <3>2. CASE k \in 1..Len(out)
      BY <1>10, <2>1, <3>2 DEF LoadInv, Reported
    <3> QED
      BY <1>4, <1>10, <3>1, <3>2
  <2>4. \A g \in DOMAIN discovered : Later(g, discovered[g])
    BY <2>1 DEF LoadInv, Reported
  <2>5. \A i \in 1..Len(entries) : outcome'[i] # "none" =>
           \/ entries[i] \in DOMAIN discovered
           \/ \E k \in 1..Len(out') : out'[k].register = entries[i]
    <3> SUFFICES ASSUME NEW i \in 1..Len(entries), outcome'[i] # "none",
                        entries[i] \notin DOMAIN discovered
                 PROVE  \E k \in 1..Len(out') : out'[k].register = entries[i]
      OBVIOUS
    <3>1. CASE i = item[w]
      BY <1>4, <1>9, <1>10, <3>1
    <3>2. CASE i # item[w]
      <4>1. PICK k \in 1..Len(out) : out[k].register = entries[i]
        BY <1>3, <1>7, <3>2 DEF LoadInv, Reported
      <4> QED
        BY <1>4, <1>10, <4>1
    <3> QED
      BY <3>1, <3>2
  <2> QED
    BY <1>1, <2>3, <2>4, <2>5 DEF Reported, Says, Later
<1> QED
  BY <1>1, <1>11, <1>12, <1>13, <1>14, <1>15, NotYetLoaded DEF LoadInv

\* The caller enters the next result in the map.
LEMMA CollectKeeps == ASSUME LoadInv, Collect PROVE LoadInv'
<1> DEFINE r == Head(out).register
           p == Head(out).passed
<1>1. /\ pc = "pool" /\ pc' = "pool" /\ out # <<>> /\ out' = Tail(out)
      /\ input' = input /\ entries' = entries /\ closed' = closed /\ item' = item /\ fed' = fed
      /\ wpc' = wpc /\ outcome' = outcome
      /\ discovered' = Over([g \in {r} |-> p], discovered)
  BY DEF Collect
<1>2. Begun /\ Begun'
  BY <1>1 DEF Begun
<1>3. /\ out \in Seq(Messages) /\ Len(out) \in Nat /\ Len(out) >= 1
      /\ r = out[1].register /\ p = out[1].passed
      /\ out' \in Seq(Messages) /\ Len(out') = Len(out) - 1
      /\ \A k \in 1..Len(out') : out'[k] = out[k + 1]
  BY <1>1 DEF LoadInv, LoadTypeOK
<1>4. /\ DOMAIN discovered' = {r} \cup DOMAIN discovered /\ discovered'[r] = p
      /\ \A g \in DOMAIN discovered : g # r => discovered'[g] = discovered[g]
  BY <1>1 DEF Over
<1>5. LoadTypeOK'
  BY <1>1, <1>3 DEF LoadInv, LoadTypeOK
<1>6. Stages'
  BY <1>1, <1>2 DEF LoadInv, Stages, PoolRan
<1>7. Sound' /\ Held'
  BY <1>1, <1>2 DEF LoadInv, Sound, Held
<1>8. \A g, q : Says(g, q)' <=> Says(g, q)
  BY <1>1 DEF Says
<1>9. \A k \in 1..Len(out) : Says(out[k].register, out[k].passed)
  BY DEF LoadInv, Reported
<1> HIDE DEF r, p
<1>10. Reported'
  <2>1. \A k \in 1..Len(out') : Says(out'[k].register, out'[k].passed)
    BY <1>3, <1>9
  <2>2. \A g \in DOMAIN discovered' : Says(g, discovered'[g])
    BY <1>3, <1>4, <1>9 DEF LoadInv, Reported
  <2>3. \A i \in 1..Len(entries) : outcome[i] # "none" =>
           \/ entries[i] \in DOMAIN discovered'
           \/ \E k \in 1..Len(out') : out'[k].register = entries[i]
    <3> SUFFICES ASSUME NEW i \in 1..Len(entries), outcome[i] # "none",
                        entries[i] \notin DOMAIN discovered'
                 PROVE  \E k \in 1..Len(out') : out'[k].register = entries[i]
      OBVIOUS
    <3>1. PICK k \in 1..Len(out) : out[k].register = entries[i]
      BY <1>2, <1>4 DEF LoadInv, Reported
    <3>2. k # 1
      BY <1>3, <1>4, <3>1
    <3>3. k - 1 \in 1..Len(out') /\ (k - 1) + 1 = k
      BY <1>3, <3>2
    <3> QED
      BY <1>3, <3>1, <3>3
  <2> QED
    BY <1>1, <1>8, <2>1, <2>2, <2>3 DEF Reported
<1> QED
  BY <1>1, <1>5, <1>6, <1>7, <1>10, NotYetLoaded DEF LoadInv

-----------------------------------------------------------------------------
(* The theorems.                                                           *)

\* Every step keeps the invariant.
LEMMA LoadInductive == LoadInv /\ [Next]_vars => LoadInv'
<1> SUFFICES ASSUME LoadInv, [Next]_vars PROVE LoadInv'
  OBVIOUS
<1>1. CASE Caller
  BY <1>1, LoadDiscoverKeeps, PeekMainKeeps, LoadMainKeeps, CheckEntriesKeeps, CollectKeeps,
     PoolDoneKeeps DEF Caller
<1>2. CASE CloseOut
  BY <1>2, CloseOutKeeps
<1>3. CASE \E w \in Workers : Worker(w)
  BY <1>3, ReceiveKeeps, ExitKeeps, ValidateKeeps DEF Worker
<1>4. CASE UNCHANGED vars
  <2>1. /\ input' = input /\ pc' = pc /\ entries' = entries /\ fed' = fed /\ wpc' = wpc
        /\ item' = item /\ out' = out /\ closed' = closed /\ outcome' = outcome
        /\ discovered' = discovered /\ loaded' = loaded /\ error' = error
    BY <1>4 DEF vars, poolVars
  <2>2. LoadTypeOK' /\ Stages' /\ Sound' /\ Held'
    BY <2>1 DEF LoadInv, LoadTypeOK, Stages, Sound, Held, Begun, PoolRan
  <2>3. Reported'
    BY <2>1, ReportedStays DEF LoadInv, Begun
  <2>4. GatesFollowDiscovery' /\ InlineSectionIgnored'
    BY <2>1 DEF LoadInv, GatesFollowDiscovery, InlineSectionIgnored, PoolRan
  <2> QED
    BY <2>2, <2>3, <2>4 DEF LoadInv
<1> QED
  BY <1>1, <1>2, <1>3, <1>4 DEF Next, Done

\* The loads and the discovery pool keep the inductive invariant, whatever the
\* gossfiles, the registers and --max-concurrent.
THEOREM LoadInvariance == Spec => []LoadInv
<1>1. Init /\ [][Next]_vars => []LoadInv
  BY LoadInitial, LoadInductive, PTL
<1> QED
  BY <1>1, PTL DEF Spec

\* The map discovery_validate.go returns has exactly the registers of the
\* section, each true unless its resource failed, for any number of workers
\* and any order of results.
THEOREM LoadDiscoversTruth == Spec => []DiscoveredIsTruth
BY LoadInvariance, TruthWhenEnded, PTL

\* The tests of a configuration that loadGossConfigWithDiscover returns are the
\* ones its discovery asked for.
THEOREM LoadGatesFollow == Spec => []GatesFollowDiscovery
<1>1. LoadInv => GatesFollowDiscovery
  BY DEF LoadInv
<1> QED
  BY <1>1, LoadInvariance, PTL

\* With --discover no register of the inline section decides about a test.
THEOREM LoadIgnoresInlineSection == Spec => []InlineSectionIgnored
<1>1. LoadInv => InlineSectionIgnored
  BY DEF LoadInv
<1> QED
  BY <1>1, LoadInvariance, PTL
=============================================================================
