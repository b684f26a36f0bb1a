# A TLA+ verification of goss

goss reads a *gossfile* (resources and what is expected of them), queries the
system, and reports. The queries run concurrently, may be gated by a discovery
phase, ordered by `depends-on`, retried until a timeout, or served over HTTP.
This directory models that control logic in TLA+, checks it with TLC on small
instances, and proves the central parts with TLAPS for every size.

## Inventory

| Part | State | Operations | Interacts with | What is hard | What makes it correct |
|---|---|---|---|---|---|
| Schedule construction (`buildSchedule`, `resolveDependencyRef`, `detectDependencyCycles`) | index, references by key, the colours of the depth-first search | index, resolve, visit | its result feeds the scheduler | map iteration order, recursion, two syntaxes of references | accepts exactly the well-formed acyclic gossfiles |
| Dependency scheduler (`validateWithDependencies`) | `pending`, `runnable`, the maps `status` and `completed`, the channels `work` and `out` | scan, start and end of a wave, feed, validate, assign, send, give up | takes a schedule, calls `Validate`, its channel is read by an outputer or `serve` | unsynchronized maps, waves, early way out | prerequisites first, exactly the right resources skipped, every result exactly once, the run ends |
| Parallel pool (`validateParallel`) | channels `in` and `out`, WaitGroup | feed, validate, send, close | as above | three kinds of goroutines waiting for each other; a worker count of zero | the same contract of a run |
| Loading and discovery (`loadGossConfigWithDiscover`, `validateDiscovery`) | template variables, the map `discovered`, what has been read from pipes | load, peek, discover, load again | decides which resources the run has | up to three loads, an unordered pool, readers that can be read once | gated tests follow the discovery results of the section in use |
| Retry loop (`ValidateConfig`) | attempt, start time, `system.System` with its caches | attempt, judge, sleep, return | runs the scheduler or the pool, asks an outputer for the exit code | stale caches, time limits | exit code of the last attempt, current results, kept timeout |
| Outputers (`outputs/`) | counters; prometheus: a global registry | range over the results | consume the channel of a run | order of arrival, concurrent requests | exit code says whether a test failed |
| Health endpoint (`serve.go`) | result cache with expiry, one handler per request | negotiate, look up, run, store, answer | runs the tests, uses outputers | stampede on an expired cache, older results replacing newer ones | bounded age of answers, right status, no request left waiting |
| System queries (`system/`) | `sync.Once` snapshots per `System`, the memory of each query object | getters, queries with a timer and a goroutine | called by `Validate` and by `add` | late answers, errors seen by one caller only, tools that are not installed | absence is never read as presence, a timeout fails, no worker waits for ever |
| Resources (`resource/`) | the recorded attributes | `New…`, `Validate` of each type | getters below, matchers beside, the maps above | skip rules, errors dropped on recording | what was recorded passes where it was recorded |
| Matchers (`matchers/`, `gomega.go`) | the tree, and what `Match` leaves in it for the report | build, match, report | called by `Validate` | errors below `not` and `or`, reports of matchers that were never tried, map order | no error becomes a pass, but for the elements of a list; a failure is reported |
| Store (`store.go`, `goss_config.go`) | gossfile on disk | include, merge, read, write | loading, `add` | include cycles, overwriting, a crash in the middle of a write | merging ends and the last file wins |
| Adding (`add.go`, resource maps) | the gossfile in memory | `add`, `autoadd` | getters, store | overlapping commands, edits, one failing query of many | only a cut write damages the file, only an overlap or a damaged file loses a test, exactly what was asked is recorded |
| Command line, configuration, logs | none of their own | | | | not modelled: constants of the models |

`PROJECT.json` lists the same parts with their files, the hazards of the code
at their lines, and the lines behind every definition.

## Modules

- **`TestRun`** – abstract specification of a run as the reader of its channel
  sees it: each resource delivers one group of results, the channel is closed
  after the last one, and the process may die.
- **`DependencyGraph`** – the resources `1..N` and what an acyclic family of
  dependency lists is (there is a ranking).
- **`BuildSchedule`** – `buildSchedule`. One action per loop iteration; the
  recursive closure `visit` is an explicit `stack` of activations with the
  position `next` of each in its list. A string is the sequence of its
  colon-separated segments, which is all that references depend on. The range
  over the map `byRef` may yield its elements in any order.
- **`Scheduler`** – the goroutine of `validateWithDependencies`, the feeder and
  the workers of each wave. A resource is its position in the schedule; slices
  are sets read in increasing order. `Validate` is abstracted to the three
  outcomes that the code tells apart. The assignments of the workers to
  `status` and `completed` are not atomic: reaching an assignment opens a
  window, leaving it closes it, and when two windows on one map overlap an
  assignment may be lost or the runtime may stop the process (`Fatal`).
  `raced` remembers an overlap.
- **`Parallel`** – `validateParallel`. Both it and `Scheduler` are shown to
  implement `TestRun` (`RunContract`).
- **`Load`** – `loadGossConfigWithDiscover` with the discovery pool. A gossfile
  is reduced to its discovery registers, the registers that gate tests and
  whether it has an ungated test; reading a pipe drains it. Variables from
  files, `--vars-inline` and discovery are combined as in `store.go`.
- **`Outputs`** – exit codes and the run outcome of prometheus as operators.
- **`Retry`** – `ValidateConfig` in a world that changes on its own. The
  `System` is modelled at its worst: everything a first query read is cached.
- **`Serve`** – concurrent requests of the health endpoint. The cache is
  go-cache, external: an item is found until its expiry, and an expiration of
  zero means none.
- **`Pool`** – `Parallel` with what its workers wait for, in place of a
  `Validate` that just ends: the snapshots of `System` behind `sync.Once`
  (`ProcMap`, `Ports`) and the calls with two channels, a goroutine and a timer
  (`runCommand`, `getMount`, `DNSlookup` with its three attempts). It implements
  `TestRun` too.
- **`Getters`** – what every query of the `system` package answers, as a value
  and whether it erred, from a description of the host (what is installed, what
  exists, what can be read); the package and service managers of each platform
  and how one is chosen.
- **`Resources`** – for each type, the attributes that `New…` records from the
  getters and the results that `Validate` makes of them.
- **`Add`** – `goss add` and `goss autoadd` on one gossfile: read, query key by
  key, truncate, write. Several commands, a user who edits, commands that are
  killed or run out of disk. Truncating and writing are two steps, so a command
  may read a torn file: torn JSON does not parse, torn YAML may. A key may be
  given in another spelling than the one it is recorded under (`80` for
  `tcp:80`, a relative path), and the error of a command that never started or
  of a failed lookup may be lost in a `select` (`lost`). `by` remembers who
  touched the file last.
- **`Matchers`** – `matcherToGomegaMatcher`, `Match` of the tree (yes, no or
  error), and `FailureResult`, which is `TRUE` where it follows a nil. A value
  is its kind; a simple matcher is the kinds it takes and whether it holds. The
  matchers of elements and keys have matchers of their own below them, tried on
  what is in the list; how gomega assigns elements to them is external.
- **`HavePatterns`** – the syntax of patterns and the search line by line, and
  the five documented forms of a pattern as a reference of their own.
- **`Includes`** – `mergeJSONData`, and the same by walks through the includes.
- **`Algorithms`** – evaluates the three above and compares with references.
- **`MC…`** – constants for TLC.
- **`…Proofs`** – lemmas, theorems and proofs about the module of that name
  (`PoolProofs`: about `Parallel` and `Pool`).

Operators with an underscore (`MustSkip_FailOnly`) are mutants: the definition
after them with a plausible bug. They are used nowhere else; each property was
seen to fail when its mutant replaces the definition.

## Runs

| Run | Bounds | Shows |
|---|---|---|
| `scheduler` | 3 resources, 2 workers, all acyclic schedules with lists of up to 2 distinct entries, at least one dependency | order, skipping, contract, stability of verdicts, end of a run |
| `build_schedule` | 3 resources in 4 layouts of types and keys (equal keys, keys with colons, duplicates), lists of up to 2 entries, some malformed | accepts exactly the right gossfiles for every order of `byRef`, but for entries that are keys with a colon; terminates |
| `pool` | 3 resources in 4 suites of kinds, 2 workers, 3 lookups per name | contract, end of a run although commands and servers may never answer; a timeout is never a pass; a failed snapshot never shows presence |
| `load` | 2 registers, 2 workers, sections of up to 2 entries, all combinations of `--discover`, variables and pipes | discovery results are the truth and decide which tests exist |
| `retry` | timeouts 0, 1 and 5, sleeps 0 and 2, attempts of 1 to 2 ticks, oversleeping by 1; one world with an empty group, formats that count failures (not `documentation`, which panics on an empty group) | exit code, freshness, timeout, outcome counted, end |
| `serve` | 3 requests, cache time 1, runs of up to 1 tick, clock up to 3 | age of answers, status, no request left waiting |
| `add` | every type over every state of its host that the getters tell apart, with no and with all attributes excluded, errors kept or lost; one resource in two spellings; two overlapping commands on one file with and without a start; autoadd over 512 hosts | what is recorded, that it passes on the same host, what may damage the file, what may be lost |
| `algorithms` | expectations of up to 3 levels on 8 kinds of values; all patterns of up to 4 of 5 characters (no regular expressions with an escape in them) and lists of up to 2 of 12 patterns, on up to 2 of 8 lines; 3 gossfiles with up to 2 includes of up to 2 files, `MaxDepth` 4 for the 50 of the code | matchers, patterns and includes against reference definitions |

Three resources allow a chain, a fork, a join and an independent pair, so a
prerequisite can precede or follow its dependent and a wave can hold a related
and an unrelated resource. Two workers are the least with an overlap. Three
requests allow two overlapping runs and a reader of the one that stored last.
Two `add` commands allow both orders of read and write; the second key of one
lets it be half done when the other writes. A depth of 4 lets three files
include each other in a cycle and also in a chain that is still allowed. Three
levels put a matcher below a path below a `not`.

`RoundTrip` excludes the tests that `Unstable` names, each because the code
records something that its own validation then refuses; they are listed below.
`ReportsUnlessFragile`, `OrderOfPathsIrrelevant` and `PassesWhateverErred`
likewise name the shapes for which the code gives no guarantee.

### Where the code and its documentation disagree

Four runs end in a counterexample; `findings` in `PROJECT.json` quotes the lines.

- `scheduler_race`: two tests of a wave that end together are concurrent map
  writes, and the process may die. If it does not, an entry may be lost: a lost
  `FAIL` reads as `SUCCESS`, Go's zero value, so the dependents run; a lost
  `completed` leaves them "unsatisfied".
- `load_stdin`: the peek reads STDIN to its end, so `goss -g - validate` finds
  no tests. A variables file that is a pipe, as in `docs/gossfile.md:984`, is
  emptied in the same way.
- `add_absent`: the test that `goss add mount` writes for a mount point that is
  not mounted fails exactly while it is not mounted.
- `gjson_panic`: a missing path with an `and`, a `gjson` or a negated `or`
  below it dereferences a nil in the report, and the run dies.

Four more disagreements are in the models without a run of their own. The
property named with each says what the code does keep, and is silent where the
two part:

- `docs/gossfile.md:1087`: "References use the gossfile map key, or `type:key`
  when ambiguous across resource types." A map key with a colon in it (`tcp:22`)
  is taken for `type:key` and refused (`dependency_scheduler.go:55`).
  `AcceptsExactly` leaves gossfiles with such entries out (`Misread`), but for
  what an accepted schedule lists.
- `docs/cli.md:356` and `cmd/goss/goss.go:148`: "Retry on failure so long as
  elapsed + sleep time is less than this". At equality the code retries too
  (`validate.go:163`). `AttemptsStartInTime` only excludes a start after the
  timeout.
- `outputs/prometheus.go:117`: "The outcomes of this run as a whole.", and the
  cases "fail-skip" and "fail-success" of `outputs/prometheus_test.go` expect a
  failure followed by something else to be one; they have one group each. The
  first result of *each group* replaces what was counted before (line 65), so a
  failure in an earlier group is forgotten. `OutcomeCountsFailures` demands the
  failure only of the last group with a result in it.
- `docs/gossfile.md:671`: "`"\\!foo"` - escape sequence, check if any line
  contains `!string`". The exclamation mark is trimmed with the backslash
  (`matchers/have_patterns.go:166`), so a line with `foo` alone matches; a leading
  slash is lost in the same way, against line 669. `PatternsFoundExactly` lets
  such a text be found too often, never too seldom.

### Observations

Other things the models contain, on which the documentation is silent or vague:

- Scheduling: a prerequisite whose results were all *skipped* counts as passed
  (`resource/discovery_meta.go:23` says "must pass first"); a wave ends with its
  slowest resource, so undeclared dependencies are serialized as well; with
  `--max-concurrent 0` the pool without dependencies drops every test silently
  (the other two pools raise the count to one); the branch of the scan for completed resources is
  never taken.
- Discovery: an entry with `skip: true` registers as true although nothing was
  looked at (`docs/gossfile.md:1040`: "boolean values reflect actual system
  state").
- Endpoint and outputs: `--cache 0` means for ever; a gossfile that `serve`
  cannot schedule is answered with 200; `nagios` exits with 2 for failures
  (`docs/cli.md:317`), but with 3 as soon as there is a `--retry-timeout`, as
  every format does; `documentation` indexes the first result of a group and
  panics on an empty one (`outputs/documentation.go:34`).
- Queries: a command whose shell cannot be started fills both channels, and when
  `select` takes the wrong one its error is lost and `exit-status: 0` passes, or
  is recorded by `add`; the error of a name server can be lost likewise, and the
  name is then one without addresses;
  after a failed process listing only the first caller sees the error, and
  `running: false` passes for the others; a PTR answer with another record in it
  ends the process.
- Recording: a command that is killed, or meets a full disk, between the truncate
  and the write of `store.go:318` leaves a gossfile without its tests, and there
  is no copy; a port is recorded as not listening when the sockets cannot be
  read; `--exclude-attr stdout` records an empty output, which is then tested;
  the gid of a group is left out by excluding `stderr` (`resource/group.go`); a
  registry key that is not set, or of a type that is not supported, ends the
  command; `goss add` reads the file without templates and writes it back.
- Matchers: whether an `or`, or a `not`, over a `gjson` of several paths passes
  may depend on the order of a map when one of them cannot be read; a list of
  matchers takes an element that one of them cannot be tried on for one that does
  not match, so `not: [{gt: 5}]` passes on words
  (`testdata/matching_transformers.yaml:67` relies on the first half); an empty
  map in place of a matcher panics (`resource/gomega.go:45`); disabling the type
  `matching` has no effect, its `SetSkip` is empty.

## Fairness

The proofs use `Init /\ [][Next]_vars` alone. For liveness every goroutine is
weakly fair: Go's scheduler runs every goroutine that can run, and a channel
operation with a ready partner stays possible. That `Validate` returns is an
assumption (the queries have timeouts of their own or are system calls), and so
is a consumer that ranges over `out`, which all callers in the repository do.
`Fatal` is not fair: nothing makes the runtime detect a race. The retry loop is
fair, the world is not. In `Pool` the goroutines of the pool and the timers are
fair, the operations behind a timer are not: a command, a mount table or a name
server may never answer, and the run must end all the same. A snapshot behind
`sync.Once` is assumed to end, as reading `/proc` does, and so is the `statfs`
of a mount that was found (`system/mount.go:59`), which is outside the timer: on
a mount whose server is gone it may hang, and with it the run. `Add` has no
liveness. In `Serve` neither the clock nor the arrival of requests is fair.

## Proofs

`tlapm` checks every leaf; there are no axioms. The constants are arbitrary:
`N >= 1`, any number of CPUs, any integer for `--max-concurrent`, any set of
acyclic schedules, any gossfiles, any worlds, options, hosts and commands. What
is assumed of them is their shape, as the code's types give it, in one named
`ASSUME` per module, which TLC evaluates on the instances: a run is a sequence
of sequences of results (`ServeAssumption`, `RetryAssumption`), a dependency
list holds non-empty strings apart from the malformed ones
(`InputsAssumption`), a register is a name other than the missing one
(`LoadAssumption`), a file that is missing has no text, `add` is given one of
the sixteen types, the usual spelling of a key has no other, and what a command prints is nothing, blank lines only, or
lines of text (`ScenariosAssumption`).

None of the properties is inductive as it stands. The invariants that are:

- **`SchedulerProofs`** (`IInv`). `Places` and `Control` say that a resource
  waits in one slice, is held by one worker, or neither; `WaitingInv`,
  `HeldInv` and `DeliveredInv` say what has been done for it in each case
  (nothing; validated but not sent; delivered exactly once). This part holds
  with races and gives the refinement of `TestRun` and the stability of
  verdicts. `MapsInv` says that without a race the two maps agree with what was
  delivered, and `SkippedInv`, `BlockedInv` and `GivenUpInv` give the reason of
  every skip. That nothing is skipped in a healthy run needs acyclicity: of the
  skipped resources, one with the least rank has a prerequisite that failed.
- **`BuildScheduleProofs`**. The stack is a path in the graph and holds exactly
  the references in progress; a finished reference has only finished
  dependencies, with lower finishing ranks. So `finish` is the ranking that
  makes an accepted schedule acyclic, and a reference met in progress closes a
  path, which no ranking admits. `AcceptedSchedulesAreAcyclic` discharges the
  assumption on `Schedules` that `SchedulerProofs` uses. `ResolutionInv` says
  what the lists resolved so far hold and why resolving stopped; with the two
  results about cycles it gives `AcceptsExactly` in both directions; `Misread`
  names the entries for which the code and the documentation part.
- **`PoolProofs`**. For `Parallel`: where each resource is, as above; the
  refinement of `TestRun` needs at least one worker. For `Pool`:
  `PoolImplementsParallel` maps a worker that waits for a snapshot, a timer or
  a goroutine to one inside `Validate`, step by step, so the contract carries
  over. `PoolInv` says who is running each `sync.Once` and what its callers
  have seen, and what is in the two channels of a timed call; a call that timed
  out has left nothing that a late goroutine could turn into a pass.
- **`LoadProofs`** (`LoadInv`). `Stages` orders the loads and the pool;
  `Held` says that an entry is still to be fed, is held by one worker or has an
  outcome; `Reported` that whatever is in the channel or in the map is true of
  its entry, and that no outcome is in neither. A load that succeeds has not
  read an emptied STDIN, so the gates are those of the main gossfile.
- **`RetryProofs`** (`RetryInv`), **`ServeProofs`** (`ServeInv`). When the
  results in hand were read relative to the clock: for the retry loop, that a
  reset precedes every attempt; for the endpoint, that what the cache holds and
  what each request holds has an age that `--cache` and the length of a run
  bound, also where requests overwrite each other's results.
- **`OutputsProofs`** has the lemmas both need on what an outputer computes: a
  counter is zero exactly when nothing failed, and the outcome of prometheus is
  "fail" exactly when the last group with a result in it has a failure. The
  latter is a fold. That a function with the equations of the fold exists is
  shown by induction with sets (`UpTo`: the least number outside a set of
  numbers, from `WellFoundedInduction`), and so is what the loops over a group
  (`GroupLoop`) and over the groups (`RunLoop`) hold after each turn.
  `RetryOutcomeCountsFailures` follows from the type of `results`.
- **`AddProofs`** (`AddInv`). A whole file is what was last committed
  (`FileSays`), a torn one has a last writer that is still at it, was cut off or
  met another (`Damage`), what a command holds contains what it read, with its titles
  (`MemKeeps`), and it has recorded its keys up to the next one (`Progress`).
  `Recorded` says which resources those are and that each one is `Honest`:
  its attributes are what the constructor of its type makes of the host with
  the excluded attributes left out. The lemmas before it say of each operation
  of `resource_list.go` and `add.go` that it adds exactly its resources, makes
  them honest and loses none, up to `AutoAddRecords` for the whole chain of
  `autoadd`. An honest resource is still honest after later keys, because a
  second recording of the same one makes the same of the same host; where an
  error may be lost, it is honest of one of the two ways the query can end, and
  two spellings of one key are one resource (`IDType`, `PortSpelledOnce`).
  `AddRoundTrip` then needs that what is made passes (`MadePasses`): one lemma
  per way a constructor treats a first attribute that cannot be read (it always
  can, the command refuses, it is recorded all the same, there is no guard),
  with `dns`, `registry` and `command` on their own.
  `AddRunningWasAnswered` rests on `Said`: with any service manager a status
  of "running" without an error is an answer of a manager that is there.

The parts of each inductive invariant were checked with TLC before they were
proved.

Only model-checked:

- all liveness, which the prover does not do;
- the properties of `Algorithms`: `Matchers`, `HavePatterns` and `Includes` are
  written with `RECURSIVE` operators over trees, texts and include graphs,
  which the prover does not reason about.

## Not modelled

The texts the outputers write, the fields of a result beside its verdict, log
lines, flag parsing, the syntax of JSON and YAML, what a simple matcher computes
(gomega, regular expressions, semver), and the operating system behind the
queries. Within the modelled parts: `SetSkip` for disabled types (it only narrows
the outcomes of `Validate`), the template language beyond a gate on a register,
the prometheus registry as a variable that requests share, and bool or null
values below a path of `gjson`.

## Plan

Done: (1) `TestRun`, `BuildSchedule`, `Scheduler`, `Parallel` with proofs;
(2) `Load`, `Retry`, `Serve`, `Outputs`; (3) `Pool`, `Getters`, `Resources`,
`Add`, `Matchers`, `HavePatterns`, `Includes`.

Proved: every safety property of a run that passes, except those of
`Algorithms`.

Next: `Includes` and `HavePatterns` with their recursion as functions over
numbers (the depth of an include, the position in a text), as `OutputsProofs`
treats its fold; then `MergesByWalks` and `PatternsFoundExactly` could be
proved in the same way.
