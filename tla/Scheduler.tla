------------------------------ MODULE Scheduler ------------------------------
(***************************************************************************)
(* The dependency-aware test scheduler: the goroutine that                 *)
(* validateWithDependencies (dependency_scheduler.go) starts once          *)
(* buildSchedule has accepted the gossfile, with the feeder and the        *)
(* workers it starts for each wave.                                        *)
(*                                                                         *)
(* The schedule is a slice of N resources with distinct references, so a   *)
(* resource is its position in that slice; the slices pending, nextPending *)
(* and runnable are subsequences of it and are kept as sets that are read  *)
(* in increasing order.                                                    *)
(*                                                                         *)
(* The workers of a wave write the maps status and completed without a     *)
(* lock.  A map assignment is therefore a window (opened by the step that  *)
(* reaches the assignment, closed by the step that leaves it), and two     *)
(* open windows on the same map are a data race: Go's runtime may stop the *)
(* process ("concurrent map writes"), and otherwise either assignment may  *)
(* be lost.                                                                *)
(***************************************************************************)
EXTENDS DependencyGraph

CONSTANTS
    NumCPU,          \* runtime.NumCPU()
    MaxConcurrent,   \* --max-concurrent, any int
    Schedules        \* the dependency lists buildSchedule may return

ASSUME CPUAssumption == NumCPU \in Nat \ {0} /\ MaxConcurrent \in Int
\* What buildSchedule accepts: see BuildSchedule.
ASSUME SchedulesAssumption ==
    \A d \in Schedules : d \in [Resources -> Seq(Resources)] /\ Acyclic(d)

SUCCESS == "SUCCESS"
FAIL    == "FAIL"
SKIP    == "SKIP"

\* The classes of a group of results that the scheduler tells apart: what
\* Validate returned (no FAIL and not all skipped; some FAIL; all skipped),
\* and the two groups SkipResourceResults makes.
Outcomes == {"pass", "fail", "skipped"}
DependencyFailed == "dependency failed"
Unsatisfied == "unsatisfied dependency"
Groups == Outcomes \cup {DependencyFailed, Unsatisfied}

WorkerCount ==
    LET limited == IF NumCPU * 5 > MaxConcurrent THEN MaxConcurrent ELSE NumCPU * 5
    IN  IF limited < 1 THEN 1 ELSE limited

Workers == 1..WorkerCount

VARIABLES
    deps,          \* deps[r]: canonical dependencies of r, in gossfile order
    pc,            \* the scheduling goroutine: "scan", "wait", "giveup", "done"
    toScan,        \* the part of pending the scan has still to look at
    nextPending,   \* resources blocked in this scan
    runnable,      \* resources of this wave
    feed,          \* resources the feeder has still to send on work
    workClosed,    \* the feeder closed work
    wpc,           \* worker: "recv", "validate", "status", "completed", "send", "exit"
    item,          \* the resource a worker holds
    dirty,         \* the worker's open map window overlapped another one
    results,       \* what Validate returned for a resource, or "none"
    status,        \* the map status; a missing key reads as SUCCESS, Go's zero
    completed,     \* the map completed; a missing key reads as FALSE
    sent,          \* sent[r]: the groups of r the consumer received from out
    closed,        \* out is closed
    crashed,       \* the runtime stopped the process
    raced          \* history: some window overlapped another one

mainVars   == <<pc, toScan, nextPending, runnable>>
feedVars   == <<feed, workClosed>>
workerVars == <<wpc, item, dirty, results>>
mapVars    == <<status, completed>>
outVars    == <<sent, closed>>
vars == <<deps, mainVars, feedVars, workerVars, mapVars, outVars, crashed, raced>>

TypeOK ==
    /\ deps \in [Resources -> Seq(Resources)]
    /\ pc \in {"scan", "wait", "giveup", "done"}
    /\ toScan \subseteq Resources
    /\ nextPending \subseteq Resources
    /\ runnable \subseteq Resources
    /\ feed \subseteq Resources
    /\ workClosed \in BOOLEAN
    /\ wpc \in [Workers -> {"recv", "validate", "status", "completed", "send", "exit"}]
    /\ item \in [Workers -> Resources]
    /\ dirty \in [Workers -> BOOLEAN]
    /\ results \in [Resources -> Outcomes \cup {"none"}]
    /\ status \in [Resources -> {SUCCESS, FAIL, SKIP}]
    /\ completed \in [Resources -> BOOLEAN]
    /\ sent \in [Resources -> Seq(Groups)]
    /\ closed \in BOOLEAN
    /\ crashed \in BOOLEAN
    /\ raced \in BOOLEAN

Init ==
    /\ deps \in Schedules
    /\ pc = "scan"
    /\ toScan = Resources
    /\ nextPending = {}
    /\ runnable = {}
    /\ feed = {}
    /\ workClosed = TRUE
    /\ wpc = [w \in Workers |-> "exit"]
    /\ item = [w \in Workers |-> 1]
    /\ dirty = [w \in Workers |-> FALSE]
    /\ results = [r \in Resources |-> "none"]
    /\ status = [r \in Resources |-> SUCCESS]
    /\ completed = [r \in Resources |-> FALSE]
    /\ sent = [r \in Resources |-> <<>>]
    /\ closed = FALSE
    /\ crashed = FALSE
    /\ raced = FALSE

First(S) == CHOOSE r \in S : \A q \in S : r <= q

-----------------------------------------------------------------------------
(* The scan of pending.                                                    *)

\* Mutant: a skipped prerequisite does not count.
MustSkip_FailOnly(r) ==
    \E i \in DOMAIN deps[r] :
        (\A j \in 1..i : completed[deps[r][j]]) /\ status[deps[r][i]] = FAIL

\* The loop over the dependencies stops at the first one that has not
\* completed; a failed or skipped one before it already decided the skip.
MustSkip(r) ==
    \E i \in DOMAIN deps[r] :
        /\ \A j \in 1..i : completed[deps[r][j]]
        /\ status[deps[r][i]] \in {FAIL, SKIP}

Blocked(r) == \E i \in DOMAIN deps[r] : ~completed[deps[r][i]]

Verdict(r) ==
    CASE completed[r]                                 -> "done"
      [] ~completed[r] /\ MustSkip(r)                 -> "skip"
      [] ~completed[r] /\ ~MustSkip(r) /\ Blocked(r)  -> "blocked"
      [] OTHER                                        -> "run"

\* One iteration of the scan.  A skipped resource is delivered and entered
\* in both maps on the spot, so later items of the same scan see it.
ScanItem ==
    /\ pc = "scan" /\ ~crashed
    /\ toScan # {}
    /\ LET r == First(toScan)
           v == Verdict(r)
       IN  /\ toScan' = toScan \ {r}
           /\ runnable' = IF v = "run" THEN runnable \cup {r} ELSE runnable
           /\ nextPending' = IF v = "blocked" THEN nextPending \cup {r} ELSE nextPending
           /\ sent' = IF v = "skip" THEN [sent EXCEPT ![r] = Append(@, DependencyFailed)] ELSE sent
           /\ status' = IF v = "skip" THEN [status EXCEPT ![r] = SKIP] ELSE status
           /\ completed' = IF v = "skip" THEN [completed EXCEPT ![r] = TRUE] ELSE completed
    /\ UNCHANGED <<deps, pc, feedVars, workerVars, closed, crashed, raced>>

\* Nothing to run: every blocked resource is skipped and the goroutine ends.
NothingRunnable ==
    /\ pc = "scan" /\ ~crashed
    /\ toScan = {}
    /\ runnable = {}
    /\ pc' = "giveup"
    /\ UNCHANGED <<deps, toScan, nextPending, runnable, feedVars, workerVars, mapVars,
                   outVars, crashed, raced>>

\* Mutant: a blocked resource is dropped without results.
GiveUp_Silently ==
    /\ pc = "giveup" /\ ~crashed
    /\ nextPending # {}
    /\ nextPending' = nextPending \ {First(nextPending)}
    /\ UNCHANGED <<deps, pc, toScan, runnable, feedVars, workerVars, mapVars, outVars,
                   crashed, raced>>

GiveUp ==
    /\ pc = "giveup" /\ ~crashed
    /\ nextPending # {}
    /\ LET r == First(nextPending)
       IN  /\ nextPending' = nextPending \ {r}
           /\ sent' = [sent EXCEPT ![r] = Append(@, Unsatisfied)]
    /\ UNCHANGED <<deps, pc, toScan, runnable, feedVars, workerVars, mapVars, closed,
                   crashed, raced>>

\* The deferred close(out) on the return of the goroutine.
Return ==
    /\ pc = "giveup" /\ ~crashed
    /\ nextPending = {}
    /\ pc' = "done"
    /\ closed' = TRUE
    /\ UNCHANGED <<deps, toScan, nextPending, runnable, feedVars, workerVars, mapVars, sent,
                   crashed, raced>>

\* The feeder and the workers of the wave are started.
StartWave ==
    /\ pc = "scan" /\ ~crashed
    /\ toScan = {}
    /\ runnable # {}
    /\ pc' = "wait"
    /\ feed' = runnable
    /\ workClosed' = FALSE
    /\ wpc' = [w \in Workers |-> "recv"]
    /\ UNCHANGED <<deps, toScan, nextPending, runnable, item, dirty, results, mapVars,
                   outVars, crashed, raced>>

\* Mutant: the wave ends with its first worker.
EndWave_NoWait ==
    /\ pc = "wait" /\ ~crashed
    /\ \E w \in Workers : wpc[w] = "exit"
    /\ toScan' = nextPending
    /\ nextPending' = {}
    /\ runnable' = {}
    /\ pc' = IF nextPending = {} THEN "done" ELSE "scan"
    /\ closed' = (nextPending = {})
    /\ UNCHANGED <<deps, feedVars, workerVars, mapVars, sent, crashed, raced>>

\* Mutant: every wave starts with fresh maps.
EndWave_FreshMaps ==
    /\ pc = "wait" /\ ~crashed
    /\ \A w \in Workers : wpc[w] = "exit"
    /\ toScan' = nextPending
    /\ nextPending' = {}
    /\ runnable' = {}
    /\ pc' = IF nextPending = {} THEN "done" ELSE "scan"
    /\ closed' = (nextPending = {})
    /\ status' = [r \in Resources |-> SUCCESS]
    /\ completed' = [r \in Resources |-> FALSE]
    /\ UNCHANGED <<deps, feedVars, workerVars, sent, crashed, raced>>

\* wg.Wait() returns; pending = nextPending and the loop goes round or ends.
EndWave ==
    /\ pc = "wait" /\ ~crashed
    /\ \A w \in Workers : wpc[w] = "exit"
    /\ toScan' = nextPending
    /\ nextPending' = {}
    /\ runnable' = {}
    /\ pc' = IF nextPending = {} THEN "done" ELSE "scan"
    /\ closed' = (nextPending = {})
    /\ UNCHANGED <<deps, feedVars, workerVars, mapVars, sent, crashed, raced>>

-----------------------------------------------------------------------------
(* The feeder goroutine and the workers.                                   *)

\* Mutant: the feeder forgets to close work.
CloseWork_Never == ~crashed /\ feed = {} /\ ~workClosed /\ UNCHANGED vars

CloseWork ==
    /\ ~crashed
    /\ feed = {} /\ ~workClosed
    /\ workClosed' = TRUE
    /\ UNCHANGED <<deps, mainVars, feed, workerVars, mapVars, outVars, crashed, raced>>

\* work is unbuffered: the feeder's send and the worker's receive are one step.
Receive(w) ==
    /\ ~crashed
    /\ wpc[w] = "recv" /\ feed # {}
    /\ LET r == First(feed)
       IN  /\ item' = [item EXCEPT ![w] = r]
           /\ feed' = feed \ {r}
    /\ wpc' = [wpc EXCEPT ![w] = "validate"]
    /\ UNCHANGED <<deps, mainVars, workClosed, dirty, results, mapVars, outVars, crashed, raced>>

Exit(w) ==
    /\ ~crashed
    /\ wpc[w] = "recv" /\ workClosed
    /\ wpc' = [wpc EXCEPT ![w] = "exit"]
    /\ UNCHANGED <<deps, mainVars, feedVars, item, dirty, results, mapVars, outVars, crashed, raced>>

\* Worker w moves to the assignment "window"; every other worker there
\* overlaps with it.
OpenWindow(w, window) ==
    LET others == {v \in Workers \ {w} : wpc[v] = window}
    IN  /\ wpc' = [wpc EXCEPT ![w] = window]
        /\ dirty' = [v \in Workers |->
                        IF v = w THEN others # {} ELSE dirty[v] \/ v \in others]
        /\ raced' = (raced \/ others # {})

\* item.resource.Validate(sys) returns; the worker reaches status[item.ref] = ...
Validate(w, outcome) ==
    /\ ~crashed
    /\ wpc[w] = "validate"
    /\ results' = [results EXCEPT ![item[w]] = outcome]
    /\ OpenWindow(w, "status")
    /\ UNCHANGED <<deps, mainVars, feedVars, item, mapVars, outVars, crashed>>

\* Mutant: the class of the results is recorded as it is.
StatusOf_Raw(outcome) == outcome

\* Mutant: a resource whose results were all skipped counts as failed.
StatusOf_NotPassed(outcome) == IF outcome = "pass" THEN SUCCESS ELSE FAIL

\* The status a worker records: only a FAIL among the results counts.
StatusOf(outcome) == IF outcome = "fail" THEN FAIL ELSE SUCCESS

\* A map assignment by w takes effect; one that overlapped may be lost.
Assign(w, map, new) == new \/ (dirty[w] /\ UNCHANGED map)

WriteStatus(w) ==
    /\ ~crashed
    /\ wpc[w] = "status"
    /\ Assign(w, status, status' = [status EXCEPT ![item[w]] = StatusOf(results[item[w]])])
    /\ OpenWindow(w, "completed")
    /\ UNCHANGED <<deps, mainVars, feedVars, item, results, completed, outVars, crashed>>

WriteCompleted(w) ==
    /\ ~crashed
    /\ wpc[w] = "completed"
    /\ Assign(w, completed, completed' = [completed EXCEPT ![item[w]] = TRUE])
    /\ wpc' = [wpc EXCEPT ![w] = "send"]
    /\ dirty' = [dirty EXCEPT ![w] = FALSE]
    /\ UNCHANGED <<deps, mainVars, feedVars, item, results, status, outVars, crashed, raced>>

\* out is unbuffered and its consumer ranges over it until it is closed.
Send(w) ==
    /\ ~crashed
    /\ wpc[w] = "send"
    /\ sent' = [sent EXCEPT ![item[w]] = Append(@, results[item[w]])]
    /\ wpc' = [wpc EXCEPT ![w] = "recv"]
    /\ UNCHANGED <<deps, mainVars, feedVars, item, dirty, results, mapVars, closed, crashed, raced>>

\* fatal error: concurrent map writes
Fatal(w) ==
    /\ ~crashed
    /\ wpc[w] \in {"status", "completed"} /\ dirty[w]
    /\ crashed' = TRUE
    /\ UNCHANGED <<deps, mainVars, feedVars, workerVars, mapVars, outVars, raced>>

Stopped == (closed \/ crashed) /\ UNCHANGED vars

Main == ScanItem \/ NothingRunnable \/ GiveUp \/ Return \/ StartWave \/ EndWave

Worker(w) ==
    \/ Receive(w)
    \/ Exit(w)
    \/ \E outcome \in Outcomes : Validate(w, outcome)
    \/ WriteStatus(w)
    \/ WriteCompleted(w)
    \/ Send(w)

Next ==
    \/ Main
    \/ CloseWork
    \/ \E w \in Workers : Worker(w) \/ Fatal(w)
    \/ Stopped

\* Go schedules every goroutine that can run, and every system query behind
\* Validate is taken to return.  Nothing forces the runtime to detect a race.
Fairness ==
    /\ WF_vars(Main)
    /\ WF_vars(CloseWork)
    /\ \A w \in Workers : WF_vars(Worker(w))

Spec == Init /\ [][Next]_vars

FairSpec == Spec /\ Fairness
-----------------------------------------------------------------------------
(* Properties.                                                             *)

Prerequisites(r) == {deps[r][i] : i \in DOMAIN deps[r]}

\* r has been handed to a wave, whatever has become of it since.
Started(r) == r \in runnable \/ results[r] # "none"

SkippedByScheduler(r) == sent[r] \in {<<DependencyFailed>>, <<Unsatisfied>>}

\* A run delivers every resource's results exactly once and closes out after
\* the last one, whatever order the goroutines run in and even when a racing
\* assignment is lost; only a runtime fatal error can cut it short.
TR == INSTANCE TestRun
RunContract == TR!Spec

\* As long as no map assignment overlapped another one, a resource is only
\* handed to a wave after each of its prerequisites has been validated without
\* a failure and has delivered its results.
PrerequisitesFirst ==
    ~raced => \A r \in Resources : Started(r) =>
                  \A d \in Prerequisites(r) : sent[d] \in {<<"pass">>, <<"skipped">>}

\* When a run without overlapping assignments has closed its channel, exactly
\* those resources were skipped by the scheduler that have a prerequisite which
\* failed or was itself skipped by the scheduler: neither the order of the
\* schedule nor the interleaving of the workers decides it.
SkippedIffPrerequisiteFailed ==
    (closed /\ ~raced) =>
        \A r \in Resources :
            SkippedByScheduler(r) <=>
                \E d \in Prerequisites(r) : sent[d] = <<"fail">> \/ SkippedByScheduler(d)

\* When nothing failed and no assignment overlapped, nothing is skipped by the
\* scheduler: the "unsatisfied dependency" way out never hits a healthy run.
NoSpuriousSkip ==
    (closed /\ ~raced /\ \A r \in Resources : results[r] # "fail") =>
        \A r \in Resources : ~SkippedByScheduler(r)

\* Once a resource is entered as completed, neither map forgets or changes it,
\* racing workers included: a dependent's verdict cannot be revised.
VerdictStable ==
    [][\A r \in Resources :
          completed[r] => completed'[r] /\ status'[r] = status[r]]_vars

\* Every run ends: out is closed, or the process has died.
Termination == <>(closed \/ crashed)

\* What gossfile.md says of independent chains, as far as liveness of the
\* process goes: running them in parallel does not kill the run.
ParallelChainsSurvive == ~crashed
=============================================================================
