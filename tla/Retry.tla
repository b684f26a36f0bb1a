-------------------------------- MODULE Retry --------------------------------
(***************************************************************************)
(* ValidateConfig (validate.go): the attempts of "goss validate" with      *)
(* --retry-timeout and --sleep.  An attempt runs all tests against a       *)
(* system.System, whose caches are filled the first time they are asked    *)
(* and never again, hands the results to the outputer, and its exit code   *)
(* decides whether to try again.                                           *)
(*                                                                         *)
(* Time is counted in ticks; an attempt takes at least one and time.Sleep  *)
(* may oversleep.  The world is what the tests would find; it changes on   *)
(* its own.                                                                *)
(***************************************************************************)
EXTENDS Outputs

CONSTANTS
    Options,         \* [format, retryTimeout, sleep, scheduleOK]
    Worlds,          \* sequences of groups: what the tests can find
    MaxRun,          \* an attempt takes 1..MaxRun ticks
    MaxLate          \* time.Sleep takes up to MaxLate ticks more

ASSUME RetryAssumption ==
    /\ MaxRun \in Nat \ {0} /\ MaxLate \in Nat
    /\ Options \subseteq [format : Formats, retryTimeout : Nat, sleep : Nat, scheduleOK : BOOLEAN]
    /\ Worlds \subseteq Seq(Seq(Results))

VARIABLES
    options,
    pc,              \* "run", "judge", "sleep", "returned"
    i,               \* number of the attempt
    elapsed,         \* ticks since startTime
    world,           \* what the tests would find now
    sys,             \* what the System has cached: <<>> or <<world>>
    results,         \* the run the outputer ranged over, in order of delivery
    code,            \* what ValidateConfig returned
    since            \* history: the worlds since the attempt began

vars == <<options, pc, i, elapsed, world, sys, results, code, since>>

NoCode == 99

Init ==
    /\ options \in Options
    /\ pc = "run"
    /\ i = 1
    /\ elapsed = 0
    /\ world \in Worlds
    /\ sys = <<>>
    /\ results = <<>>
    /\ code = NoCode
    /\ since = {world}

Change ==
    /\ pc # "returned"
    /\ world' \in Worlds \ {world}
    /\ since' = since \cup {world'}
    /\ UNCHANGED <<options, pc, i, elapsed, sys, results, code>>

\* The orders in which a run may deliver the groups of its resources.
Orders(groups) ==
    {[k \in DOMAIN groups |-> groups[p[k]]] : p \in {q \in [DOMAIN groups -> DOMAIN groups] :
        \A k, l \in DOMAIN groups : q[k] = q[l] => k = l}}

Return(c) == pc' = "returned" /\ code' = c

\* runValidation refuses the gossfile: see BuildSchedule.
Refuse ==
    /\ pc = "run" /\ ~options.scheduleOK
    /\ Return(1)
    /\ UNCHANGED <<options, i, elapsed, world, sys, results, since>>

\* runValidation and the outputer's range over its channel.
Attempt(duration) ==
    /\ pc = "run" /\ options.scheduleOK
    /\ sys' = IF sys = <<>> THEN <<world>> ELSE sys
    /\ results' \in Orders(sys'[1])
    /\ elapsed' = elapsed + duration
    /\ pc' = "judge"
    /\ UNCHANGED <<options, i, world, code, since>>

\* Mutant: the timeout is looked at before the exit code.
Judge_TimeoutFirst(exitCode) ==
    /\ pc = "judge"
    /\ IF options.retryTimeout # 0 /\ elapsed + options.sleep > options.retryTimeout
       THEN Return(3) /\ UNCHANGED sys
       ELSE IF options.retryTimeout = 0 \/ exitCode = 0
       THEN Return(exitCode) /\ UNCHANGED sys
       ELSE sys' = <<>> /\ pc' = "sleep" /\ UNCHANGED code
    /\ UNCHANGED <<options, i, elapsed, world, results, since>>

\* Mutant: the next attempt uses the same system.System.
Judge_KeepSystem(exitCode) ==
    /\ pc = "judge"
    /\ IF options.retryTimeout = 0 \/ exitCode = 0 THEN Return(exitCode)
       ELSE IF elapsed + options.sleep > options.retryTimeout THEN Return(3)
       ELSE pc' = "sleep" /\ UNCHANGED code
    /\ UNCHANGED <<options, i, elapsed, world, sys, results, since>>

\* Mutant: the sleep is not counted.
Judge_ForgetSleep(exitCode) ==
    /\ pc = "judge"
    /\ IF options.retryTimeout = 0 \/ exitCode = 0 THEN Return(exitCode) /\ UNCHANGED sys
       ELSE IF elapsed > options.retryTimeout THEN Return(3) /\ UNCHANGED sys
       ELSE sys' = <<>> /\ pc' = "sleep" /\ UNCHANGED code
    /\ UNCHANGED <<options, i, elapsed, world, results, since>>

Judge(exitCode) ==
    /\ pc = "judge"
    /\ \/ /\ options.retryTimeout = 0 \/ exitCode = 0
          /\ Return(exitCode) /\ UNCHANGED sys
       \/ /\ options.retryTimeout # 0 /\ exitCode # 0
          /\ elapsed + options.sleep > options.retryTimeout
          /\ Return(3) /\ UNCHANGED sys
       \/ /\ options.retryTimeout # 0 /\ exitCode # 0
          /\ elapsed + options.sleep <= options.retryTimeout
          /\ sys' = <<>>
          /\ pc' = "sleep" /\ UNCHANGED code
    /\ UNCHANGED <<options, i, elapsed, world, results, since>>

\* Mutant: startTime is taken anew for every attempt.
Sleep_StartOver(late) ==
    /\ pc = "sleep"
    /\ elapsed' = 0 /\ i' = 1
    /\ since' = {world}
    /\ pc' = "run"
    /\ UNCHANGED <<options, world, sys, results, code>>

Sleep(late) ==
    /\ pc = "sleep"
    /\ elapsed' = elapsed + options.sleep + late
    /\ i' = i + 1
    /\ since' = {world}
    /\ pc' = "run"
    /\ UNCHANGED <<options, world, sys, results, code>>

Returned == pc = "returned" /\ UNCHANGED vars

Step ==
    \/ Refuse
    \/ \E duration \in 1..MaxRun : Attempt(duration)
    \/ \E exitCode \in ExitCodes(options.format, results) : Judge(exitCode)
    \/ \E late \in 0..MaxLate : Sleep(late)

Next == Step \/ Change \/ Returned

\* The attempts go on; nothing is assumed of the world.
Spec == Init /\ [][Next]_vars /\ WF_vars(Step)

-----------------------------------------------------------------------------
(* Properties.                                                             *)

\* The exit code of a counting format says what the last attempt found, however
\* many attempts there were and in whatever order the groups came: zero exactly
\* when no result failed, and 3 instead of the format's own code exactly when
\* there was time to retry at all.
ExitReflectsLastAttempt ==
    (pc = "returned" /\ options.format \in CountingFormats /\ options.scheduleOK) =>
        /\ code = 0 <=> ~SomeFailed(results)
        /\ code = 3 <=> SomeFailed(results) /\ options.retryTimeout # 0

\* What an attempt reports is something the world was like during that attempt,
\* never what an earlier attempt had cached: a system that recovered before the
\* last attempt is not reported as failing.
VerdictIsCurrent ==
    pc \in {"judge", "returned"} /\ options.scheduleOK =>
        \E w \in since : results \in Orders(w)

\* No attempt starts after the timeout, oversleeping apart, however long the
\* attempts before it took.  One may start at the timeout itself, where
\* docs/cli.md:356 allows none: it says "so long as elapsed + sleep time is less
\* than this", and the code gives up only above it.
AttemptsStartInTime ==
    (pc = "run" /\ i > 1) => elapsed <= options.retryTimeout + MaxLate

\* goss validate returns, whatever the world does.
Termination == <>(pc = "returned")

\* Whatever the order of the groups, prometheus counts the run as a failed one
\* only if a test failed, and does so if one failed in the last group to arrive
\* with a result in it.  A failure in an earlier group may be forgotten, although
\* outputs/prometheus.go:117 speaks of "this run as a whole".
OutcomeCountsFailures ==
    /\ OverallOutcome(results) = "fail" => SomeFailed(results)
    /\ (\E k \in DOMAIN results : /\ SomeFailed(<<results[k]>>)
                                   /\ \A l \in DOMAIN results : l > k => results[l] = <<>>)
           => OverallOutcome(results) = "fail"
=============================================================================
