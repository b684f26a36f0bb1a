---------------------------- MODULE RetryProofs -----------------------------
(***************************************************************************)
(* Proofs about the retry loop of ValidateConfig for any timeout, sleep,   *)
(* duration of an attempt and any results of the tests.                    *)
(***************************************************************************)
EXTENDS Retry, OutputsProofs, SequenceTheorems

Runs == Seq(Seq(Results))

\* The types of the variables.
RetryTypeOK ==
    /\ options \in Options
    /\ pc \in {"run", "judge", "sleep", "returned"}
    /\ i \in Nat
    /\ elapsed \in Nat
    /\ world \in Worlds
    /\ results \in Runs
    /\ code \in Int
    /\ since \in SUBSET Worlds

\* A System is new when the sleep before an attempt begins, and nobody asks it
\* before the attempt.
FreshSystem == pc \in {"run", "sleep"} => sys = <<>>

\* The world as it is counts among those seen since the attempt began.
WorldSeen == world \in since

\* ValidateConfig sleeps only when that leaves time for another attempt.
SleepFits == pc = "sleep" => elapsed + options.sleep <= options.retryTimeout

\* The inductive invariant of the retry loop.
RetryInv ==
    /\ RetryTypeOK
    /\ FreshSystem
    /\ WorldSeen
    /\ SleepFits
    /\ ExitReflectsLastAttempt
    /\ VerdictIsCurrent
    /\ AttemptsStartInTime

\* What the options of a run are.
LEMMA OptionTypes == ASSUME RetryTypeOK
                     PROVE  /\ options.format \in Formats
                            /\ options.retryTimeout \in Nat
                            /\ options.sleep \in Nat
                            /\ options.scheduleOK \in BOOLEAN
BY RetryAssumption DEF RetryTypeOK

\* In whatever order its groups are delivered, a run stays a run.
LEMMA OrdersAreRuns == ASSUME NEW groups \in Runs PROVE Orders(groups) \subseteq Runs
<1> SUFFICES ASSUME NEW o \in Orders(groups) PROVE o \in Runs
  OBVIOUS
<1>1. PICK p \in [DOMAIN groups -> DOMAIN groups] : o = [k \in DOMAIN groups |-> groups[p[k]]]
  BY DEF Orders
<1>2. DOMAIN groups = 1..Len(groups) /\ Len(groups) \in Nat
  BY DEF Runs
<1>3. \A k \in DOMAIN groups : groups[p[k]] \in Seq(Results)
  <2> SUFFICES ASSUME NEW k \in DOMAIN groups PROVE groups[p[k]] \in Seq(Results)
    OBVIOUS
  <2>1. p[k] \in DOMAIN groups
    OBVIOUS
  <2> QED
    BY <2>1 DEF Runs
<1>4. o \in [1..Len(groups) -> Seq(Results)]
  BY <1>1, <1>2, <1>3
<1>5. o \in UNION {[1..n -> Seq(Results)] : n \in Nat}
  BY <1>2, <1>4
<1> QED
  BY <1>5, SeqDef, Zenon DEF Runs

\* The initial states satisfy the invariant.
LEMMA RetryInitial == Init => RetryInv
<1> SUFFICES ASSUME Init PROVE RetryInv
  OBVIOUS
<1>1. RetryTypeOK
  BY DEF Init, RetryTypeOK, Runs, NoCode
<1> QED
  BY <1>1 DEF Init, RetryInv, FreshSystem, WorldSeen, SleepFits, ExitReflectsLastAttempt,
              VerdictIsCurrent, AttemptsStartInTime

\* The world changes on its own.
LEMMA ChangeKeeps == RetryInv /\ Change => RetryInv'
<1> SUFFICES ASSUME RetryInv, Change PROVE RetryInv'
  OBVIOUS
<1> USE DEF Change, RetryInv
<1>1. RetryTypeOK'
  BY DEF RetryTypeOK
<1>2. VerdictIsCurrent'
  BY DEF VerdictIsCurrent
<1>3. FreshSystem' /\ WorldSeen' /\ SleepFits' /\ ExitReflectsLastAttempt' /\ AttemptsStartInTime'
  BY DEF FreshSystem, WorldSeen, SleepFits, ExitReflectsLastAttempt, AttemptsStartInTime
<1> QED
  BY <1>1, <1>2, <1>3

\* runValidation refuses the gossfile.
LEMMA RefuseKeeps == RetryInv /\ Refuse => RetryInv'
<1> SUFFICES ASSUME RetryInv, Refuse PROVE RetryInv'
  OBVIOUS
<1> USE DEF Refuse, Return, RetryInv
<1>1. RetryTypeOK'
  BY DEF RetryTypeOK
<1> QED
  BY <1>1 DEF FreshSystem, WorldSeen, SleepFits, ExitReflectsLastAttempt, VerdictIsCurrent,
              AttemptsStartInTime

\* An attempt runs the tests against a System that has cached nothing, so it
\* sees a world of its own time.
LEMMA AttemptKeeps == ASSUME NEW duration \in 1..MaxRun, RetryInv, Attempt(duration)
                      PROVE  RetryInv'
<1> USE DEF Attempt, RetryInv
<1>1. sys'[1] = world
  BY DEF FreshSystem
<1>2. results' \in Orders(world)
  BY <1>1
<1>3. world \in Runs
  BY RetryAssumption DEF RetryTypeOK, Runs
<1>4. RetryTypeOK'
  <2>1. results' \in Runs
    BY <1>2, <1>3, OrdersAreRuns
  <2> QED
    BY <2>1, RetryAssumption DEF RetryTypeOK
<1>5. VerdictIsCurrent'
  BY <1>2 DEF VerdictIsCurrent, WorldSeen
<1>6. FreshSystem' /\ WorldSeen' /\ SleepFits' /\ ExitReflectsLastAttempt' /\ AttemptsStartInTime'
  BY DEF FreshSystem, WorldSeen, SleepFits, ExitReflectsLastAttempt, AttemptsStartInTime
<1> QED
  BY <1>4, <1>5, <1>6

\* The exit code decides: return it, give up with 3, or sleep.
LEMMA JudgeKeeps == ASSUME NEW exitCode \in ExitCodes(options.format, results), RetryInv,
                           Judge(exitCode)
                    PROVE  RetryInv'
<1> USE DEF RetryInv
<1>1. UNCHANGED <<options, i, elapsed, world, results, since>> /\ pc = "judge"
  BY DEF Judge
<1>2. CASE /\ options.retryTimeout = 0 \/ exitCode = 0
           /\ Return(exitCode) /\ UNCHANGED sys
  <2> USE <1>2 DEF Return
  <2>1. RetryTypeOK'
    <3>1. exitCode \in {-1, 0, 1, 2}
      BY ExitCodesBounded, OptionTypes DEF RetryTypeOK, Runs
    <3> QED
      BY <1>1, <3>1 DEF RetryTypeOK
  <2>2. ExitReflectsLastAttempt'
    <3> SUFFICES ASSUME options.format \in CountingFormats
                 PROVE  /\ code' = 0 <=> ~SomeFailed(results)
                        /\ code' = 3 <=> SomeFailed(results) /\ options.retryTimeout # 0
      BY <1>1 DEF ExitReflectsLastAttempt
    <3>1. exitCode \in {0, 1, 2} /\ (exitCode = 0 <=> ~SomeFailed(results))
      BY ExitCodeCountsFailures DEF RetryTypeOK, Runs
    <3> QED
      BY <3>1
  <2> QED
    BY <1>1, <2>1, <2>2 DEF FreshSystem, WorldSeen, SleepFits, VerdictIsCurrent, AttemptsStartInTime
<1>3. CASE /\ options.retryTimeout # 0 /\ exitCode # 0
           /\ elapsed + options.sleep > options.retryTimeout
           /\ Return(3) /\ UNCHANGED sys
  <2> USE <1>3 DEF Return
  <2>1. RetryTypeOK'
    BY <1>1 DEF RetryTypeOK
  <2>2. ExitReflectsLastAttempt'
    <3> SUFFICES ASSUME options.format \in CountingFormats
                 PROVE  SomeFailed(results)
      BY <1>1 DEF ExitReflectsLastAttempt
    <3> QED
      BY ExitCodeCountsFailures DEF RetryTypeOK, Runs
  <2> QED
    BY <1>1, <2>1, <2>2 DEF FreshSystem, WorldSeen, SleepFits, VerdictIsCurrent, AttemptsStartInTime
<1>4. CASE /\ options.retryTimeout # 0 /\ exitCode # 0
           /\ elapsed + options.sleep <= options.retryTimeout
           /\ sys' = <<>>
           /\ pc' = "sleep" /\ UNCHANGED code
  <2>1. RetryTypeOK'
    BY <1>1, <1>4 DEF RetryTypeOK
  <2> QED
    BY <1>1, <1>4, <2>1 DEF FreshSystem, WorldSeen, SleepFits, ExitReflectsLastAttempt,
                            VerdictIsCurrent, AttemptsStartInTime
<1> QED
  BY <1>2, <1>3, <1>4 DEF Judge

\* ValidateConfig sleeps, and the next attempt begins with a new System.
LEMMA SleepKeeps == ASSUME NEW late \in 0..MaxLate, RetryInv, Sleep(late)
                    PROVE  RetryInv'
<1> USE DEF Sleep, RetryInv
<1>1. RetryTypeOK'
  BY OptionTypes, RetryAssumption DEF RetryTypeOK
<1>2. AttemptsStartInTime'
  BY OptionTypes, RetryAssumption DEF RetryTypeOK, AttemptsStartInTime, SleepFits
<1> QED
  BY <1>1, <1>2 DEF FreshSystem, WorldSeen, SleepFits, ExitReflectsLastAttempt, VerdictIsCurrent

\* The invariant is inductive.
LEMMA RetryInductive == RetryInv /\ [Next]_vars => RetryInv'
<1> SUFFICES ASSUME RetryInv, [Next]_vars PROVE RetryInv'
  OBVIOUS
<1>1. CASE Step
  BY <1>1, RefuseKeeps, AttemptKeeps, JudgeKeeps, SleepKeeps DEF Step
<1>2. CASE Change
  BY <1>2, ChangeKeeps
<1>3. CASE UNCHANGED vars
  BY <1>3 DEF vars, RetryInv, RetryTypeOK, FreshSystem, WorldSeen, SleepFits,
              ExitReflectsLastAttempt, VerdictIsCurrent, AttemptsStartInTime
<1> QED
  BY <1>1, <1>2, <1>3 DEF Next, Returned

\* The invariant holds in every state of the retry loop (validate.go).
THEOREM RetryInvariant == Spec => []RetryInv
<1>1. Init /\ [][Next]_vars => []RetryInv
  BY RetryInitial, RetryInductive, PTL
<1> QED
  BY <1>1, PTL DEF Spec

\* The code ValidateConfig returns in a counting format tells what the last
\* attempt found, after any number of attempts: 0 when nothing failed, 3 when
\* something did and there was a retry timeout, the format's own code otherwise.
THEOREM RetryExitReflectsLastAttempt == Spec => []ExitReflectsLastAttempt
<1>1. RetryInv => ExitReflectsLastAttempt
  BY DEF RetryInv
<1> QED
  BY <1>1, RetryInvariant, PTL

\* No attempt reports what an earlier one had cached: ValidateConfig makes a new
\* System for each, so its verdict is one of the worlds of its own time.
THEOREM RetryVerdictIsCurrent == Spec => []VerdictIsCurrent
<1>1. RetryInv => VerdictIsCurrent
  BY DEF RetryInv
<1> QED
  BY <1>1, RetryInvariant, PTL

\* No retry begins later than --retry-timeout allows, apart from oversleeping,
\* whatever the sleep and however long the attempts take.
THEOREM RetryAttemptsStartInTime == Spec => []AttemptsStartInTime
<1>1. RetryInv => AttemptsStartInTime
  BY DEF RetryInv
<1> QED
  BY <1>1, RetryInvariant, PTL

\* The outcome prometheus counts for a run is a failure only if a test failed,
\* and is one if the last group with a result in it has a failure, for any number
\* of groups in any order and any results in them.
THEOREM RetryOutcomeCountsFailures == Spec => []OutcomeCountsFailures
<1>1. RetryInv => OutcomeCountsFailures
  <2> SUFFICES ASSUME RetryInv PROVE OutcomeCountsFailures
    OBVIOUS
  <2>1. OverallOutcome(results) = "fail" <=>
            \E k \in DOMAIN results : /\ SomeFailed(<<results[k]>>)
                                      /\ \A l \in DOMAIN results : l > k => results[l] = <<>>
    BY OverallFails DEF RetryInv, RetryTypeOK, Runs
  <2>2. \A k \in DOMAIN results : SomeFailed(<<results[k]>>) => SomeFailed(results)
    BY DEF SomeFailed
  <2> QED
    BY <2>1, <2>2 DEF OutcomeCountsFailures
<1> QED
  BY <1>1, RetryInvariant, PTL
=============================================================================
