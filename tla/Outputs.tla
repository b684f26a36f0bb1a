------------------------------ MODULE Outputs -------------------------------
(***************************************************************************)
(* What the outputers (outputs/) make of a run: they range over the result *)
(* channel, count, and return an exit code.  A run is the sequence of the  *)
(* groups in the order in which the channel delivered them, and a group is *)
(* the sequence of the results of one resource.                            *)
(***************************************************************************)
EXTENDS Integers, Sequences, FiniteSets, SequencesExt

SUCCESS == "SUCCESS"
FAIL    == "FAIL"
SKIP    == "SKIP"
Results == {SUCCESS, FAIL, SKIP}

\* The outputers whose exit code depends on the results.  documentation, which
\* takes the first result of every group and cannot range over a run with an
\* empty one, is left out.
CountingFormats == {"json", "junit", "nagios", "rspecish", "silent", "tap"}
Formats == CountingFormats \cup {"structured", "prometheus"}

\* testCount, failed and skipped of the counting outputers.
Count(run, kinds) ==
    Cardinality(UNION {{<<k, l>> : l \in {m \in DOMAIN run[k] : run[k][m] \in kinds}} :
                       k \in DOMAIN run})

failed(run) == Count(run, {FAIL})

\* What failed counts, without counting.
SomeFailed(run) == \E k \in DOMAIN run : \E l \in DOMAIN run[k] : run[k][l] = FAIL

\* structured never reports a failure, and prometheus only one of its own: the
\* registry that cannot be gathered or the output that cannot be written.
ExitCodes(format, run) ==
    CASE format = "structured"                                        -> {0}
      [] format = "prometheus"                                        -> {0, -1}
      [] format \in CountingFormats /\ failed(run) = 0                -> {0}
      [] format = "nagios" /\ failed(run) > 0                         -> {2}
      [] format \in CountingFormats \ {"nagios"} /\ failed(run) > 0   -> {1}

-----------------------------------------------------------------------------
(* The outcome of the run that prometheus counts in run_outcomes_total.    *)

ToOutcome(result) ==
    CASE result = SUCCESS -> "pass" [] result = FAIL -> "fail" [] result = SKIP -> "skip"

\* Mutant: a test that passes takes back the failure before it.
canChangeOverallOutcome_PassOverFail(current, outcome) ==
    \/ current \in {"skip", "fail"}
    \/ current = "pass" /\ outcome # "skip"
    \/ current = "unknown" /\ outcome = "fail"

canChangeOverallOutcome(current, outcome) ==
    \/ current = "skip"
    \/ current = "pass" /\ outcome # "skip"
    \/ current = "unknown" /\ outcome = "fail"

\* The inner loop: the first result of a group always replaces the outcome.
GroupOutcome(current, group) ==
    FoldLeft(LAMBDA acc, result :
                IF canChangeOverallOutcome(acc, ToOutcome(result)) THEN ToOutcome(result) ELSE acc,
             IF group = <<>> THEN current ELSE ToOutcome(group[1]),
             group)

OverallOutcome(run) == FoldLeft(GroupOutcome, "unknown", run)
=============================================================================
