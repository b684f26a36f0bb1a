------------------------------ MODULE Parallel ------------------------------
(***************************************************************************)
(* validateParallel (validate.go): the run of a gossfile without           *)
(* depends-on.  A feeder goroutine sends the resources on the unbuffered   *)
(* channel in, workers validate what they receive and send the results on  *)
(* the unbuffered channel out, and a third goroutine closes out when all   *)
(* workers are done.                                                       *)
(*                                                                         *)
(* Unlike the scheduler and the discovery phase, this pool does not raise  *)
(* a worker count below one: with --max-concurrent 0 it has no worker.     *)
(***************************************************************************)
EXTENDS Integers, Sequences

CONSTANTS
    N,               \* number of resources
    NumCPU,          \* runtime.NumCPU()
    MaxConcurrent    \* --max-concurrent, any int

ASSUME PoolAssumption == N \in Nat /\ NumCPU \in Nat \ {0} /\ MaxConcurrent \in Int

Resources == 1..N

Outcomes == {"pass", "fail", "skipped"}

WorkerCount == IF NumCPU * 5 > MaxConcurrent THEN MaxConcurrent ELSE NumCPU * 5

Workers == 1..WorkerCount

VARIABLES
    fed,           \* resources 1..fed have been received from in
    inClosed,      \* the feeder closed in
    wpc,           \* worker: "recv", "validate", "send", "exit"
    item,          \* the resource a worker holds; 0 before its first one
    results,       \* what the worker's Validate returned
    sent,          \* sent[r]: the groups of r the consumer received from out
    closed         \* out is closed

vars == <<fed, inClosed, wpc, item, results, sent, closed>>

TypeOK ==
    /\ fed \in 0..N
    /\ inClosed \in BOOLEAN
    /\ wpc \in [Workers -> {"recv", "validate", "send", "exit"}]
    /\ item \in [Workers -> 0..N]
    /\ results \in [Workers -> Outcomes]
    /\ sent \in [Resources -> Seq(Outcomes)]
    /\ closed \in BOOLEAN

Init ==
    /\ fed = 0
    /\ inClosed = FALSE
    /\ wpc = [w \in Workers |-> "recv"]
    /\ item = [w \in Workers |-> 0]
    /\ results = [w \in Workers |-> "pass"]
    /\ sent = [r \in Resources |-> <<>>]
    /\ closed = FALSE

\* The feeder's send and the worker's receive are one step.
Receive(w) ==
    /\ wpc[w] = "recv" /\ fed < N
    /\ fed' = fed + 1
    /\ item' = [item EXCEPT ![w] = fed + 1]
    /\ wpc' = [wpc EXCEPT ![w] = "validate"]
    /\ UNCHANGED <<inClosed, results, sent, closed>>

CloseIn ==
    /\ fed = N /\ ~inClosed
    /\ inClosed' = TRUE
    /\ UNCHANGED <<fed, wpc, item, results, sent, closed>>

Validate(w, outcome) ==
    /\ wpc[w] = "validate"
    /\ results' = [results EXCEPT ![w] = outcome]
    /\ wpc' = [wpc EXCEPT ![w] = "send"]
    /\ UNCHANGED <<fed, inClosed, item, sent, closed>>

\* The consumer ranges over out until it is closed.
Send(w) ==
    /\ wpc[w] = "send"
    /\ sent' = [sent EXCEPT ![item[w]] = Append(@, results[w])]
    /\ wpc' = [wpc EXCEPT ![w] = "recv"]
    /\ UNCHANGED <<fed, inClosed, item, results, closed>>

\* Mutant: a worker takes one resource instead of ranging over in.
Exit_AfterOne(w) ==
    /\ wpc[w] = "recv" /\ (inClosed \/ item[w] # 0)
    /\ wpc' = [wpc EXCEPT ![w] = "exit"]
    /\ UNCHANGED <<fed, inClosed, item, results, sent, closed>>

\* The range over in ends: defer wg.Done().
Exit(w) ==
    /\ wpc[w] = "recv" /\ inClosed
    /\ wpc' = [wpc EXCEPT ![w] = "exit"]
    /\ UNCHANGED <<fed, inClosed, item, results, sent, closed>>

\* Mutant: a worker is done before it has sent its last results.
CloseOut_BeforeSend ==
    /\ ~closed /\ inClosed
    /\ \A w \in Workers : wpc[w] \in {"send", "exit"}
    /\ closed' = TRUE
    /\ UNCHANGED <<fed, inClosed, wpc, item, results, sent>>

\* wg.Wait() returns and out is closed.
CloseOut ==
    /\ ~closed
    /\ \A w \in Workers : wpc[w] = "exit"
    /\ closed' = TRUE
    /\ UNCHANGED <<fed, inClosed, wpc, item, results, sent>>

Stopped == closed /\ UNCHANGED vars

Worker(w) ==
    \/ Receive(w)
    \/ \E outcome \in Outcomes : Validate(w, outcome)
    \/ Send(w)
    \/ Exit(w)

Next == CloseIn \/ CloseOut \/ Stopped \/ \E w \in Workers : Worker(w)

Spec == Init /\ [][Next]_vars

\* Go schedules every goroutine that can run; Validate is taken to return.
FairSpec ==
    /\ Spec
    /\ WF_vars(CloseIn)
    /\ WF_vars(CloseOut)
    /\ \A w \in Workers : WF_vars(Worker(w))

-----------------------------------------------------------------------------
(* Properties.                                                             *)

\* The same contract as the scheduler's: every resource delivers exactly one
\* group and out is closed after the last one.  It needs at least one worker:
\* with none, out is closed at once and every test is dropped silently.
TR == INSTANCE TestRun WITH Groups <- Outcomes, crashed <- FALSE
RunContract == TR!Spec

\* When out is closed the feeder has handed over every resource and ended: a
\* run leaves no goroutine behind that is blocked on in (serve starts a run for
\* each request that finds the cache empty).
NoFeederLeft == (closed /\ WorkerCount >= 1) => (inClosed /\ fed = N)

\* Every run ends with out closed: no worker, feeder or closer waits for ever.
Termination == <>closed
=============================================================================
